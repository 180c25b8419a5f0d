----------------------------- MODULE Discovery -----------------------------
(***************************************************************************)
(* What a user is shown to find videos by: recommendations, the pages of   *)
(* trending, recent and similar videos behind the recommendation cache     *)
(* (handlers/recommendations.rs), search and its suggestions               *)
(* (services/search_service.rs), and the job that lets trending scores     *)
(* decay (video_repo.rs).  Requests read a statement at a time while       *)
(* videos are added, edited, watched and deleted around them.              *)
(***************************************************************************)
EXTENDS Naturals, Sequences, FiniteSets, SequencesExt, FiniteSetsExt

CONSTANTS
  Seekers,        \* requests, each answered once
  Searches,       \* what the requests may ask: a set of functions from Seekers to asks
  Owners,         \* users who have videos, or ask for them
  VideoIds,       \* ids of videos, in the order they are created
  Catalogs,       \* the videos there may be at first
  Uploaded,       \* the row of an upload
  Watched,        \* playback_history there may be at first: <<user, id>>
  Categories, NoCategory,
  FeedLimit,      \* the limit of GET /recommendations
  CategoryLimit,  \* the LIMIT of the categories it goes by
  ListLimit,      \* and of the similar videos and the suggestions
  MaxSize,        \* the clamp of PageParams
  MaxLimit,       \* MAX_RECOMMENDATION_LIMIT
  BatchSize,      \* BATCH_SIZE of the recomputation
  MaxEdits,       \* bound: changes around the requests
  MaxRounds,      \* bound: rounds of the recomputation
  NoRow, Gone, NoPage, NoLock, Unprobed

VARIABLES
  catalog,        \* the table videos, as far as it is asked here
  history,        \* playback_history
  seek,           \* the requests
  pages,          \* recommendation_cache: the pages it holds, by key
  locks,          \* INFLIGHT_LOCKS: the lock of a key, by key
  suggested,      \* SUGGEST_CACHE
  zhparser,       \* whether the database has the parser
  probed,         \* CHINESE_FTS_CACHE
  cursor,         \* last_id of the round under way
  rounds, edits,
  due,            \* history: videos whose score was out of date when the round began
  loads           \* history: loads under the lock of a key since it last had a reason to be missing

feedRows == <<catalog, history, zhparser, edits>>
jobVars == <<cursor, rounds, due>>
discoveryVars == <<feedRows, seek, pages, locks, suggested, probed, jobVars, loads>>

-----------------------------------------------------------------------------
\* calculate_trending_score, as it orders videos of some hours and of some weeks.
Score(views, old) == IF old THEN 14 * views ELSE 22 + 50 * views

\* The rows of the table, what a request may ask, and what it finds.
CatalogRows == [owner : Owners, category : Categories \cup {NoCategory}, views : Nat, local : BOOLEAN,
                old : BOOLEAN, score : Nat, matches : SUBSET {"token", "prefix", "word", "substring"}]
AskSet == [kind : {"trending", "recent", "similar", "foryou", "search", "suggest"}, user : Owners, admin : BOOLEAN,
           video : Nat, page : Nat \ {0}, size : Nat, query : {"none", "blank", "ascii", "cjk"}]
FoundRows == [id : VideoIds, category : Categories \cup {NoCategory}]

\* Limits are at least one, ids are numbers, scores are wrong only because of age, and
\* none of the place holders is what it stands for.
ASSUME DiscoveryAssumption ==
  /\ MaxLimit \in Nat \ {0} /\ BatchSize \in Nat \ {0} /\ MaxSize \in Nat \ {0}
  /\ FeedLimit \in Nat \ {0} /\ CategoryLimit \in Nat \ {0} /\ ListLimit \in 1..MaxSize
  /\ IsFiniteSet(Seekers) /\ Searches \subseteq [Seekers -> AskSet] /\ "all" \notin Owners
  /\ IsFiniteSet(VideoIds) /\ VideoIds \subseteq Nat \ {0}
  /\ {NoRow, Gone} \cap CatalogRows = {} /\ NoRow # Gone
  /\ NoPage \notin [rows : Seq(FoundRows), total : Nat] /\ NoLock \notin Nat
  /\ Uploaded \in CatalogRows /\ ~Uploaded.old /\ Uploaded.score = Score(Uploaded.views, FALSE)
  /\ \A c \in Catalogs :
       /\ c \in [VideoIds -> CatalogRows \cup {NoRow, Gone}]
       /\ \A v \in VideoIds : c[v] \in CatalogRows /\ ~c[v].old => c[v].score = Score(c[v].views, FALSE)

Rows == {v \in VideoIds : catalog[v] \notin {NoRow, Gone}}
Outdated == {v \in Rows : catalog[v].score # Score(catalog[v].views, catalog[v].old)}
OwnedBy(u) == {v \in Rows : catalog[v].owner = u}
Local(S) == {v \in S : catalog[v].local}
HasWatched(u, v) == <<u, v>> \in history

\* The orders of a set of videos, first those with the greater key, and the rows
\* of a page.
OrdersBy(S, key) == {s \in SetToSeqs(S) : \A i, j \in DOMAIN s : i < j => key[s[i]] >= key[s[j]]}
PageOf(s, offset, limit) ==
  [i \in 1..Min({limit, Max({0, Len(s) - offset})}) |-> [id |-> s[offset + i], category |-> catalog[s[offset + i]].category]]
Of(rows) == {rows[i].id : i \in DOMAIN rows}

\* ORDER BY views DESC, id DESC is one order.
Above(v, w) == catalog[v].views > catalog[w].views \/ (catalog[v].views = catalog[w].views /\ v > w)
MostViewed(S) == {s \in SetToSeqs(S) : \A i, j \in DOMAIN s : i < j => Above(s[i], s[j])}

\* The statements of recommendation_repo.
AllWatched(u) == {catalog[v].category : v \in {w \in OwnedBy(u) : HasWatched(u, w)}} \ {NoCategory}

\* LIMIT without an order: any of them, up to so many.
WatchedCategories(u) ==
  {cats \in SUBSET AllWatched(u) : Cardinality(cats) = Min({CategoryLimit, Cardinality(AllWatched(u))})}
Unwatched(u) == {v \in Local(OwnedBy(u)) : ~HasWatched(u, v)}
PreferredVideos(u, cats) == MostViewed({v \in Unwatched(u) : catalog[v].category \in cats})

\* A mutant: the rest may hold what was chosen before.
FillAll(u, cats, preferred) ==
  MostViewed({v \in Unwatched(u) : catalog[v].category \notin cats \cup {NoCategory}})

\* A category of NULL is in no list and out of none, so such videos do not fill.
FillVideos(u, cats, preferred) ==
  MostViewed({v \in Unwatched(u) : /\ catalog[v].category \notin cats \cup {NoCategory}
                                   /\ v \notin Of(preferred)})

TrendingOf(u) == {v \in Local(OwnedBy(u)) : catalog[v].score > 0}
TrendingVideos(u) == OrdersBy(TrendingOf(u), [v \in Rows |-> catalog[v].score])
TrendingCount(u) == Cardinality(TrendingOf(u))
RecentCount(u) == Cardinality(Local(OwnedBy(u)))
RecentVideos(u) == OrdersBy(Local(OwnedBy(u)), [v \in Rows |-> v])
SimilarVideos(u, id, category) ==
  OrdersBy({v \in OwnedBy(u) \ {id} : category \in {NoCategory, catalog[v].category}}, [v \in Rows |-> catalog[v].views])

-----------------------------------------------------------------------------
\* PageParams::offset_limit, and the clamp of the service on top of it.
SizeOf(ask) == Min({Max({ask.size, 1}), MaxSize})
OffsetOf(ask) == (ask.page - 1) * SizeOf(ask)
LimitOf(ask) == Min({CASE ask.kind = "foryou" -> FeedLimit [] ask.kind = "similar" -> ListLimit
                       [] OTHER -> SizeOf(ask), MaxLimit})

Paged == {"trending", "recent"}
Cached == Paged \cup {"similar"}
PageKey(ask) == <<ask.kind, ask.user, OffsetOf(ask), SizeOf(ask)>>
SimilarKey(ask) == <<ask.kind, ask.user, ask.video>>
KeyOf(ask) == IF ask.kind \in Paged THEN PageKey(ask) ELSE SimilarKey(ask)

Ask(r) == seek[r].ask
Finding(r, at) == seek[r].at = at
Answered(r) == seek[r].at \in {"found", "failed"}
Go(r, at) == seek' = [seek EXCEPT ![r].at = at]
GoWith(r, at, rows) == seek' = [seek EXCEPT ![r].at = at, ![r].rows = rows]

FirstStep(ask) == CASE ask.kind \in Cached -> "lookup" [] ask.kind = "foryou" -> "categories" [] OTHER -> ask.kind

DiscoveryInit ==
  /\ catalog \in Catalogs
  /\ history \in Watched
  /\ \E asks \in Searches :
       seek = [r \in Seekers |-> [at |-> FirstStep(asks[r]), ask |-> asks[r], rows |-> <<>>, cats |-> {},
                                  total |-> 0, lock |-> NoLock]]
  /\ pages = [k \in {KeyOf(Ask(r)) : r \in Seekers} |-> NoPage]
  /\ locks = [k \in DOMAIN pages |-> NoLock]
  /\ loads = [k \in DOMAIN pages |-> 0]
  /\ suggested = {}
  /\ zhparser \in BOOLEAN
  /\ probed = Unprobed
  /\ cursor = 0
  /\ rounds \in {0, MaxRounds}
  /\ edits \in 0..MaxEdits
  /\ due = Outdated

-----------------------------------------------------------------------------
\* get_cached_recommendations: the cache, the lock of the key, the cache again,
\* and then the loader.
Lookup(r) ==
  /\ Finding(r, "lookup")
  /\ LET page == pages[KeyOf(Ask(r))] IN IF page = NoPage THEN Go(r, "lock") ELSE GoWith(r, "found", page.rows)
  /\ UNCHANGED <<feedRows, pages, locks, suggested, probed, jobVars, loads>>

\* The lock table gives the lock of the key or makes one; who has a lock keeps it
\* though its entry goes.
InflightLock(r) ==
  /\ Finding(r, "lock")
  /\ LET key == KeyOf(Ask(r))
         free == 1..Cardinality(Seekers) \ {seek[s].lock : s \in Seekers}
         lock == IF locks[key] = NoLock THEN Min(free) ELSE locks[key]
     IN /\ locks' = [locks EXCEPT ![key] = lock]
        /\ seek' = [seek EXCEPT ![r].at = "wait", ![r].lock = lock]
  /\ UNCHANGED <<feedRows, pages, suggested, probed, jobVars, loads>>

Inside == {"again", "count", "category", "page", "insert"}
KeyFree(r) == \A s \in Seekers \ {r} : ~(seek[s].at \in Inside /\ seek[s].lock = seek[r].lock)

AcquireLock(r) ==
  /\ Finding(r, "wait")
  /\ KeyFree(r)
  /\ Go(r, "again")
  /\ UNCHANGED <<feedRows, pages, locks, suggested, probed, jobVars, loads>>

\* A mutant: the loader runs without a second look at the cache.
LoadAnyway(r) == NoPage

CachedNow(r) == pages[KeyOf(Ask(r))]

LookupAgain(r) ==
  /\ Finding(r, "again")
  /\ IF CachedNow(r) = NoPage
     THEN /\ Go(r, IF Ask(r).kind = "similar" THEN "category" ELSE "count")
          /\ loads' = IF locks[KeyOf(Ask(r))] = seek[r].lock THEN [loads EXCEPT ![KeyOf(Ask(r))] = @ + 1] ELSE loads
     ELSE GoWith(r, "found", CachedNow(r).rows) /\ UNCHANGED loads
  /\ UNCHANGED <<feedRows, pages, locks, suggested, probed, jobVars>>

\* trending_count and recent_count, a statement before the page.
CountVideos(r) ==
  /\ Finding(r, "count")
  /\ seek' = [seek EXCEPT ![r].at = "page",
                ![r].total = IF Ask(r).kind = "recent" THEN RecentCount(Ask(r).user) ELSE TrendingCount(Ask(r).user)]
  /\ UNCHANGED <<feedRows, pages, locks, suggested, probed, jobVars, loads>>

\* video_category, of whoever's video; without the video there is no answer.
VideoCategory(r) ==
  /\ Finding(r, "category")
  /\ IF Ask(r).video \notin Rows THEN Go(r, "failed") /\ loads' = [loads EXCEPT ![KeyOf(Ask(r))] = 0]
     ELSE /\ seek' = [seek EXCEPT ![r].at = "page", ![r].cats = {catalog[Ask(r).video].category}]
          /\ UNCHANGED loads
  /\ UNCHANGED <<feedRows, pages, locks, suggested, probed, jobVars>>

Page(r, orders, offset, then) ==
  /\ Finding(r, "page")
  /\ \E s \in orders : GoWith(r, then, PageOf(s, offset, LimitOf(Ask(r))))
  /\ UNCHANGED <<feedRows, pages, locks, suggested, probed, jobVars, loads>>

\* The rows of a page, of what is trending also where a personal feed falls back to it.
TrendingPage(r) ==
  \/ Ask(r).kind = "trending" /\ Page(r, TrendingVideos(Ask(r).user), OffsetOf(Ask(r)), "insert")
  \/ Ask(r).kind = "foryou" /\ Page(r, TrendingVideos(Ask(r).user), 0, "found")

RecentPage(r) ==
  /\ Ask(r).kind = "recent"
  /\ Page(r, RecentVideos(Ask(r).user), OffsetOf(Ask(r)), "insert")

SimilarPage(r) ==
  /\ Ask(r).kind = "similar"
  /\ \E category \in seek[r].cats : Page(r, SimilarVideos(Ask(r).user, Ask(r).video, category), 0, "insert")

InsertPage(r) ==
  /\ Finding(r, "insert")
  /\ pages' = [pages EXCEPT ![KeyOf(Ask(r))] = [rows |-> seek[r].rows, total |-> seek[r].total]]
  /\ Go(r, "found")
  /\ UNCHANGED <<feedRows, locks, suggested, probed, jobVars, loads>>

-----------------------------------------------------------------------------
\* get_recommendations: the categories watched, what is new in them, and then the
\* rest; without either, what is trending, which has scores of its own.
ReadCategories(r) ==
  /\ Finding(r, "categories")
  /\ \E cats \in WatchedCategories(Ask(r).user) :
       seek' = [seek EXCEPT ![r].cats = cats, ![r].at = IF cats = {} THEN "count" ELSE "preferred"]
  /\ UNCHANGED <<feedRows, pages, locks, suggested, probed, jobVars, loads>>

ReadPreferred(r) ==
  /\ Finding(r, "preferred")
  /\ \E s \in PreferredVideos(Ask(r).user, seek[r].cats) :
       LET rows == PageOf(s, 0, LimitOf(Ask(r)))
       IN IF rows = <<>> THEN seek' = [seek EXCEPT ![r].at = "count", ![r].cats = {}]
          ELSE GoWith(r, IF Len(rows) < LimitOf(Ask(r)) THEN "fill" ELSE "found", rows)
  /\ UNCHANGED <<feedRows, pages, locks, suggested, probed, jobVars, loads>>

ReadFill(r) ==
  /\ Finding(r, "fill")
  /\ LET preferred == seek[r].rows
     IN \E s \in FillVideos(Ask(r).user, seek[r].cats, preferred) :
          GoWith(r, "found", preferred \o PageOf(s, 0, LimitOf(Ask(r)) - Len(preferred)))
  /\ UNCHANGED <<feedRows, pages, locks, suggested, probed, jobVars, loads>>

\* The score that goes with a row of a personal feed.
FeedScore(r, row) == IF row.category \in seek[r].cats THEN 2 ELSE 1

-----------------------------------------------------------------------------
\* Who searches: an administrator in all videos, others in their own.
Searchable(ask) == IF ask.admin THEN Rows ELSE OwnedBy(ask.user)
Matching(ask, ways) == {v \in Searchable(ask) : catalog[v].matches \cap ways # {}}

SearchSimple(ask) == Matching(ask, {"token"})
SearchTrigram(ask) == Matching(ask, {"substring"})
SearchChinese(ask) == Matching(ask, {"word", "substring"})
SuggestTitles(ask) == Matching(ask, {"token", "prefix"})

\* full_text_search by the letters of the query and by what the database can do.
FullTextSearch(ask, native) == IF ask.query = "blank" THEN {}
                               ELSE IF ask.query = "ascii" THEN SearchSimple(ask)
                               ELSE IF native THEN SearchChinese(ask) ELSE SearchTrigram(ask)

\* chinese_fulltext_enabled: a probe that fails is not remembered.
ProbeParser(r) ==
  /\ Finding(r, "search")
  /\ Ask(r).query = "cjk"
  /\ probed = Unprobed
  /\ \/ probed' = zhparser /\ UNCHANGED seek
     \/ Go(r, "fallback") /\ UNCHANGED probed
  /\ UNCHANGED <<feedRows, pages, locks, suggested, jobVars, loads>>

\* The page of the hits, with their number in every row of it: past the last page
\* there is no row to tell it.
SearchVideos(r) ==
  /\ \/ Finding(r, "search") /\ (Ask(r).query = "cjk" => probed # Unprobed)
     \/ Finding(r, "fallback")
  /\ LET hits == FullTextSearch(Ask(r), Finding(r, "search") /\ probed = TRUE)
     IN \E s \in SetToSeqs(hits) :
          LET rows == PageOf(s, OffsetOf(Ask(r)), SizeOf(Ask(r)))
          IN seek' = [seek EXCEPT ![r].at = "found", ![r].rows = rows, ![r].total = IF rows = <<>> THEN 0 ELSE Cardinality(hits)]
  /\ UNCHANGED <<feedRows, pages, locks, suggested, probed, jobVars, loads>>

\* search_suggest: titles by token or prefix, kept for a minute by owner and query.
SuggestKey(ask) == <<IF ask.admin THEN "all" ELSE ask.user, ask.query>>
SearchSuggest(r) ==
  /\ Finding(r, "suggest")
  /\ LET kept == {e \in suggested : e.key = SuggestKey(Ask(r))}
     IN IF Ask(r).query = "blank" THEN GoWith(r, "found", <<>>)
        ELSE IF kept # {} THEN \E e \in kept : GoWith(r, "found", e.rows)
        ELSE \E s \in SetToSeqs(SuggestTitles(Ask(r))) : GoWith(r, "remember", PageOf(s, 0, ListLimit))
  /\ UNCHANGED <<feedRows, pages, locks, suggested, probed, jobVars, loads>>

RememberSuggested(r) ==
  /\ Finding(r, "remember")
  /\ suggested' = {e \in suggested : e.key # SuggestKey(Ask(r))} \cup {[key |-> SuggestKey(Ask(r)), rows |-> seek[r].rows]}
  /\ Go(r, "found")
  /\ UNCHANGED <<feedRows, pages, locks, probed, jobVars, loads>>

\* A statement fails, or the client goes away: the lock is free again, and the next
\* one loads.
GiveUp(r) ==
  /\ ~Answered(r)
  /\ Go(r, "failed")
  /\ loads' = IF Ask(r).kind \in Cached /\ seek[r].at \in Inside \ {"again"}
              THEN [loads EXCEPT ![KeyOf(Ask(r))] = 0] ELSE loads
  /\ UNCHANGED <<feedRows, pages, locks, suggested, probed, jobVars>>

-----------------------------------------------------------------------------
\* recompute_trending_scores: the next rows by id that anyone viewed, and when
\* there are none left the round is over.
NextBatch == {v \in Rows : /\ catalog[v].views > 0 /\ v > cursor
                           /\ Cardinality({w \in Rows : catalog[w].views > 0 /\ cursor < w /\ w < v}) < BatchSize}

\* A mutant: the next batch starts one too far.
SkipNext(batch) == Max(batch) + 1

LastId(batch) == Max(batch)

RecomputeBatch ==
  /\ rounds < MaxRounds
  /\ NextBatch # {}
  /\ catalog' = [v \in VideoIds |-> IF v \in NextBatch THEN [catalog[v] EXCEPT !.score = Score(catalog[v].views, catalog[v].old)]
                               ELSE catalog[v]]
  /\ cursor' = LastId(NextBatch)
  /\ UNCHANGED <<history, zhparser, edits, seek, pages, locks, suggested, probed, rounds, due, loads>>

\* The round ends, also where a batch fails, and the next begins from the first id.
EndRound ==
  /\ rounds < MaxRounds
  /\ cursor' = 0
  /\ rounds' = rounds + 1
  /\ due' = Outdated
  /\ UNCHANGED <<feedRows, seek, pages, locks, suggested, probed, loads>>

-----------------------------------------------------------------------------
\* What goes on around the requests, one change at a time.
Meanwhile ==
  /\ edits < MaxEdits
  /\ edits' = edits + 1
  /\ UNCHANGED <<zhparser, seek, pages, locks, suggested, probed, jobVars, loads>>
Change(v, row) == catalog' = [catalog EXCEPT ![v] = row]

\* increment_views, and the trigger that computes the score with it.
View(v) ==
  /\ Meanwhile
  /\ v \in Rows
  /\ Change(v, [catalog[v] EXCEPT !.views = @ + 1, !.score = Score(catalog[v].views + 1, catalog[v].old)])
  /\ UNCHANGED history

Watch(u, v) ==
  /\ Meanwhile
  /\ v \in OwnedBy(u)
  /\ history' = history \cup {<<u, v>>}
  /\ UNCHANGED catalog

\* update_video and batch_update_category.
Recategorize(v, c) ==
  /\ Meanwhile
  /\ v \in Rows
  /\ c # catalog[v].category
  /\ Change(v, [catalog[v] EXCEPT !.category = c])
  /\ UNCHANGED history

Upload(v) ==
  /\ Meanwhile
  /\ catalog[v] = NoRow
  /\ \A w \in VideoIds : w > v => catalog[w] = NoRow
  /\ Change(v, Uploaded)
  /\ UNCHANGED history

\* Its history goes with it.
Delete(v) ==
  /\ Meanwhile
  /\ v \in Rows
  /\ Change(v, Gone)
  /\ history' = {h \in history : h[2] # v}

\* Time makes its score too high.
GrowOld(v) ==
  /\ Meanwhile
  /\ v \in Rows
  /\ ~catalog[v].old
  /\ Change(v, [catalog[v] EXCEPT !.old = TRUE])
  /\ UNCHANGED history

\* Entries run out or are evicted, and invalidate_caches empties all pages.
DropPages(keys) ==
  /\ \E k \in keys : pages[k] # NoPage
  /\ pages' = [k \in DOMAIN pages |-> IF k \in keys THEN NoPage ELSE pages[k]]
  /\ loads' = [k \in DOMAIN loads |-> IF k \in keys THEN 0 ELSE loads[k]]
  /\ UNCHANGED <<feedRows, seek, locks, suggested, probed, jobVars>>

LockExpires(key) ==
  /\ locks[key] # NoLock
  /\ locks' = [locks EXCEPT ![key] = NoLock]
  /\ loads' = [loads EXCEPT ![key] = 0]
  /\ UNCHANGED <<feedRows, seek, pages, suggested, probed, jobVars>>

SuggestionsExpire ==
  /\ suggested # {}
  /\ suggested' = {}
  /\ UNCHANGED <<feedRows, seek, pages, locks, probed, jobVars, loads>>

Answering(r) ==
  \/ Lookup(r) \/ InflightLock(r) \/ AcquireLock(r) \/ LookupAgain(r)
  \/ CountVideos(r) \/ VideoCategory(r) \/ TrendingPage(r) \/ RecentPage(r) \/ SimilarPage(r) \/ InsertPage(r)
  \/ ReadCategories(r) \/ ReadPreferred(r) \/ ReadFill(r)
  \/ ProbeParser(r) \/ SearchVideos(r) \/ SearchSuggest(r) \/ RememberSuggested(r)
  \/ GiveUp(r)

DiscoveryNext ==
  \/ \E r \in Seekers : Answering(r)
  \/ RecomputeBatch \/ EndRound
  \/ \E v \in VideoIds : View(v) \/ Upload(v) \/ Delete(v) \/ GrowOld(v) \/ \E c \in Categories : Recategorize(v, c)
  \/ \E r \in Seekers, v \in VideoIds : Watch(Ask(r).user, v)
  \/ \E keys \in {DOMAIN pages} \cup {{k} : k \in DOMAIN pages} : DropPages(keys)
  \/ \E key \in DOMAIN locks : LockExpires(key)
  \/ SuggestionsExpire

DiscoverySpec == DiscoveryInit /\ [][DiscoveryNext]_discoveryVars

-----------------------------------------------------------------------------
\* A personal feed read by several statements, with edits between them, holds no
\* video twice and no more than its limit, and what the user prefers stands before
\* the rest; and no page, search or suggestion, kept or not, holds a video of
\* someone else, but an administrator's.
FeedRight == \A r \in Seekers : Finding(r, "found") =>
  LET rows == seek[r].rows
  IN /\ Len(rows) <= IF Ask(r).kind \in Paged \cup {"foryou", "similar"} THEN LimitOf(Ask(r)) ELSE MaxSize
     /\ \A i, j \in DOMAIN rows : i < j =>
          /\ rows[i].id # rows[j].id
          /\ Ask(r).kind = "foryou" => FeedScore(r, rows[i]) >= FeedScore(r, rows[j])
     /\ \A v \in Of(rows) \cap Rows : Ask(r).admin \/ catalog[v].owner = Ask(r).user

\* Requests that miss the same page at once load it once: again only after it ran
\* out or was dropped, a load failed or the entry of the lock expired.
Coalesced == \A k \in DOMAIN loads : loads[k] <= 1

\* When a round has no batch left, every video whose score was out of date when
\* it began has the score of its age, unless nobody ever viewed it: those keep the
\* score of a new video.
ScoresDecay == NextBatch = {} => \A v \in due \cap Rows : catalog[v].views > 0 => v \notin Outdated
=============================================================================
