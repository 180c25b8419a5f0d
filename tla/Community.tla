------------------------------ MODULE Community ------------------------------
(***************************************************************************)
(* What users attach to videos: likes and favourites, comments, flying     *)
(* comments, tags, playlists and share links, next to everything that      *)
(* VideoLibrary does to the videos themselves.  Names, texts and the       *)
(* visibility of playlists decide nothing here and are left out.           *)
(***************************************************************************)
EXTENDS VideoLibrary

VARIABLE
  shuffled     \* history: playlists put in an order that named other videos than theirs

libraryVars == <<videos, storage, disk, seq, variants, progress, marks, comments, tagged, spoiled, items,
                 shares, danmaku, tasks, sessions, throttled, watched, usage, lists, detail, listed, late,
                 doubled, taken, raced, burned, scene, req>>
vars == <<libraryVars, shuffled>>

\* What the steps below leave alone, whatever they do.
library == <<videos, storage, disk, variants, progress, tasks, sessions, throttled, watched, detail, listed,
             late, doubled, taken, raced, burned, scene>>
others == <<marks, comments, spoiled, danmaku>>

-----------------------------------------------------------------------------
(***************************************************************************)
(* The requests, as they arrive.                                           *)
(***************************************************************************)
Guarded(r, op, step, q) == \E u \in scene.users, v \in Asked :
  Call(r, op, [q EXCEPT !.user = u, !.video = v, !.next = step, !.at = IF u \in Admins THEN step ELSE "owns"])

KnownTags == {t \in Tags : usage[t].there}
KnownComments == {c \in Comments : c < seq.comment}
KnownLists == {l \in Playlists : l < seq.list}

ToggleLike(r) == Watcher(r, "like", Step("mark"))
ToggleFavorite(r) == Watcher(r, "favorite", Step("mark"))
CreateComment(r) == \E c \in {0} \cup KnownComments : Guarded(r, "comment", "resolve", [Idle EXCEPT !.parent = c])
DeleteComment(r) == \E u \in scene.users, c \in KnownComments :
  Call(r, "uncomment", [Step("uncomment") EXCEPT !.user = u, !.parent = c])
CreateDanmaku(r) == Watcher(r, "danmaku", Step("findrow"))
CreateTag(r) == \E t \in Tags : Call(r, "newtag", [Step("newtag") EXCEPT !.tags = {t}])
DeleteTag(r) == \E t \in Tags : Call(r, "deltag", [Step("findtag") EXCEPT !.tags = {t}])
AddTags(r) == \E T \in (SUBSET Tags) \ {{}} : Guarded(r, "tag", "findtags", [Idle EXCEPT !.tags = T])
RemoveTags(r) == \E T \in (SUBSET Tags) \ {{}} : Guarded(r, "untag", "untag", [Idle EXCEPT !.tags = T])
CreatePlaylist(r) == \E u \in scene.users : Call(r, "newlist", [Step("newlist") EXCEPT !.user = u])
OnList(r, op, q) == \E u \in scene.users, l \in KnownLists :
  Call(r, op, [q EXCEPT !.at = "ownlist", !.user = u, !.list = l])
DeletePlaylist(r) == OnList(r, "dellist", Idle)
BatchAddVideos(r) == \E V \in (SUBSET Asked) \ {{}} : \E s \in SetToSeqs(V) :
  OnList(r, "additem", [Idle EXCEPT !.order = s])
RemoveVideoFromPlaylist(r) == \E v \in Asked : OnList(r, "removeitem", [Idle EXCEPT !.ids = {v}])
ReorderPlaylist(r) == \E V \in SUBSET Asked : \E s \in SetToSeqs(V) :
  OnList(r, "reorder", [Idle EXCEPT !.order = s])
CreateShareLink(r) == Watcher(r, "share", Step("ownership"))
DeleteShareLink(r) == \E s \in Shares : Watcher(r, "unshare", [Step("unshare") EXCEPT !.parent = s])
RevokeMyShare(r) == \E s \in Shares, u \in scene.users :
  Call(r, "revoke", [Step("unshare") EXCEPT !.user = u, !.parent = s])

Engage(r) ==
  /\ Free(r)
  /\ \/ ToggleLike(r) \/ ToggleFavorite(r) \/ CreateComment(r) \/ DeleteComment(r) \/ CreateDanmaku(r)
     \/ CreateTag(r) \/ DeleteTag(r) \/ AddTags(r) \/ RemoveTags(r)
     \/ CreatePlaylist(r) \/ DeletePlaylist(r) \/ BatchAddVideos(r) \/ RemoveVideoFromPlaylist(r)
     \/ ReorderPlaylist(r) \/ CreateShareLink(r) \/ DeleteShareLink(r) \/ RevokeMyShare(r)

\* check_video_ownership of the comments and of the tags, which spares administrators.
Owns(r) ==
  /\ At(r, "owns")
  /\ IF \E row \in FindById(req[r].video) : row.owner = req[r].user
     THEN Move(r, req[r].next) ELSE Done(r)
  /\ Quiet /\ UNCHANGED shuffled

-----------------------------------------------------------------------------
\* Likes, favourites, comments.

\* One transaction under an advisory lock on the user and the video; the foreign
\* key, or the check before it, refuses a video that is not there.
ToggleMark(m) == marks' = IF m \in marks THEN marks \ {m} ELSE marks \cup {m}

MarkStep(r) ==
  /\ At(r, "mark")
  /\ IF req[r].video \in Existing
     THEN ToggleMark([kind |-> req[r].op, user |-> req[r].user, video |-> req[r].video])
     ELSE UNCHANGED marks
  /\ Done(r)
  /\ UNCHANGED <<library, seq, comments, tagged, spoiled, items, shares, danmaku, usage, lists, shuffled>>

Roots(v) == {c \in Comments : comments[c].video = v /\ comments[c].parent = 0}
Replies(c) == {d \in Comments : comments[d] # NoComment /\ comments[d].parent = c}

MaxReplyDepth == 10

\* A mutant: a reply hangs on the comment it answers.
RootOfAnswered(c) == 0

\* get_comment_meta: the comment that the comment is a reply to, or 0.
RootOf(c) == comments[c].parent

\* resolve_parent_comment, one comment at a time up to the root.
Resolve(r) ==
  /\ At(r, "resolve")
  /\ LET c == req[r].parent
         v == req[r].video
     IN IF c = 0 THEN IF v \in Existing THEN Move(r, "comment") ELSE Done(r)
        ELSE IF comments[c] = NoComment \/ comments[c].video # v THEN Done(r)
        ELSE IF RootOf(c) = 0 THEN Move(r, "comment")
        ELSE IF req[r].last + 1 >= MaxReplyDepth THEN Done(r)
        ELSE Go(r, [req[r] EXCEPT !.parent = RootOf(c), !.last = req[r].last + 1])
  /\ Quiet /\ UNCHANGED shuffled

\* The foreign keys refuse a video or a comment that has gone meanwhile.
CommentStep(r) ==
  /\ At(r, "comment")
  /\ LET c == req[r].parent
         refused == req[r].video \notin Existing \/ (c # 0 /\ comments[c] = NoComment)
     IN IF refused \/ seq.comment \notin Comments THEN UNCHANGED <<comments, seq>>
        ELSE /\ comments' = [comments EXCEPT ![seq.comment] =
                  [video |-> req[r].video, user |-> req[r].user, parent |-> c]]
             /\ seq' = [seq EXCEPT !.comment = @ + 1]
  /\ Done(r)
  /\ UNCHANGED <<library, marks, tagged, spoiled, items, shares, danmaku, usage, lists, shuffled>>

\* Its replies go with it.
UncommentStep(r) ==
  /\ At(r, "uncomment")
  /\ LET c == req[r].parent
         may == comments[c] # NoComment /\ (req[r].user \in Admins \/ comments[c].user = req[r].user)
     IN comments' = IF ~may THEN comments
                    ELSE [d \in Comments |-> IF d \in {c} \cup Replies(c)
                                             THEN NoComment ELSE comments[d]]
  /\ Done(r)
  /\ UNCHANGED <<library, seq, marks, tagged, spoiled, items, shares, danmaku, usage, lists, shuffled>>

FindRow(r) ==
  /\ At(r, "findrow")
  /\ IF FindById(req[r].video) = {} THEN Done(r) ELSE Move(r, "fly")
  /\ Quiet /\ UNCHANGED shuffled

DanmakuStep(r) ==
  /\ At(r, "fly")
  /\ danmaku' = IF req[r].video \in Existing THEN [danmaku EXCEPT ![req[r].video] = @ + 1] ELSE danmaku
  /\ Done(r)
  /\ UNCHANGED <<library, seq, marks, comments, tagged, spoiled, items, shares, usage, lists, shuffled>>

-----------------------------------------------------------------------------
\* Tags.

\* The name is unique: of two that create a tag, one does.
NewTag(r) ==
  /\ At(r, "newtag")
  /\ usage' = [t \in Tags |-> IF t \in req[r].tags /\ ~usage[t].there THEN [there |-> TRUE, count |-> 0]
                              ELSE usage[t]]
  /\ spoiled' = spoiled \ {t \in req[r].tags : ~usage[t].there}
  /\ Done(r)
  /\ UNCHANGED <<library, seq, marks, comments, tagged, items, shares, danmaku, lists, shuffled>>

\* find_tag_by_id and find_tags_by_ids, before a tag is deleted or put on a video.
FindTags(r) ==
  /\ req[r].at \in {"findtag", "findtags"}
  /\ IF req[r].tags \subseteq KnownTags
     THEN Move(r, IF At(r, "findtag") THEN "deltag" ELSE "tag") ELSE Done(r)
  /\ Quiet /\ UNCHANGED shuffled

DelTag(r) ==
  /\ At(r, "deltag")
  /\ usage' = [t \in Tags |-> IF t \in req[r].tags THEN [there |-> FALSE, count |-> 0] ELSE usage[t]]
  /\ tagged' = {p \in tagged : p[2] \notin req[r].tags}
  /\ Done(r)
  /\ UNCHANGED <<library, others, seq, items, shares, lists, shuffled>>

Add(T) == [t \in Tags |-> IF t \in T THEN [usage[t] EXCEPT !.count = @ + 1] ELSE usage[t]]
Sub(T) == [t \in Tags |-> IF t \in T THEN [usage[t] EXCEPT !.count = Less(@, 1)] ELSE usage[t]]
TagsOf(v) == {t \in Tags : <<v, t>> \in tagged}

\* A mutant: every tag that was asked for is counted.
NewOnAll(v, T) == T

\* ON CONFLICT DO NOTHING RETURNING: the tags that the video did not have yet.
NewOn(v, T) == T \ TagsOf(v)

AddTagsStep(r) ==
  /\ At(r, "tag")
  /\ LET v == req[r].video
         T == req[r].tags
     IN IF v \notin Existing \/ ~(T \subseteq KnownTags) THEN UNCHANGED <<tagged, usage>>
        ELSE /\ tagged' = tagged \cup ({v} \X T)
             /\ usage' = Add(NewOn(v, T))
  /\ Done(r)
  /\ UNCHANGED <<library, others, seq, items, shares, lists, shuffled>>

RemoveTagsStep(r) ==
  /\ At(r, "untag")
  /\ LET v == req[r].video
         T == req[r].tags \cap TagsOf(v)
     IN tagged' = tagged \ ({v} \X T) /\ usage' = Sub(T)
  /\ Done(r)
  /\ UNCHANGED <<library, others, seq, items, shares, lists, shuffled>>

-----------------------------------------------------------------------------
\* Playlists; what changes the items of one takes the same advisory lock.

NewList(r) ==
  /\ At(r, "newlist")
  /\ IF seq.list \notin Playlists THEN UNCHANGED <<lists, seq>>
     ELSE /\ lists' = [lists EXCEPT ![seq.list] = req[r].user]
          /\ seq' = [seq EXCEPT !.list = @ + 1]
  /\ Done(r)
  /\ UNCHANGED <<library, others, tagged, usage, items, shares, shuffled>>

\* verify_ownership; there is no exception for administrators.
OwnList(r) ==
  /\ At(r, "ownlist")
  /\ IF lists[req[r].list] # req[r].user THEN Done(r)
     ELSE Move(r, IF req[r].op = "reorder" THEN "current" ELSE req[r].op)
  /\ Quiet /\ UNCHANGED shuffled

DelList(r) ==
  /\ At(r, "dellist")
  /\ lists' = [lists EXCEPT ![req[r].list] = 0]
  /\ items' = [items EXCEPT ![req[r].list] = <<>>]
  /\ Done(r)
  /\ UNCHANGED <<library, others, seq, tagged, usage, shares, shuffled>>

\* A mutant: the position after the last one is the number of the items.
NextPositionByCount(l) == Cardinality(DOMAIN items[l])

NextPosition(l) == IF DOMAIN items[l] = {} THEN 0
                   ELSE 1 + Max({items[l][v] : v \in DOMAIN items[l]})

WithItem(l, v) == [w \in DOMAIN items[l] \cup {v} |-> IF w = v THEN NextPosition(l) ELSE items[l][w]]

\* One video of a batch after the other, in the order of the request; a video that is
\* not there ends the batch.
AddItem(r) ==
  /\ At(r, "additem")
  /\ LET l == req[r].list
         v == Head(req[r].order)
         rest == Tail(req[r].order)
         refused == v \notin Existing \/ lists[l] = 0
     IN /\ items' = IF refused \/ v \in DOMAIN items[l] THEN items
                    ELSE [items EXCEPT ![l] = WithItem(l, v)]
        /\ IF refused \/ rest = <<>> THEN Done(r) ELSE Go(r, [To(r, "ownlist") EXCEPT !.order = rest])
  /\ UNCHANGED <<library, others, seq, tagged, usage, lists, shares, shuffled>>

\* ROW_NUMBER() OVER (ORDER BY position, added_at): equal positions either way.
Rankings(positions) ==
  LET V == DOMAIN positions
  IN {f \in [V -> 0..Cardinality(V)] :
        /\ \A v \in V : f[v] < Cardinality(V)
        /\ \A v, w \in V : v # w => f[v] # f[w] /\ (positions[v] < positions[w] => f[v] < f[w])}

RemoveItem(r) ==
  /\ At(r, "removeitem")
  /\ LET l == req[r].list
         left == [v \in DOMAIN items[l] \ req[r].ids |-> items[l][v]]
     IN IF left = items[l] THEN UNCHANGED items
        ELSE \E f \in Rankings(left) : items' = [items EXCEPT ![l] = f]
  /\ Done(r)
  /\ UNCHANGED <<library, others, seq, tagged, usage, lists, shares, shuffled>>

\* reorder_playlist compares the order with the items before it takes the lock.
Current(r) ==
  /\ At(r, "current")
  /\ IF ToSet(req[r].order) = DOMAIN items[req[r].list] /\ Len(req[r].order) > 0
     THEN Move(r, "reorder") ELSE Done(r)
  /\ Quiet /\ UNCHANGED shuffled

Placed(l, order) ==
  [v \in DOMAIN items[l] |-> IF v \in ToSet(order) THEN (CHOOSE i \in 1..Len(order) : order[i] = v) - 1
                             ELSE items[l][v]]

ReorderVideos(r) ==
  /\ At(r, "reorder")
  /\ LET l == req[r].list
     IN /\ items' = [items EXCEPT ![l] = Placed(l, req[r].order)]
        /\ shuffled' = IF DOMAIN items[l] = ToSet(req[r].order) THEN shuffled ELSE shuffled \cup {l}
  /\ Done(r)
  /\ UNCHANGED <<library, others, seq, tagged, usage, lists, shares>>

-----------------------------------------------------------------------------
\* Share links.

Ownership(r) ==
  /\ At(r, "ownership")
  /\ IF \E row \in FindById(req[r].video) : OwnerOrAdmin(req[r].user, row)
     THEN Move(r, "share") ELSE Done(r)
  /\ Quiet /\ UNCHANGED shuffled

\* INSERT ... SELECT FROM videos.
ShareStep(r) ==
  /\ At(r, "share")
  /\ IF req[r].video \notin Existing \/ seq.share \notin Shares THEN UNCHANGED <<shares, seq>>
     ELSE /\ shares' = [shares EXCEPT ![seq.share] = [video |-> req[r].video, user |-> req[r].user]]
          /\ seq' = [seq EXCEPT !.share = @ + 1]
  /\ Done(r)
  /\ UNCHANGED <<library, others, tagged, usage, lists, items, shuffled>>

UnshareStep(r) ==
  /\ At(r, "unshare")
  /\ LET s == req[r].parent
         u == req[r].user
         may == /\ shares[s] # NoShare
                /\ IF req[r].op = "revoke" THEN shares[s].user = u
                   ELSE shares[s].video = req[r].video /\ (u \in Admins \/ shares[s].user = u)
     IN shares' = IF may THEN [shares EXCEPT ![s] = NoShare] ELSE shares
  /\ Done(r)
  /\ UNCHANGED <<library, others, seq, tagged, usage, lists, items, shuffled>>

\* cleanup_expired
CleanupShares ==
  /\ Upset({})
  /\ \E s \in Shares : shares[s] # NoShare /\ shares' = [shares EXCEPT ![s] = NoShare]
  /\ UNCHANGED <<videos, storage, disk, seq, variants, progress, marks, comments, tagged, spoiled, items,
                 danmaku, world, caches, history, req, shuffled>>

Contribute(r) ==
  \/ Owns(r) \/ MarkStep(r) \/ Resolve(r) \/ CommentStep(r) \/ UncommentStep(r) \/ FindRow(r) \/ DanmakuStep(r)
  \/ NewTag(r) \/ FindTags(r) \/ DelTag(r) \/ AddTagsStep(r) \/ RemoveTagsStep(r)
  \/ NewList(r) \/ OwnList(r) \/ DelList(r) \/ AddItem(r) \/ RemoveItem(r) \/ Current(r) \/ ReorderVideos(r)
  \/ Ownership(r) \/ ShareStep(r) \/ UnshareStep(r)

-----------------------------------------------------------------------------
FileSet == {f \in [kind : Kinds \cup {"none"}, n : Nat, content : Contents \cup {None}] :
              f.kind = "media" => f.content \in Contents}
Rows == [id : Videos, owner : Users \cup {0}, source : {"local_video", "local_image", "external"},
         file : FileSet, hash : Contents \cup {None}, cover : FileSet, thumb : FileSet, length : Nat,
         exif : BOOLEAN, edited : Nat, views : Nat]
CommentRows == [video : Videos, user : Users, parent : Comments \cup {0}]
ReportSet == [at : Nat, of : Nat, none : BOOLEAN]

IdAssumption ==
  /\ IsFiniteSet(Videos) /\ Videos = 1..Cardinality(Videos)
  /\ 0 \notin Users /\ Admins \subseteq Users
  /\ \A I \in {Comments, Playlists, Shares} : I \subseteq Nat \ {0}
  /\ SizeOf \in [Contents -> Nat] /\ Quota \in Nat /\ Seconds \in Nat
  /\ Reports \subseteq {p \in ReportSet : ~p.none}

\* What a scenario may start with: the ids and the numbers of files that were given
\* are below the next ones, every user is charged the bytes of the videos, and every
\* uploaded video has a file of its own, which is there; no other uploads are.
LibraryStart(s) ==
  LET there == {v \in Videos : s.videos[v] # NoVideo}
      local == {v \in there : IsLocal(s.videos[v])}
  IN /\ s.videos \in [Videos -> Rows \cup {NoVideo}]
     /\ s.seq \in [video : Nat \ {0}, file : Nat, comment : Nat, list : Nat, share : Nat]
     /\ 1..(s.seq.video - 1) \subseteq Videos
     /\ \A v \in there : s.videos[v].id = v /\ v < s.seq.video
     /\ s.storage = [u \in Users |-> Cardinality(BytesIn(s.videos, Videos, u))]
     /\ s.disk \subseteq FileSet /\ IsFiniteSet(s.disk)
     /\ \A v \in there : \A f \in FilesOf(s.videos[v]) :
          (f.kind = "media" /\ f.n < s.seq.file) \/ f \in {CoverOf(v), ThumbOf(v)}
     /\ \A v \in local : s.videos[v].file.kind = "media" /\ s.videos[v].file \in s.disk
     /\ \A v \in there, w \in local : s.videos[w].file \in FilesOf(s.videos[v]) => v = w
     /\ \A f \in s.disk :
          /\ f.kind \in Kinds
          /\ f.kind \in {"cover", "thumb", "variant"} => f.n < s.seq.video
          /\ f.kind \in {"newcover", "tmpcover"} => f.n < s.seq.file
          /\ f.kind = "media" => \E v \in there : s.videos[v].file = f
     /\ s.variants \subseteq Videos
     /\ s.progress \in [Users -> [Videos -> ReportSet]]
     /\ \A u \in Users, v \in Videos : s.progress[u][v].none => s.progress[u][v] = NoReport
     /\ s.users \subseteq Users /\ s.contents \subseteq Contents
     /\ s.calls \in Nat /\ s.upsets \in Nat

\* Comments are roots or replies to roots of the same video, tags are counted, and
\* the positions of a playlist differ.
CommunityStart(s) ==
  /\ s.comments \in [Comments -> CommentRows \cup {NoComment}]
  /\ \A c \in Comments : s.comments[c] # NoComment =>
       /\ c < s.seq.comment
       /\ LET p == s.comments[c].parent
          IN p # 0 => s.comments[p].video = s.comments[c].video /\ s.comments[p].parent = 0
  /\ s.usage \in [Tags -> [there : BOOLEAN, count : Nat]] /\ s.tagged \subseteq Videos \X Tags
  /\ \A t \in Tags :
       LET links == {v \in Videos : <<v, t>> \in s.tagged}
       IN IF s.usage[t].there THEN s.usage[t].count = Cardinality(links) ELSE links = {}
  /\ s.lists \in [Playlists -> Users \cup {0}] /\ DOMAIN s.items = Playlists
  /\ \A l \in Playlists :
       /\ DOMAIN s.items[l] \subseteq Videos /\ s.items[l] \in [DOMAIN s.items[l] -> Nat]
       /\ \A v, w \in DOMAIN s.items[l] : v # w => s.items[l][v] # s.items[l][w]

ASSUME LibraryAssumption ==
  IdAssumption /\ \A s \in Scenarios : LibraryStart(s) /\ CommunityStart(s)

\* Bound: the scenario, the calls and the upsets of a behaviour.
Init ==
  /\ \E s \in Scenarios :
       /\ videos = s.videos /\ storage = s.storage /\ variants = s.variants /\ disk = s.disk
       /\ progress = s.progress /\ comments = s.comments /\ usage = s.usage /\ tagged = s.tagged
       /\ lists = s.lists /\ items = s.items /\ seq = s.seq
       /\ scene = [menu |-> s.menu, users |-> s.users, asked |-> s.asked, contents |-> s.contents,
                   calls |-> s.calls, upsets |-> s.upsets, left |-> {}]
  /\ marks = {} /\ shares = [s \in Shares |-> NoShare] /\ danmaku = [v \in Videos |-> 0]
  /\ spoiled = {} /\ tasks = {} /\ sessions = {} /\ throttled = {}
  /\ watched = {p \in Users \X Videos : IsWatchComplete(progress[p[1]][p[2]])}
  /\ detail = [v \in Videos |-> NoVideo] /\ listed = [u \in Users \cup {0} |-> NoList]
  /\ late = {} /\ doubled = {} /\ taken = {} /\ raced = {} /\ burned = {} /\ shuffled = {}
  /\ req = [r \in Requests |-> Idle]

Next ==
  \/ LibraryNext /\ UNCHANGED shuffled
  \/ \E r \in Requests : Engage(r) /\ UNCHANGED shuffled
  \/ \E r \in Requests : Contribute(r)
  \/ CleanupShares

Spec == Init /\ [][Next]_vars

-----------------------------------------------------------------------------
\* Types of the tables, of the directory and of what is in memory.
TypeOK ==
  /\ videos \in [Videos -> Rows \cup {NoVideo}] /\ storage \in [Users -> Nat]
  /\ variants \subseteq Videos /\ disk \subseteq FileSet
  /\ progress \in [Users -> [Videos -> ReportSet]]
  /\ marks \subseteq [kind : {"like", "favorite"}, user : Users, video : Videos]
  /\ comments \in [Comments -> CommentRows \cup {NoComment}]
  /\ usage \in [Tags -> [there : BOOLEAN, count : Nat]] /\ tagged \subseteq Videos \X Tags
  /\ lists \in [Playlists -> Users \cup {0}]
  /\ \A l \in Playlists : items[l] \in [DOMAIN items[l] -> Nat] /\ DOMAIN items[l] \subseteq Videos
  /\ shares \in [Shares -> [video : Videos, user : Users] \cup {NoShare}] /\ danmaku \in [Videos -> Nat]
  /\ sessions \cup throttled \cup watched \subseteq Users \X Videos
  /\ detail \in [Videos -> Rows \cup {NoVideo}] /\ DOMAIN listed = Users \cup {0}

\* Comments have two levels, as the page shows them: a reply hangs on a comment on the
\* same video that is there and is no reply itself, though the walk to the root and
\* the insertion are separate statements, and deletions come in between.
TwoLevels == \A c \in Comments : comments[c] # NoComment /\ comments[c].parent # 0 =>
  comments[c].parent \in Roots(comments[c].video)

\* No two videos of a playlist have one position, through additions, removals and
\* deletions of videos, unless its items changed between the check of a new order
\* and its writing.
DistinctPositions == \A l \in Playlists \ shuffled :
  \A v, w \in DOMAIN items[l] : v # w => items[l][v] # items[l][w]

\* The count kept with a tag is the number of videos that have it; only the
\* deletion of a video makes it larger, as that takes the links and leaves the count.
UsageCounted == \A t \in KnownTags :
  LET links == Cardinality({v \in Videos : <<v, t>> \in tagged})
  IN usage[t].count >= links /\ (t \notin spoiled => usage[t].count = links)

\* What viewers add to videos stays in order: comments, playlists and tags.
CommunityRight == TwoLevels /\ DistinctPositions /\ UsageCounted
=============================================================================
