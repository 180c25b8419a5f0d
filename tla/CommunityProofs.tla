--------------------------- MODULE CommunityProofs ---------------------------
(***************************************************************************)
(* What TLAPS proves of Community, what viewers attach to videos, for      *)
(* every number of comments, tags, playlists and share links.              *)
(*                                                                         *)
(* CommunityInv joins, to what LibraryProofs keeps of the library (Base    *)
(* and CacheInv), what holds of each kind of attachment:                   *)
(*   CommentsInv  comments have two levels, and a request on its way to    *)
(*                answer one has climbed from the comment it names towards *)
(*                the root of its thread, on the same video;               *)
(*   TagsInv      the count of a tag is the number of videos with it, or   *)
(*                more once a deletion took such a video;                  *)
(*   ListsInv     the items of a playlist have positions of their own;     *)
(*   Signs, Pairs likes, favourites, danmaku, shares and who watches what  *)
(*                have their types.                                        *)
(***************************************************************************)
EXTENDS LibraryProofs

\* What viewers attached changes by their own steps, by the deletion of a video, and
\* when share links expire.
LEMMA AttachedBy ==
  ASSUME [Next]_vars
  PROVE  \/ (UNCHANGED remarks /\ UNCHANGED shuffled)
         \/ \E r \in Requests : CommitDelete(r) /\ UNCHANGED shuffled
         \/ \E r \in Requests : Contribute(r)
         \/ CleanupShares /\ UNCHANGED <<marks, comments, tagged, spoiled,
                                         items, danmaku, usage, lists, shuffled>>
<1>1. CASE UNCHANGED vars BY <1>1 DEF vars, libraryVars, remarks
<1>2. CASE CleanupShares BY <1>2 DEF CleanupShares, world
<1>3. ASSUME NEW r \in Requests, Arrive(r) \/ Engage(r), UNCHANGED shuffled
      PROVE  UNCHANGED remarks /\ UNCHANGED shuffled
  BY <1>3, CallApart
<1>4. ASSUME NEW r \in Requests, Serve(r), UNCHANGED shuffled
      PROVE  UNCHANGED shuffled /\ (UNCHANGED remarks \/ CommitDelete(r))
  BY <1>4, ServeApart
<1>5. CASE (RunTask \/ TimePasses \/ LoseFile \/ RestoreFile) /\ UNCHANGED shuffled BY <1>5, UpsetsApart
<1> QED BY <1>1, <1>2, <1>3, <1>4, <1>5 DEF Next, LibraryNext

\* Which of their steps changes which table.
LEMMA ContributeTables ==
  ASSUME NEW r \in Requests, Contribute(r)
  PROVE  /\ UNCHANGED marks \/ MarkStep(r)
         /\ UNCHANGED comments \/ CommentStep(r) \/ UncommentStep(r)
         /\ UNCHANGED danmaku \/ DanmakuStep(r)
         /\ UNCHANGED shares \/ ShareStep(r) \/ UnshareStep(r)
         /\ UNCHANGED <<usage, tagged, spoiled>>
              \/ NewTag(r) \/ DelTag(r) \/ AddTagsStep(r) \/ RemoveTagsStep(r)
         /\ \/ UNCHANGED <<lists, items, shuffled>>
            \/ NewList(r) \/ DelList(r) \/ AddItem(r) \/ RemoveItem(r) \/ ReorderVideos(r)
<1>1. CASE Quiet /\ UNCHANGED shuffled BY <1>1 DEF Quiet, attached, world
<1>2. CASE ~(Quiet /\ UNCHANGED shuffled)
  <2>1. CASE MarkStep(r) BY <2>1 DEF MarkStep
  <2>2. CASE CommentStep(r) \/ UncommentStep(r) BY <2>2 DEF CommentStep, UncommentStep
  <2>3. CASE DanmakuStep(r) BY <2>3 DEF DanmakuStep
  <2>4. CASE ShareStep(r) \/ UnshareStep(r) BY <2>4 DEF ShareStep, UnshareStep, others
  <2>5. CASE NewTag(r) BY <2>5 DEF NewTag
  <2>6. CASE DelTag(r) \/ AddTagsStep(r) \/ RemoveTagsStep(r)
    BY <2>6 DEF DelTag, AddTagsStep, RemoveTagsStep, others
  <2>7. CASE NewList(r) \/ DelList(r) \/ AddItem(r) \/ RemoveItem(r) \/ ReorderVideos(r)
    BY <2>7 DEF NewList, DelList, AddItem, RemoveItem, ReorderVideos, others
  <2> QED BY <1>2, <2>1, <2>2, <2>3, <2>4, <2>5, <2>6, <2>7
      DEF Contribute, Owns, Resolve, FindRow, FindTags, OwnList, Current, Ownership
<1> QED BY <1>1, <1>2

\* What the deletion of videos leaves of it.
LEMMA DeletionTables ==
  ASSUME NEW r \in Requests, CommitDelete(r)
  PROVE  Cascade(req[r].ids) /\ UNCHANGED <<usage, lists>>
BY DEF CommitDelete, DeleteRows, world

-----------------------------------------------------------------------------
\* Marks, flying comments and share links.
ShareSet == [video : Videos, user : Users]
\* What a user left on a video and who shares it have their types.
Signs ==
  /\ marks \subseteq [kind : {"like", "favorite"}, user : Users, video : Videos]
  /\ danmaku \in [Videos -> Nat]
  /\ shares \in [Shares -> ShareSet \cup {NoShare}]

\* The steps keep them.
LEMMA SignsKept ==
  ASSUME Base, Signs, [Next]_vars
  PROVE  Signs'
<1>0. RequestsOK /\ Store BY DEF Base
<1>1. ASSUME UNCHANGED <<marks, danmaku, shares>> PROVE Signs' BY <1>1 DEF Signs
<1>2. ASSUME NEW r \in Requests, CommitDelete(r) PROVE Signs'
  <2> DEFINE V == req[r].ids
  <2>1. marks' \subseteq marks BY <1>2, DeletionTables DEF Cascade
  <2>2. danmaku' \in [Videos -> Nat] BY <1>2, DeletionTables DEF Cascade, Signs
  <2>3. shares' \in [Shares -> ShareSet \cup {NoShare}] BY <1>2, DeletionTables DEF Cascade, Signs
  <2> QED BY <2>1, <2>2, <2>3 DEF Signs
<1>3. CASE CleanupShares
  <2>1. UNCHANGED <<marks, danmaku>> BY <1>3 DEF CleanupShares
  <2>2. shares' \in [Shares -> ShareSet \cup {NoShare}] BY <1>3 DEF CleanupShares, Signs
  <2> QED BY <2>1, <2>2 DEF Signs
<1>4. ASSUME NEW r \in Requests, Contribute(r) PROVE Signs'
  <2>1. marks' \subseteq [kind : {"like", "favorite"}, user : Users, video : Videos]
    <3>1. CASE UNCHANGED marks BY <3>1 DEF Signs
    <3>2. CASE MarkStep(r)
      <4>1. req[r].op \in {"like", "favorite"} BY <1>0, <3>2, RequestOK DEF MarkStep, At, Paths
      <4>2. req[r].user \in Users BY <1>0, <4>1, RequestOK DEF Fits
      <4> DEFINE m == [kind |-> req[r].op, user |-> req[r].user, video |-> req[r].video]
      <4>3. marks' \subseteq marks \/ (req[r].video \in Videos /\ marks' = marks \cup {m})
        BY <3>2 DEF MarkStep, ToggleMark, Existing
      <4> QED BY <4>1, <4>2, <4>3 DEF Signs
    <3> QED BY <1>4, <3>1, <3>2, ContributeTables
  <2>2. danmaku' \in [Videos -> Nat]
    <3>1. CASE UNCHANGED danmaku BY <3>1 DEF Signs
    <3>2. CASE DanmakuStep(r)
      <4>1. danmaku' = danmaku \/ danmaku' = [danmaku EXCEPT ![req[r].video] = @ + 1] BY <3>2 DEF DanmakuStep
      <4> QED BY <4>1 DEF Signs
    <3> QED BY <1>4, <3>1, <3>2, ContributeTables
  <2>3. shares' \in [Shares -> ShareSet \cup {NoShare}]
    <3>1. CASE UNCHANGED shares BY <3>1 DEF Signs
    <3>2. CASE ShareStep(r)
      <4>1. req[r].op = "share" BY <1>0, <3>2, RequestOK DEF ShareStep, At, Paths
      <4>2. req[r].user \in Users BY <1>0, <4>1, RequestOK DEF Fits
      <4> DEFINE s == [video |-> req[r].video, user |-> req[r].user]
      <4>3. UNCHANGED shares \/ (req[r].video \in Videos /\ shares' = [shares EXCEPT ![seq.share] = s])
        BY <3>2 DEF ShareStep, Existing
      <4>4. req[r].video \in Videos => s \in ShareSet BY <4>2 DEF ShareSet
      <4> HIDE DEF s
      <4> QED BY <4>3, <4>4 DEF Signs
    <3>3. CASE UnshareStep(r)
      <4>1. shares' = shares \/ shares' = [shares EXCEPT ![req[r].parent] = NoShare] BY <3>3 DEF UnshareStep
      <4> QED BY <4>1 DEF Signs
    <3> QED BY <1>4, <3>1, <3>2, <3>3, ContributeTables
  <2> QED BY <2>1, <2>2, <2>3 DEF Signs
<1> QED BY <1>1, <1>2, <1>3, <1>4, AttachedBy DEF remarks

-----------------------------------------------------------------------------
\* Comments: a reply hangs on a comment of the same video that is no reply, and the
\* parent that a request has found is one, if it is still there.
Root(c, v) == comments[c] = NoComment \/ (comments[c].video = v /\ comments[c].parent = 0)
Asks(q) == q.op = "comment" =>
  /\ q.parent # 0 => q.parent < seq.comment
  /\ q.at = "comment" /\ q.parent # 0 => Root(q.parent, q.video)

RowsOfComments == \A c \in Comments : comments[c] # NoComment =>
  /\ c < seq.comment
  /\ LET p == comments[c].parent
     IN p # 0 => comments[p].video = comments[c].video /\ comments[p].parent = 0

\* Both are needed together: a comment is put where a request asks for it.
CommentsInv == RowsOfComments /\ \A r \in Requests : Asks(req[r])

\* The number of a comment is never 0, which stands for no parent.
LEMMA CommentIds == Comments \subseteq Nat \ {0}
BY LibraryAssumption DEF IdAssumption

\* So a reply hangs on a root of its video.
LEMMA LevelsAreTwo == ASSUME Remarks, RowsOfComments PROVE TwoLevels
<1> SUFFICES ASSUME NEW c \in Comments, comments[c] # NoComment, comments[c].parent # 0
             PROVE  comments[c].parent \in Roots(comments[c].video)
  BY DEF TwoLevels
<1>1. comments[c].parent \in Comments BY DEF Remarks, CommentRows
<1> QED BY <1>1 DEF RowsOfComments, Roots

\* What a step leaves of the comments of a video: they are there as they were, or
\* gone, and a new one has a new number.
CommentsStay ==
  /\ seq.comment =< seq'.comment
  /\ \A c \in Comments : c < seq.comment => comments'[c] \in {comments[c], NoComment}

\* Of the steps of the library, none gives a number to a comment.
LEMMA ServeCommentSeq ==
  ASSUME Store, NEW r \in Requests, Serve(r)
  PROVE  seq'.comment = seq.comment
<1>0. seq \in SeqSet BY DEF Store
<1>1. CASE UNCHANGED seq BY <1>1
<1>2. CASE ~UNCHANGED seq
  <2>1. RenameStep(r) \/ SaveStep(r) \/ ExternalStep(r) \/ TmpCover(r) \/ Adopt(r)
    BY <1>2 DEF Serve, Refresh, InvalidateFirst, DetailStep, GetRow, Fill, ListStep, FillList, HashStep,
       Quiet,
       Saved, SaveFails, Discard, ThumbnailStep, FfmpegStep, CoverUrl, ScaleCover, ThumbUrl, CoversStep,
       NextCover, PlaceCover, NewCover, NoExifStep, ReadExif, UrlsStep, ReadDir, DelRow, BeginDelete,
       CommitDelete, Unlink, Finish, ListMedia, CheckFiles, NextMissing, BurnRow, ProgressStep, BurnRecord,
       ListVariants, CheckReport, AtEnd, Upsert, ViewStep, EditStep, SessionStep, Drop
  <2>2. CASE RenameStep(r) \/ TmpCover(r) BY <1>0, <2>2 DEF RenameStep, TmpCover, SeqSet
  <2>3. CASE SaveStep(r) \/ ExternalStep(r) \/ Adopt(r)
    BY <1>0, <1>2, <2>3 DEF SaveStep, ExternalStep, Adopt, SaveLocalVideoWithQuota, SaveExternalVideo,
       BatchSaveLocalVideos, SeqSet
  <2> QED BY <2>1, <2>2, <2>3
<1> QED BY <1>1, <1>2

\* The deletion of a comment removes rows and changes none.
LEMMA UncommentRows ==
  ASSUME NEW r \in Requests, UncommentStep(r)
  PROVE  \/ UNCHANGED comments
         \/ comments' = [d \in Comments |-> IF d \in {req[r].parent} \cup Replies(req[r].parent)
                                             THEN NoComment ELSE comments[d]]
BY DEF UncommentStep

\* The rows and numbers of comments after any step.
LEMMA CommentsChange ==
  ASSUME Base, [Next]_vars
  PROVE  \/ UNCHANGED comments /\ seq'.comment = seq.comment
         \/ \E r \in Requests : CommentStep(r)
         \/ \E r \in Requests : UncommentStep(r) /\ seq'.comment = seq.comment
         \/ \E r \in Requests : CommitDelete(r) /\ seq'.comment = seq.comment
<1>0. Store /\ seq \in SeqSet BY DEF Base, Store
<1>1. CASE \E r \in Requests : CommitDelete(r) BY <1>1 DEF CommitDelete
<1>2. CASE \E r \in Requests : Serve(r) /\ ~CommitDelete(r)
  BY <1>0, <1>2, ServeApart, ServeCommentSeq DEF remarks
<1>3. CASE \E r \in Requests : Arrive(r) \/ Engage(r) BY <1>3, CallApart DEF remarks
<1>4. CASE RunTask \/ TimePasses \/ LoseFile \/ RestoreFile
  <2>1. UNCHANGED comments BY <1>4, UpsetsApart DEF remarks
  <2>2. UNCHANGED seq BY <1>4 DEF RunTask, TimePasses, LoseFile, RestoreFile
  <2> QED BY <2>1, <2>2
<1>5. CASE CleanupShares \/ UNCHANGED vars BY <1>5 DEF CleanupShares, vars, libraryVars
<1>6. ASSUME NEW r \in Requests, Contribute(r), ~CommentStep(r)
      PROVE  seq'.comment = seq.comment
  <2>1. CASE Quiet BY <2>1 DEF Quiet
  <2>2. CASE NewList(r)
    <3>1. UNCHANGED seq \/ seq' = [seq EXCEPT !.list = @ + 1] BY <2>2 DEF NewList
    <3> QED BY <1>0, <3>1 DEF SeqSet
  <2>3. CASE ShareStep(r)
    <3>1. UNCHANGED seq \/ seq' = [seq EXCEPT !.share = @ + 1] BY <2>3 DEF ShareStep
    <3> QED BY <1>0, <3>1 DEF SeqSet
  <2>4. CASE ~Quiet /\ ~NewList(r) /\ ~ShareStep(r)
    BY <1>6, <2>4 DEF Contribute, Owns, Resolve, FindRow, FindTags, OwnList, Current, Ownership, MarkStep,
       UncommentStep, DanmakuStep, NewTag, DelTag, AddTagsStep, RemoveTagsStep, DelList, AddItem, RemoveItem,
       ReorderVideos, UnshareStep
  <2> QED BY <2>1, <2>2, <2>3, <2>4
<1>7. ASSUME NEW r \in Requests, Contribute(r), ~CommentStep(r), ~UncommentStep(r)
      PROVE  UNCHANGED comments
  BY <1>7, ContributeTables
<1> QED BY <1>1, <1>2, <1>3, <1>4, <1>5, <1>6, <1>7 DEF Next, LibraryNext

\* The row of a new comment.
LEMMA CommentAdded ==
  ASSUME Base, CommentsInv, NEW r \in Requests, CommentStep(r)
  PROVE  \/ UNCHANGED <<comments, seq>>
         \/ /\ seq.comment \in Comments /\ seq'.comment = seq.comment + 1
            /\ \A c \in Comments : c # seq.comment => comments'[c] = comments[c]
            /\ comments'[seq.comment].video = req[r].video
            /\ comments'[seq.comment].parent = req[r].parent
            /\ req[r].parent # 0 => /\ req[r].parent \in Comments /\ req[r].parent < seq.comment
                                    /\ comments[req[r].parent].video = req[r].video
                                    /\ comments[req[r].parent].parent = 0
<1> DEFINE p == req[r].parent
           row == [video |-> req[r].video, user |-> req[r].user, parent |-> p]
<1>0. RequestsOK /\ Store /\ Remarks BY DEF Base
<1>1. req[r].op = "comment" /\ req[r].at = "comment" BY <1>0, RequestOK DEF CommentStep, At, Paths
<1>2. p \in Comments \cup {0} BY <1>0, <1>1, RequestOK DEF Fits
<1>3. \/ UNCHANGED <<comments, seq>>
      \/ /\ seq.comment \in Comments /\ ~(p # 0 /\ comments[p] = NoComment)
         /\ comments' = [comments EXCEPT ![seq.comment] = row]
         /\ seq' = [seq EXCEPT !.comment = @ + 1]
  BY DEF CommentStep
<1>4. p # 0 => p < seq.comment /\ Root(p, req[r].video) BY <1>1 DEF CommentsInv, Asks
<1>5. seq \in SeqSet BY <1>0 DEF Store
<1>6. comments \in [Comments -> CommentRows \cup {NoComment}] BY <1>0 DEF Remarks
<1>7. row.video = req[r].video /\ row.parent = p OBVIOUS
<1> HIDE DEF row, p
<1>8. seq' = [seq EXCEPT !.comment = @ + 1] => seq'.comment = seq.comment + 1 BY <1>5 DEF SeqSet
<1>9. comments' = [comments EXCEPT ![seq.comment] = row] /\ seq.comment \in Comments =>
        /\ \A c \in Comments : c # seq.comment => comments'[c] = comments[c]
        /\ comments'[seq.comment] = row
  BY <1>6
<1> QED BY <1>2, <1>3, <1>4, <1>7, <1>8, <1>9 DEF Root, p

\* Rows of comments keep their two levels at each step.
LEMMA RowsOfCommentsKept ==
  ASSUME Base, CommentsInv, [Next]_vars
  PROVE  CommentsStay /\ RowsOfComments'
<1>0. Store /\ Remarks /\ RowsOfComments /\ seq.comment \in Nat BY DEF Base, Store, CommentsInv, SeqSet
<1>1. CASE UNCHANGED comments /\ seq'.comment = seq.comment BY <1>0, <1>1 DEF CommentsStay, RowsOfComments
<1>2. ASSUME NEW r \in Requests, CommentStep(r) PROVE CommentsStay /\ RowsOfComments'
  <2>1. CASE UNCHANGED <<comments, seq>> BY <1>0, <2>1 DEF CommentsStay, RowsOfComments
  <2>2. CASE ~UNCHANGED <<comments, seq>>
    <3> DEFINE n == seq.comment
               p == req[r].parent
    <3>1. /\ n \in Comments /\ seq'.comment = n + 1
          /\ \A c \in Comments : c # n => comments'[c] = comments[c]
          /\ comments'[n].video = req[r].video /\ comments'[n].parent = p
          /\ p # 0 => p \in Comments /\ p < n /\ comments[p].video = req[r].video /\ comments[p].parent = 0
      BY <1>2, <2>2, CommentAdded
    <3>2. CommentsStay BY <1>0, <3>1, CommentIds DEF CommentsStay
    <3>3. ASSUME NEW c \in Comments, comments'[c] # NoComment
          PROVE  /\ c < n + 1
                 /\ LET q == comments'[c].parent
                    IN q # 0 => comments'[q].video = comments'[c].video /\ comments'[q].parent = 0
      <4>1. CASE c = n BY <1>0, <3>1, <4>1
      <4>2. CASE c # n
        <5> DEFINE q == comments[c].parent
        <5>1. comments'[c] = comments[c] BY <3>1, <4>2
        <5>2. c < n /\ (q # 0 => comments[q].video = comments[c].video /\ comments[q].parent = 0)
          BY <1>0, <3>3, <5>1 DEF RowsOfComments
        <5>3. comments[c] \in CommentRows BY <1>0, <3>3, <5>1 DEF Remarks
        <5>4. q # 0 => q \in Comments /\ comments[q] # NoComment
          <6>1. q \in Comments \cup {0} /\ comments[c].video \in Videos BY <5>3 DEF CommentRows
          <6> QED BY <5>2, <6>1, VideosAre DEF NoComment
        <5>5. q # 0 => q # n
          <6>1. n < n => FALSE BY <1>0
          <6> QED BY <1>0, <5>4, <6>1 DEF RowsOfComments
        <5>6. q # 0 => comments'[q] = comments[q] BY <3>1, <5>4, <5>5
        <5>7. c \in Nat BY CommentIds
        <5> HIDE DEF q
        <5>8. c < n + 1 BY <1>0, <5>2, <5>7
        <5>9. comments'[c].parent = q BY <5>1 DEF q
        <5> QED BY <5>1, <5>2, <5>6, <5>8, <5>9
      <4> QED BY <4>1, <4>2
    <3> QED BY <3>1, <3>2, <3>3 DEF RowsOfComments
  <2> QED BY <2>1, <2>2
\* The rows that go: with a comment its replies, with a video all of its comments.
<1>3. ASSUME NEW D, comments' = [c \in Comments |-> IF c \in D THEN NoComment ELSE comments[c]],
             seq'.comment = seq.comment,
             \A c \in Comments : /\ c \notin D /\ comments[c] # NoComment /\ comments[c].parent # 0
                                 => comments[c].parent \notin D
      PROVE  CommentsStay /\ RowsOfComments'
  <2>1. CommentsStay BY <1>0, <1>3 DEF CommentsStay
  <2>2. ASSUME NEW c \in Comments, comments'[c] # NoComment
        PROVE  /\ c < seq.comment
               /\ LET q == comments'[c].parent
                  IN q # 0 => comments'[q].video = comments'[c].video /\ comments'[q].parent = 0
    <3>1. c \notin D /\ comments'[c] = comments[c] BY <1>3, <2>2
    <3> DEFINE q == comments[c].parent
    <3>2. c < seq.comment /\ (q # 0 => comments[q].video = comments[c].video /\ comments[q].parent = 0)
      BY <1>0, <2>2, <3>1 DEF RowsOfComments
    <3>3. comments[c] \in CommentRows BY <1>0, <2>2, <3>1 DEF Remarks
    <3>4. q # 0 => q \in Comments /\ q \notin D BY <1>3, <2>2, <3>1, <3>3 DEF CommentRows
    <3> QED BY <1>3, <3>1, <3>2, <3>4
  <2> QED BY <1>3, <2>1, <2>2 DEF RowsOfComments
<1>4. ASSUME NEW r \in Requests, UncommentStep(r), seq'.comment = seq.comment, ~UNCHANGED comments
      PROVE  CommentsStay /\ RowsOfComments'
  <2> DEFINE p == req[r].parent
             D == {p} \cup Replies(p)
  <2>1. comments' = [c \in Comments |-> IF c \in D THEN NoComment ELSE comments[c]] BY <1>4, UncommentRows
  <2>2. ASSUME NEW c \in Comments, c \notin D, comments[c] # NoComment, comments[c].parent # 0
        PROVE  comments[c].parent \notin D
    <3>1. comments[c].parent # p BY <2>2 DEF Replies
    <3>2. ASSUME comments[c].parent \in Replies(p) PROVE FALSE
      <4>1. comments[comments[c].parent].parent = p /\ p = 0
        BY <1>0, <2>2, <3>2 DEF Replies, RowsOfComments
      <4>2. req[r].op = "uncomment" /\ p \in Comments
        <5>1. req[r].op = "uncomment" BY <1>4, RequestOK DEF Base, UncommentStep, At, Paths
        <5> QED BY <5>1, RequestOK DEF Base, Fits
      <4> QED BY <4>1, <4>2, CommentIds
    <3> QED BY <3>1, <3>2
  <2> HIDE DEF D
  <2> QED BY <1>3, <1>4, <2>1, <2>2
<1>5. ASSUME NEW r \in Requests, CommitDelete(r), seq'.comment = seq.comment
      PROVE  CommentsStay /\ RowsOfComments'
  <2> DEFINE D == {c \in Comments : comments[c].video \in req[r].ids}
  <2>1. comments' = [c \in Comments |-> IF comments[c].video \in req[r].ids THEN NoComment ELSE comments[c]]
    BY <1>5, DeletionTables DEF Cascade
  <2>2. comments' = [c \in Comments |-> IF c \in D THEN NoComment ELSE comments[c]] BY <2>1
  <2>3. ASSUME NEW c \in Comments, c \notin D, comments[c] # NoComment, comments[c].parent # 0
        PROVE  comments[c].parent \notin D
    BY <1>0, <2>3 DEF RowsOfComments
  <2> HIDE DEF D
  <2> QED BY <1>3, <1>5, <2>2, <2>3
<1> QED BY <1>1, <1>2, <1>4, <1>5, CommentsChange

\* A request asks for the same as before while no comment comes back.
LEMMA AsksStay ==
  ASSUME Base, Base', CommentsStay, NEW q \in RequestSet, Fits(q), Asks(q)
  PROVE  Asks(q)'
<1> SUFFICES ASSUME q.op = "comment", q.parent # 0
             PROVE  q.parent < seq'.comment /\ (q.at = "comment" => Root(q.parent, q.video)')
  BY DEF Asks
<1>1. seq.comment \in Nat /\ seq'.comment \in Nat BY DEF Base, Store, SeqSet
<1>2. q.parent \in Comments /\ q.parent \in Nat BY CommentIds DEF Fits
<1>3. q.parent < seq.comment /\ (q.at = "comment" => Root(q.parent, q.video)) BY DEF Asks
<1>4. q.parent < seq'.comment BY <1>1, <1>2, <1>3 DEF CommentsStay
<1>5. comments'[q.parent] \in {comments[q.parent], NoComment} BY <1>2, <1>3 DEF CommentsStay
<1> QED BY <1>3, <1>4, <1>5 DEF Root

\* Who comes to ask for a comment answers one that has its number.
LEMMA CallAsks ==
  ASSUME Base, Base', NEW r \in Requests, Arrive(r) \/ Engage(r)
  PROVE  req'[r].op = "comment" => req'[r].parent \in {0} \cup KnownComments
<1>0. RequestsOK /\ RequestsOK' BY DEF Base
<1> DEFINE Asked1 == req'[r].op = "comment" => req'[r].parent \in {0} \cup KnownComments
<1> SUFFICES Asked1 OBVIOUS
<1>1. ASSUME NEW op, NEW q, Call(r, op, q), op # "comment" PROVE Asked1 BY <1>0, <1>1, CallIs
<1>2. CASE CreateComment(r)
  <2>1. PICK c \in {0} \cup KnownComments : Guarded(r, "comment", "resolve", [Idle EXCEPT !.parent = c])
    BY <1>2 DEF CreateComment
  <2>2. PICK u \in scene.users, v \in Asked :
          Call(r, "comment", [[Idle EXCEPT !.parent = c] EXCEPT !.user = u, !.video = v, !.next = "resolve",
                                                              !.at = IF u \in Admins THEN "resolve" ELSE "owns"])
    BY <2>1 DEF Guarded
  <2> DEFINE q == [[Idle EXCEPT !.parent = c] EXCEPT !.user = u, !.video = v, !.next = "resolve",
                                                     !.at = IF u \in Admins THEN "resolve" ELSE "owns"]
  <2>3. q.parent = c BY DEF Idle
  <2>4. Call(r, "comment", q) BY <2>2
  <2> HIDE DEF q
  <2>5. req'[r].parent = c BY <1>0, <2>3, <2>4, CallIs
  <2> QED BY <2>5
<1> HIDE DEF Asked1
<1> DEFINE Apart == Operations \ {"comment"}
<1>4. \A op \in Apart : \A q : Call(r, op, q) => Asked1 BY <1>1
<1>5. \A op \in Apart : \A q : Watcher(r, op, q) => Asked1 BY <1>4 DEF Watcher
<1>6. \A op \in Apart : \A s, q : Guarded(r, op, s, q) => Asked1 BY <1>4 DEF Guarded
<1>7. \A op \in Apart : \A q : OnList(r, op, q) => Asked1 BY <1>4 DEF OnList
<1>8. CASE Arrive(r)
  BY <1>4, <1>5, <1>8 DEF Operations, Arrive, UploadVideo, AddExternalVideo, ScanMedia, DeleteVideo,
     DeleteVideos,
     UpdateVideo, BatchUpdateCategory, UploadCover, BackfillThumbnails, BackfillExif, SweepMissing,
     GetVideo, ListVideos, ViewVideo, BurnVideo, UpdatePlaybackHistory, StartSession, Heartbeat, StopSession
<1>9. CASE DeleteComment(r) \/ AddTags(r) \/ RemoveTags(r) \/ CreateTag(r) \/ DeleteTag(r)
  BY <1>4, <1>6, <1>9 DEF Operations, DeleteComment, AddTags, RemoveTags, CreateTag, DeleteTag
<1>10. CASE \/ ToggleLike(r) \/ ToggleFavorite(r) \/ CreateDanmaku(r) \/ CreateShareLink(r)
            \/ DeleteShareLink(r)
            \/ RevokeMyShare(r)
  BY <1>4, <1>5, <1>10 DEF Operations, ToggleLike, ToggleFavorite, CreateDanmaku, CreateShareLink,
     DeleteShareLink,
     RevokeMyShare
<1>11. CASE \/ CreatePlaylist(r) \/ DeletePlaylist(r) \/ BatchAddVideos(r) \/ RemoveVideoFromPlaylist(r)
            \/ ReorderPlaylist(r)
  BY <1>4, <1>7, <1>11 DEF Operations, CreatePlaylist, DeletePlaylist, BatchAddVideos,
     RemoveVideoFromPlaylist,
     ReorderPlaylist
<1> QED BY <1>2, <1>8, <1>9, <1>10, <1>11 DEF Engage

\* The walk to the root: one comment up, and it ends at one that is a reply to none.
LEMMA ResolveAsks ==
  ASSUME Base, CommentsInv, NEW r \in Requests, Resolve(r)
  PROVE  Asks(req[r])'
<1> DEFINE c == req[r].parent
           v == req[r].video
<1>0. RequestsOK /\ Store /\ Remarks /\ RowsOfComments /\ seq.comment \in Nat
  BY DEF Base, Store, SeqSet, CommentsInv
<1>1. req \in [Requests -> RequestSet] /\ req[r] \in RequestSet BY <1>0 DEF RequestsOK
<1>2. UNCHANGED <<comments, seq>> BY DEF Resolve, Quiet, attached
<1>3. req[r].op = "comment" /\ req[r].at = "resolve" BY <1>0, RequestOK DEF Resolve, At, Paths
<1>4. c \in Comments \cup {0} /\ (c # 0 => c < seq.comment)
  BY <1>0, <1>3, RequestOK DEF Fits, CommentsInv, Asks
<1>5. Done(r) => req'[r].op = "idle" BY <1>1 DEF Done, Go, Idle
<1>6. Move(r, "comment") => req'[r].at = "comment" /\ req'[r].parent = c /\ req'[r].video = v
  BY <1>1 DEF Move, Go, To, RequestSet
<1>7. ASSUME Go(r, [req[r] EXCEPT !.parent = RootOf(c), !.last = req[r].last + 1])
      PROVE  req'[r].at = "resolve" /\ req'[r].parent = RootOf(c)
  BY <1>1, <1>3, <1>7 DEF Go, RequestSet
<1>8. ASSUME c # 0, comments[c] # NoComment, RootOf(c) # 0
      PROVE  RootOf(c) < seq.comment
  <2>1. comments[c] \in CommentRows BY <1>0, <1>4, <1>8 DEF Remarks
  <2>2. /\ RootOf(c) \in Comments /\ comments[RootOf(c)].video = comments[c].video
        /\ comments[c].video \in Videos
    BY <1>0, <1>4, <1>8, <2>1 DEF RootOf, RowsOfComments, CommentRows
  <2>3. comments[RootOf(c)] # NoComment BY <2>2, VideosAre DEF NoComment
  <2> QED BY <1>0, <2>2, <2>3 DEF RowsOfComments
<1>9. \/ req'[r].op = "idle"
      \/ req'[r].at = "comment" /\ req'[r].parent = c /\ req'[r].video = v
         /\ (c # 0 => Root(c, v))
      \/ req'[r].at = "resolve" /\ (req'[r].parent # 0 => req'[r].parent < seq.comment)
  BY <1>5, <1>6, <1>7, <1>8 DEF Resolve, Root, RootOf
<1> HIDE DEF c, v
<1> QED BY <1>2, <1>4, <1>9 DEF Asks, Root

\* A request that is to answer a comment asks for one that may be answered, at each step.
LEMMA AsksKept ==
  ASSUME Base, Base', CommentsInv, CommentsStay, [Next]_vars
  PROVE  \A r \in Requests : Asks(req[r])'
<1>0. RequestsOK /\ RequestsOK' /\ Store /\ seq.comment \in Nat /\ seq'.comment \in Nat
  BY DEF Base, Store, SeqSet
<1>1. ASSUME NEW s \in Requests, req'[s] = req[s] PROVE Asks(req[s])'
  <2>1. PICK q \in RequestSet : q = req[s] BY <1>0 DEF RequestsOK
  <2>2. Fits(q) /\ Asks(q) BY <1>0, <2>1 DEF RequestsOK, CommentsInv
  <2>3. Asks(q)' BY <2>1, <2>2, AsksStay
  <2> QED BY <1>1, <2>1, <2>3 DEF Asks
<1>2. ASSUME NEW s \in Requests, req'[s].op # "comment" PROVE Asks(req[s])' BY <1>2 DEF Asks
<1>3. ASSUME NEW s \in Requests, req'[s].at # "comment", req'[s].parent = req[s].parent,
             req'[s].op = req[s].op
      PROVE  Asks(req[s])'
  <2>1. CASE req[s].op # "comment" BY <1>3, <2>1 DEF Asks
  <2>2. CASE req[s].op = "comment"
    <3>1. req[s].parent # 0 => req[s].parent < seq.comment BY <2>2 DEF CommentsInv, Asks
    <3>2. req[s].parent \in Comments \cup {0} BY <1>0, <2>2, RequestOK DEF Fits
    <3>3. req[s].parent # 0 => req[s].parent \in Nat BY <3>2, CommentIds
    <3>4. req[s].parent # 0 => req[s].parent < seq'.comment BY <1>0, <3>1, <3>3 DEF CommentsStay
    <3> QED BY <1>3, <3>4 DEF Asks
  <2> QED BY <2>1, <2>2
<1>4. ASSUME NEW r \in Requests, Serve(r) PROVE \A s \in Requests : Asks(req[s])'
  <2> SUFFICES ASSUME NEW s \in Requests PROVE Asks(req[s])' OBVIOUS
  <2>1. CASE s # r BY <1>0, <1>1, <1>4, <2>1, ServeMoves DEF Others
  <2>2. CASE s = r
    <3>1. req'[r].op = "idle" \/ (req'[r].op = req[r].op /\ req'[r].parent = req[r].parent
                                  /\ req'[r].at # "comment")
      BY <1>0, <1>4, ServeMoves
    <3> QED BY <1>2, <1>3, <2>2, <3>1
  <2> QED BY <2>1, <2>2
<1>5. ASSUME NEW r \in Requests, Arrive(r) \/ Engage(r) PROVE \A s \in Requests : Asks(req[s])'
  <2> SUFFICES ASSUME NEW s \in Requests PROVE Asks(req[s])' OBVIOUS
  <2>1. CASE s # r BY <1>1, <1>5, <2>1, ArriveMoves DEF Others
  <2>2. CASE s = r
    <3>1. req'[r].at # "comment" BY <1>5, ArriveFresh DEF Fresh, Starts
    <3>2. UNCHANGED seq BY <1>5, CallApart
    <3>3. req'[r].op = "comment" /\ req'[r].parent # 0 => req'[r].parent < seq.comment
      BY <1>5, CallAsks DEF KnownComments
    <3> QED BY <2>2, <3>1, <3>2, <3>3 DEF Asks
  <2> QED BY <2>1, <2>2
<1>6. ASSUME NEW r \in Requests, Contribute(r) PROVE \A s \in Requests : Asks(req[s])'
  <2> SUFFICES ASSUME NEW s \in Requests PROVE Asks(req[s])' OBVIOUS
  <2>0. (\A t \in Others(r) : req'[t] = req[t]) /\ req'[r].op \in {req[r].op, "idle"}
    BY <1>0, <1>6, ContributeMoves
  <2>1. CASE s # r BY <1>1, <2>0, <2>1 DEF Others
  <2>2. CASE s = r /\ req[r].op # "comment" BY <1>2, <2>0, <2>2
  <2>3. CASE s = r /\ req[r].op = "comment"
    <3>1. req[r].at \notin {"mark", "uncomment", "findrow", "fly", "newtag", "findtag", "deltag",
                            "findtags", "tag",
                            "untag", "newlist", "ownlist", "dellist", "additem", "removeitem", "current",
                            "reorder", "ownership", "share", "unshare"}
      BY <1>0, <2>3, RequestOK DEF Paths
    <3>2. Owns(r) \/ Resolve(r) \/ CommentStep(r)
      BY <1>6, <3>1 DEF Contribute, MarkStep, UncommentStep, FindRow, DanmakuStep, NewTag, FindTags, DelTag,
         AddTagsStep, RemoveTagsStep, NewList, OwnList, DelList, AddItem, RemoveItem, Current, ReorderVideos,
         Ownership, ShareStep, UnshareStep, At
    <3>3. req \in [Requests -> RequestSet] /\ req[r] \in RequestSet BY <1>0 DEF RequestsOK
    <3>4. Done(r) => req'[r].op = "idle" BY <3>3 DEF Done, Go, Idle
    <3>5. CASE Owns(r)
      <4>1. req[r].next = "resolve" BY <1>0, <2>3, <3>5, RequestOK DEF Owns, At, Paths
      <4>2. Move(r, "resolve") => req'[r].at = "resolve" /\ req'[r].parent = req[r].parent
        BY <3>3 DEF Move, Go, To, RequestSet
      <4>3. Done(r) \/ Move(r, "resolve") BY <3>5, <4>1 DEF Owns
      <4> QED BY <1>2, <1>3, <2>3, <3>4, <4>2, <4>3
    <3>6. CASE Resolve(r) BY <2>3, <3>6, ResolveAsks
    <3>7. CASE CommentStep(r) BY <1>2, <2>3, <3>4, <3>7 DEF CommentStep
    <3> QED BY <3>2, <3>5, <3>6, <3>7
  <2> QED BY <2>1, <2>2, <2>3
<1>7. CASE UNCHANGED req BY <1>1, <1>7
<1>8. CASE RunTask \/ TimePasses \/ LoseFile \/ RestoreFile BY <1>7, <1>8, UpsetsApart
<1>9. CASE CleanupShares \/ UNCHANGED vars BY <1>7, <1>9 DEF CleanupShares, vars, libraryVars
<1> QED BY <1>4, <1>5, <1>6, <1>8, <1>9 DEF Next, LibraryNext

\* Both together.
LEMMA CommentsKept ==
  ASSUME Base, Base', CommentsInv, [Next]_vars
  PROVE  CommentsInv'
<1>1. CommentsStay /\ RowsOfComments' BY RowsOfCommentsKept
<1>2. \A r \in Requests : Asks(req[r])' BY <1>1, AsksKept
<1> QED BY <1>1, <1>2 DEF CommentsInv

-----------------------------------------------------------------------------
\* Tags: the count of a tag that is there is the number of videos that have it, or
\* more since the deletion of one of them; a tag that is not there is on no video.
Links(t) == {v \in Videos : <<v, t>> \in tagged}
Counted(u, links, more) ==
  IF u.there THEN u.count >= Cardinality(links) /\ (~more => u.count = Cardinality(links)) ELSE links = {}
TagRows == [there : BOOLEAN, count : Nat]
TagsInv == /\ usage \in [Tags -> TagRows] /\ tagged \subseteq Videos \X Tags
           /\ \A t \in Tags : Counted(usage[t], Links(t), t \in spoiled)

\* What the invariant says of the counts is what the property asks.
LEMMA TagsAreCounted == ASSUME TagsInv PROVE UsageCounted
BY DEF TagsInv, UsageCounted, Counted, Links, KnownTags

\* A tag is on finitely many videos.
LEMMA LinksFinite ==
  ASSUME NEW t
  PROVE  /\ IsFiniteSet(Links(t)) /\ Cardinality(Links(t)) \in Nat
         /\ \A S : IsFiniteSet(Links(t) \ S) /\ Cardinality(Links(t) \ S) \in Nat
                   /\ Cardinality(Links(t) \ S) =< Cardinality(Links(t))
<1>1. IsFiniteSet(Links(t)) BY VideosAre, FS_Subset DEF Links
<1>2. Cardinality(Links(t)) \in Nat BY <1>1, FS_CardinalityType
<1>3. ASSUME NEW S PROVE IsFiniteSet(Links(t) \ S) /\ Cardinality(Links(t) \ S) \in Nat
                         /\ Cardinality(Links(t) \ S) =< Cardinality(Links(t))
  <2>1. Links(t) \ S \subseteq Links(t) OBVIOUS
  <2>2. IsFiniteSet(Links(t) \ S) /\ Cardinality(Links(t) \ S) =< Cardinality(Links(t))
    BY <1>1, <2>1, FS_Subset
  <2> QED BY <2>2, FS_CardinalityType
<1> QED BY <1>1, <1>2, <1>3

\* The deletion of videos takes their links and leaves the counts.
LEMMA TagsCascade ==
  ASSUME TagsInv, NEW V, UNCHANGED usage, tagged' = {p \in tagged : p[1] \notin V},
         spoiled' = spoiled \cup {p[2] : p \in {q \in tagged : q[1] \in V}}
  PROVE  TagsInv'
<1>1. tagged' \subseteq Videos \X Tags BY DEF TagsInv
<1>2. ASSUME NEW t \in Tags PROVE Counted(usage'[t], Links(t)', t \in spoiled')
  <2>1. Links(t)' = Links(t) \ V
    <3>1. ASSUME NEW v \in Videos PROVE <<v, t>> \in tagged' <=> <<v, t>> \in tagged /\ v \notin V OBVIOUS
    <3> QED BY <3>1 DEF Links
  <2>2. t \in spoiled => t \in spoiled' OBVIOUS
  <2>3. t \notin spoiled' => Links(t) \ V = Links(t)
    <3>1. ASSUME NEW v \in Links(t), v \in V PROVE t \in spoiled'
      <4>1. <<v, t>> \in {q \in tagged : q[1] \in V} BY <3>1 DEF Links
      <4>2. <<v, t>>[2] = t OBVIOUS
      <4> QED BY <4>1, <4>2
    <3> QED BY <3>1
  <2>4. usage[t] \in TagRows /\ Counted(usage[t], Links(t), t \in spoiled) BY DEF TagsInv
  <2>5. Links(t) = {} => Links(t) \ V = {} OBVIOUS
  <2>6. /\ Cardinality(Links(t) \ V) \in Nat /\ Cardinality(Links(t)) \in Nat
        /\ Cardinality(Links(t) \ V) =< Cardinality(Links(t))
    BY LinksFinite
  <2>7. usage[t].count \in Nat BY <2>4 DEF TagRows
  <2>8. Counted(usage[t], Links(t) \ V, t \in spoiled')
    <3>1. CASE ~usage[t].there BY <2>4, <2>5, <3>1 DEF Counted
    <3>2. CASE usage[t].there
      <4>1. /\ usage[t].count >= Cardinality(Links(t))
            /\ t \notin spoiled => usage[t].count = Cardinality(Links(t))
        BY <2>4, <3>2 DEF Counted
      <4>2. usage[t].count >= Cardinality(Links(t) \ V) BY <2>6, <2>7, <4>1
      <4>3. t \notin spoiled' => usage[t].count = Cardinality(Links(t) \ V) BY <2>2, <2>3, <4>1
      <4> QED BY <3>2, <4>2, <4>3 DEF Counted
    <3> QED BY <3>1, <3>2
  <2> QED BY <2>1, <2>8
<1> QED BY <1>1, <1>2 DEF TagsInv

\* A new tag counts none.
LEMMA TagsNew ==
  ASSUME TagsInv, NEW r \in Requests, NewTag(r)
  PROVE  TagsInv'
<1>0. UNCHANGED tagged BY DEF NewTag
<1>1. usage' = [t \in Tags |-> IF t \in req[r].tags /\ ~usage[t].there THEN [there |-> TRUE, count |-> 0]
                               ELSE usage[t]]
  BY DEF NewTag
<1>2. usage' \in [Tags -> TagRows] BY <1>1 DEF TagsInv, TagRows
<1>3. ASSUME NEW t \in Tags PROVE Counted(usage'[t], Links(t)', t \in spoiled')
  <2>1. Links(t)' = Links(t) BY <1>0 DEF Links
  <2>2. Counted(usage[t], Links(t), t \in spoiled) BY DEF TagsInv
  <2>3. CASE t \in req[r].tags /\ ~usage[t].there
    <3>1. Links(t) = {} BY <2>2, <2>3 DEF Counted
    <3>2. Cardinality(Links(t)) = 0 BY <3>1, FS_EmptySet
    <3>3. usage'[t] = [there |-> TRUE, count |-> 0] BY <1>1, <2>3
    <3> QED BY <2>1, <3>2, <3>3 DEF Counted
  <2>4. CASE ~(t \in req[r].tags /\ ~usage[t].there)
    <3>1. usage'[t] = usage[t] BY <1>1, <2>4
    <3>2. t \in spoiled' <=> t \in spoiled BY <2>4 DEF NewTag
    <3> QED BY <2>1, <2>2, <3>1, <3>2 DEF Counted
  <2> QED BY <2>3, <2>4
<1> QED BY <1>0, <1>2, <1>3 DEF TagsInv

\* A deleted tag is on no video.
LEMMA TagsDel ==
  ASSUME TagsInv, NEW r \in Requests, DelTag(r)
  PROVE  TagsInv'
<1>0. tagged' = {p \in tagged : p[2] \notin req[r].tags} /\ UNCHANGED spoiled BY DEF DelTag, others
<1>1. usage' = [t \in Tags |-> IF t \in req[r].tags THEN [there |-> FALSE, count |-> 0] ELSE usage[t]]
  BY DEF DelTag
<1>2. usage' \in [Tags -> TagRows] BY <1>1 DEF TagsInv, TagRows
<1>3. tagged' \subseteq Videos \X Tags BY <1>0 DEF TagsInv
<1>4. ASSUME NEW t \in Tags PROVE Counted(usage'[t], Links(t)', t \in spoiled')
  <2>1. ASSUME NEW v \in Videos PROVE <<v, t>> \in tagged' <=> <<v, t>> \in tagged /\ t \notin req[r].tags
    BY <1>0
  <2>2. Counted(usage[t], Links(t), t \in spoiled) BY DEF TagsInv
  <2>3. CASE t \in req[r].tags
    <3>1. Links(t)' = {} BY <2>1, <2>3 DEF Links
    <3>2. usage'[t] = [there |-> FALSE, count |-> 0] BY <1>1, <2>3
    <3> QED BY <3>1, <3>2 DEF Counted
  <2>4. CASE t \notin req[r].tags
    <3>1. Links(t)' = Links(t) BY <2>1, <2>4 DEF Links
    <3>2. usage'[t] = usage[t] BY <1>1, <2>4
    <3> QED BY <1>0, <2>2, <3>1, <3>2
  <2> QED BY <2>3, <2>4
<1> QED BY <1>2, <1>3, <1>4 DEF TagsInv

\* Tags that a video did not have are counted, the others are not.
LEMMA TagsAdd ==
  ASSUME RequestsOK, TagsInv, NEW r \in Requests, AddTagsStep(r)
  PROVE  TagsInv'
<1> DEFINE v == req[r].video
           T == req[r].tags
<1>0. UNCHANGED spoiled /\ T \subseteq Tags BY RequestOK DEF AddTagsStep, others, RequestSet
<1>1. CASE UNCHANGED <<tagged, usage>> BY <1>0, <1>1 DEF TagsInv, Links
<1>2. CASE ~UNCHANGED <<tagged, usage>>
  <2>1. v \in Videos /\ T \subseteq KnownTags /\ tagged' = tagged \cup ({v} \X T) /\ usage' = Add(NewOn(v, T))
    BY <1>2 DEF AddTagsStep, Existing
  <2>2. NewOn(v, T) \subseteq Tags /\ \A t \in Tags : t \in NewOn(v, T) <=> t \in T /\ <<v, t>> \notin tagged
    BY <1>0 DEF NewOn, TagsOf
  <2>3. T \subseteq Tags /\ \A t \in T : usage[t].there BY <2>1 DEF KnownTags
  <2>4. usage' \in [Tags -> TagRows]
    <3>1. \A t \in Tags : [usage[t] EXCEPT !.count = @ + 1] \in TagRows BY DEF TagsInv, TagRows
    <3> QED BY <2>1, <3>1 DEF Add, TagsInv
  <2> HIDE DEF v, T
  <2>5. tagged' \subseteq Videos \X Tags BY <2>1, <2>3 DEF TagsInv
  <2>6. ASSUME NEW t \in Tags PROVE Counted(usage'[t], Links(t)', t \in spoiled')
    <3>0. Counted(usage[t], Links(t), t \in spoiled) /\ usage[t] \in TagRows BY DEF TagsInv
    <3>1. ASSUME NEW w \in Videos PROVE <<w, t>> \in tagged' <=> <<w, t>> \in tagged \/ (w = v /\ t \in T)
      BY <2>1
    <3>2. CASE t \in NewOn(v, T)
      <4>1. Links(t)' = Links(t) \cup {v} BY <2>1, <2>2, <3>1, <3>2 DEF Links
      <4>2. v \notin Links(t) BY <2>2, <3>2 DEF Links
      <4>3. Cardinality(Links(t) \cup {v}) = Cardinality(Links(t)) + 1 BY <4>2, LinksFinite, FS_AddElement
      <4>4. usage'[t] = [usage[t] EXCEPT !.count = @ + 1] BY <2>1, <3>2 DEF Add
      <4>5. usage'[t].there = usage[t].there /\ usage'[t].count = usage[t].count + 1 BY <3>0, <4>4 DEF TagRows
      <4>6. usage[t].there BY <2>2, <2>3, <3>2
      <4>7. usage[t].count \in Nat /\ Cardinality(Links(t)) \in Nat BY <3>0, LinksFinite DEF TagRows
      <4> QED BY <1>0, <3>0, <4>1, <4>3, <4>5, <4>6, <4>7 DEF Counted
    <3>3. CASE t \notin NewOn(v, T)
      <4>1. Links(t)' = Links(t) BY <2>2, <3>1, <3>3 DEF Links
      <4>2. usage'[t] = usage[t] BY <2>1, <3>3 DEF Add
      <4> QED BY <1>0, <3>0, <4>1, <4>2
    <3> QED BY <3>2, <3>3
  <2> QED BY <2>4, <2>5, <2>6 DEF TagsInv
<1> QED BY <1>1, <1>2

\* Tags that a video had are discounted, the others are not.
LEMMA TagsRemove ==
  ASSUME RequestsOK, TagsInv, NEW r \in Requests, RemoveTagsStep(r)
  PROVE  TagsInv'
<1> DEFINE v == req[r].video
           T == req[r].tags \cap TagsOf(v)
<1>1. UNCHANGED spoiled /\ tagged' = tagged \ ({v} \X T) /\ usage' = Sub(T) BY DEF RemoveTagsStep, others
<1>2. T \subseteq Tags /\ \A t \in T : <<v, t>> \in tagged BY DEF TagsOf
<1> HIDE DEF v, T
<1>3. tagged' \subseteq Videos \X Tags BY <1>1 DEF TagsInv
<1>4. usage' \in [Tags -> TagRows]
  <2>1. \A t \in Tags : [usage[t] EXCEPT !.count = Less(@, 1)] \in TagRows BY DEF TagsInv, TagRows, Less
  <2> QED BY <1>1, <2>1 DEF Sub, TagsInv
<1>5. ASSUME NEW t \in Tags PROVE Counted(usage'[t], Links(t)', t \in spoiled')
  <2>0. Counted(usage[t], Links(t), t \in spoiled) /\ usage[t] \in TagRows BY DEF TagsInv
  <2>1. ASSUME NEW w \in Videos PROVE <<w, t>> \in tagged' <=> <<w, t>> \in tagged /\ ~(w = v /\ t \in T)
    BY <1>1
  <2>2. CASE t \in T
    <3>1. Links(t)' = Links(t) \ {v} BY <2>1, <2>2 DEF Links
    <3>2. v \in Links(t)
      <4>1. <<v, t>> \in Videos \X Tags BY <1>2, <2>2 DEF TagsInv
      <4> QED BY <1>2, <2>2, <4>1 DEF Links
    <3>3. /\ Cardinality(Links(t) \ {v}) = Cardinality(Links(t)) - 1
          /\ Cardinality(Links(t)) \in Nat /\ Cardinality(Links(t) \ {v}) \in Nat
      BY <3>2, LinksFinite, FS_RemoveElement
    <3>4. usage'[t] = [usage[t] EXCEPT !.count = Less(@, 1)] BY <1>1, <2>2 DEF Sub
    <3>5. usage'[t].there = usage[t].there /\ usage'[t].count = Less(usage[t].count, 1)
      BY <2>0, <3>4 DEF TagRows
    <3>6. usage[t].there
      BY <2>0, <3>2 DEF Counted
    <3>7. usage[t].count \in Nat BY <2>0 DEF TagRows
    <3> QED BY <1>1, <2>0, <3>1, <3>3, <3>5, <3>6, <3>7 DEF Counted, Less
  <2>3. CASE t \notin T
    <3>1. Links(t)' = Links(t) BY <2>1, <2>3 DEF Links
    <3>2. usage'[t] = usage[t] BY <1>1, <2>3 DEF Sub
    <3> QED BY <1>1, <2>0, <3>1, <3>2
  <2> QED BY <2>2, <2>3
<1> QED BY <1>3, <1>4, <1>5 DEF TagsInv

\* The counts stay right at each step.
LEMMA TagsKept ==
  ASSUME Base, TagsInv, [Next]_vars
  PROVE  TagsInv'
<1>0. RequestsOK BY DEF Base
<1>1. ASSUME UNCHANGED <<usage, tagged, spoiled>> PROVE TagsInv' BY <1>1 DEF TagsInv, Links
<1>2. ASSUME NEW r \in Requests, CommitDelete(r) PROVE TagsInv'
  BY <1>2, DeletionTables, TagsCascade DEF Cascade
<1>3. ASSUME NEW r \in Requests, Contribute(r) PROVE TagsInv'
  BY <1>0, <1>1, <1>3, ContributeTables, TagsNew, TagsDel, TagsAdd, TagsRemove
<1> QED BY <1>1, <1>2, <1>3, AttachedBy DEF remarks

-----------------------------------------------------------------------------
\* Playlists: the items have positions, of which no two are the same.
Differ(l) == \A v, w \in DOMAIN items[l] : v # w => items[l][v] # items[l][w]
PlacesOK(f) == DOMAIN f \subseteq Videos /\ f \in [DOMAIN f -> Nat]
ListsInv == /\ lists \in [Playlists -> Users \cup {0}] /\ DOMAIN items = Playlists
            /\ \A l \in Playlists : PlacesOK(items[l])
            /\ DistinctPositions

\* Nat is well founded under <, so among the sets without a greatest element there
\* would be a smallest one, which is not empty once an element is taken out.
LEMMA MaxIn ==
  ASSUME NEW S \in SUBSET Nat, IsFiniteSet(S), S # {}
  PROVE  Max(S) \in S /\ \A y \in S : y =< Max(S)
<1> DEFINE Great(T) == \E x \in T : \A y \in T : x >= y
           Bad == {n \in Nat : \E T \in SUBSET S : T # {} /\ Cardinality(T) = n /\ ~Great(T)}
<1>1. Great(S)
  <2> SUFFICES ASSUME ~Great(S) PROVE FALSE OBVIOUS
  <2>1. Cardinality(S) \in Bad BY FS_CardinalityType
  <2>2. PICK n \in Bad : \A k \in Bad : ~(<<k, n>> \in OpToRel(<, Nat))
    <3>1. Bad # {} /\ Bad \subseteq Nat BY <2>1
    <3> HIDE DEF Bad
    <3> QED BY <3>1, WFMin, NatLessThanWellFounded, Zenon
  <2>3. ASSUME NEW k \in Bad PROVE ~(k < n)
    <3>1. k \in Nat /\ n \in Nat OBVIOUS
    <3> QED BY <2>2, <3>1, Zenon DEF OpToRel
  <2>4. PICK T \in SUBSET S : T # {} /\ Cardinality(T) = n /\ ~Great(T) OBVIOUS
  <2>5. PICK x \in T : TRUE BY <2>4
  <2> DEFINE R == T \ {x}
  <2>6. IsFiniteSet(T) BY FS_Subset
  <2>7. Cardinality(R) = n - 1 /\ Cardinality(R) \in Nat
    BY <2>4, <2>5, <2>6, FS_RemoveElement, FS_CardinalityType
  <2>8. Great(R) \/ R = {}
    <3>1. Cardinality(R) < n BY <2>7
    <3>2. Cardinality(R) \notin Bad BY <2>3, <3>1
    <3> QED BY <2>7, <3>2
  <2>9. CASE R = {}
    <3>1. T = {x} BY <2>5, <2>9
    <3>2. x \in Nat BY <2>5
    <3> QED BY <2>4, <3>1, <3>2
  <2>10. CASE Great(R)
    <3>1. PICK m \in R : \A y \in R : m >= y BY <2>10
    <3>2. T \subseteq Nat OBVIOUS
    <3>3. CASE x >= m
      <4>1. \A y \in T : x >= y BY <2>5, <3>1, <3>2, <3>3
      <4> QED BY <2>4, <2>5, <4>1
    <3>4. CASE ~(x >= m)
      <4>1. \A y \in T : m >= y BY <2>5, <3>1, <3>2, <3>4
      <4> QED BY <2>4, <3>1, <4>1
    <3> QED BY <3>3, <3>4
  <2> QED BY <2>8, <2>9, <2>10
<1>2. PICK x \in S : \A y \in S : x >= y BY <1>1
<1>3. Max(S) \in S /\ \A y \in S : Max(S) >= y BY <1>2 DEF Max
<1> QED BY <1>3

\* The position after the last one is none of those that are taken.
LEMMA NextIsNew ==
  ASSUME NEW l \in Playlists, PlacesOK(items[l])
  PROVE  NextPosition(l) \in Nat /\ \A v \in DOMAIN items[l] : items[l][v] < NextPosition(l)
<1> DEFINE P == {items[l][v] : v \in DOMAIN items[l]}
<1>1. CASE DOMAIN items[l] = {} BY <1>1 DEF NextPosition
<1>2. CASE DOMAIN items[l] # {}
  <2>1. P \subseteq Nat /\ P # {} BY <1>2 DEF PlacesOK
  <2>2. IsFiniteSet(P)
    <3>1. IsFiniteSet(DOMAIN items[l]) BY VideosAre, FS_Subset DEF PlacesOK
    <3>2. items[l] = [v \in DOMAIN items[l] |-> items[l][v]] BY DEF PlacesOK
    <3> QED BY <3>1, <3>2, ImageFinite
  <2>3. Max(P) \in P /\ \A y \in P : y =< Max(P) BY <2>1, <2>2, MaxIn
  <2>4. NextPosition(l) = 1 + Max(P) BY <1>2 DEF NextPosition
  <2>5. \A v \in DOMAIN items[l] : items[l][v] \in P OBVIOUS
  <2> HIDE DEF P
  <2>6. Max(P) \in Nat BY <2>1, <2>3
  <2>7. ASSUME NEW v \in DOMAIN items[l] PROVE items[l][v] < NextPosition(l)
    <3>1. items[l][v] \in Nat /\ items[l][v] =< Max(P) BY <2>1, <2>3, <2>5
    <3> QED BY <2>4, <2>6, <3>1
  <2> QED BY <2>4, <2>6, <2>7
<1> QED BY <1>1, <1>2

\* One playlist gets other items, all of them at positions of their own.
LEMMA ListChanged ==
  ASSUME ListsInv, NEW l \in Playlists, NEW f, items' = [items EXCEPT ![l] = f], PlacesOK(f),
         l \notin shuffled' => \A v, w \in DOMAIN f : v # w => f[v] # f[w],
         shuffled \subseteq shuffled', lists' \in [Playlists -> Users \cup {0}]
  PROVE  ListsInv'
<1>1. DOMAIN items' = Playlists BY DEF ListsInv
<1>2. \A k \in Playlists : items'[k] = IF k = l THEN f ELSE items[k] BY DEF ListsInv
<1>3. \A k \in Playlists : PlacesOK(items[k])' BY <1>2 DEF ListsInv, PlacesOK
<1>4. ASSUME NEW k \in Playlists \ shuffled'
      PROVE \A v, w \in DOMAIN items'[k] : v # w => items'[k][v] # items'[k][w]
  <2>1. CASE k = l BY <1>2, <1>4, <2>1
  <2>2. CASE k # l BY <1>2, <1>4, <2>2 DEF ListsInv, DistinctPositions
  <2> QED BY <2>1, <2>2
<1> QED BY <1>1, <1>3, <1>4 DEF ListsInv, DistinctPositions

\* A request about a playlist names one.
LEMMA ListRequest ==
  ASSUME RequestsOK, NEW r \in Requests,
         req[r].at \in {"dellist", "additem", "removeitem", "reorder"}
  PROVE  req[r].list \in Playlists
BY RequestOK DEF Paths, Fits

\* Deleting a playlist.
LEMMA ListsDel ==
  ASSUME RequestsOK, ListsInv, NEW r \in Requests, DelList(r)
  PROVE  ListsInv'
<1>1. req[r].list \in Playlists BY ListRequest DEF DelList, At
<1>2. DOMAIN << >> = {} OBVIOUS
<1>3. PlacesOK(<< >>) BY DEF PlacesOK
<1>4. items' = [items EXCEPT ![req[r].list] = << >>] /\ UNCHANGED shuffled BY DEF DelList
<1>5. lists' \in [Playlists -> Users \cup {0}] BY <1>1 DEF DelList, ListsInv
<1> QED BY <1>1, <1>2, <1>3, <1>4, <1>5, ListChanged

\* Making one.
LEMMA ListsNew ==
  ASSUME RequestsOK, ListsInv, NEW r \in Requests, NewList(r)
  PROVE  ListsInv'
<1>1. req[r].op = "newlist" BY RequestOK DEF NewList, At, Paths
<1>2. req[r].user \in Users BY <1>1, RequestOK DEF Fits
<1>3. lists' = lists \/ lists' = [lists EXCEPT ![seq.list] = req[r].user] BY DEF NewList
<1>4. lists' \in [Playlists -> Users \cup {0}] BY <1>2, <1>3 DEF ListsInv
<1>5. UNCHANGED <<items, shuffled>> BY DEF NewList
<1> QED BY <1>4, <1>5 DEF ListsInv, DistinctPositions, PlacesOK

\* A video that is added goes to the position after the last.
LEMMA ListsAdd ==
  ASSUME RequestsOK, ListsInv, NEW r \in Requests, AddItem(r)
  PROVE  ListsInv'
<1> DEFINE l == req[r].list
           v == Head(req[r].order)
<1>1. l \in Playlists /\ UNCHANGED <<lists, shuffled>> BY ListRequest DEF AddItem, At
<1>2. \/ UNCHANGED items
      \/ v \in Existing /\ v \notin DOMAIN items[l] /\ items' = [items EXCEPT ![l] = WithItem(l, v)]
  BY DEF AddItem
<1> HIDE DEF l, v
<1>3. CASE UNCHANGED items BY <1>1, <1>3 DEF ListsInv, DistinctPositions, PlacesOK
<1>4. CASE v \in Existing /\ v \notin DOMAIN items[l] /\ items' = [items EXCEPT ![l] = WithItem(l, v)]
  <2> DEFINE f == WithItem(l, v)
             n == NextPosition(l)
  <2>1. PlacesOK(items[l]) BY <1>1 DEF ListsInv
  <2>2. n \in Nat /\ \A w \in DOMAIN items[l] : items[l][w] < n BY <1>1, <2>1, NextIsNew
  <2>3. DOMAIN f = DOMAIN items[l] \cup {v} /\ \A w \in DOMAIN f : f[w] = IF w = v THEN n ELSE items[l][w]
    BY DEF WithItem
  <2>4. f = [w \in DOMAIN f |-> f[w]] BY DEF WithItem
  <2> HIDE DEF f, n
  <2>5. PlacesOK(f)
    <3>1. \A w \in DOMAIN f : f[w] \in Nat BY <2>1, <2>2, <2>3 DEF PlacesOK
    <3>2. DOMAIN f \subseteq Videos BY <1>4, <2>1, <2>3 DEF PlacesOK, Existing
    <3> QED BY <2>4, <3>1, <3>2 DEF PlacesOK
  <2>6. \A w \in DOMAIN items[l] : items[l][w] \in Nat BY <2>1 DEF PlacesOK
  <2>7. l \notin shuffled => \A w, x \in DOMAIN items[l] : w # x => items[l][w] # items[l][x]
    BY <1>1 DEF ListsInv, DistinctPositions
  <2>8. ASSUME l \notin shuffled, NEW w \in DOMAIN f, NEW x \in DOMAIN f, w # x PROVE f[w] # f[x]
    BY <2>2, <2>3, <2>6, <2>7, <2>8
  <2>9. lists' \in [Playlists -> Users \cup {0}] BY <1>1 DEF ListsInv
  <2>10. items' = [items EXCEPT ![l] = f] BY <1>4 DEF f
  <2> QED BY <1>1, <2>5, <2>8, <2>9, <2>10, ListChanged
<1> QED BY <1>2, <1>3, <1>4

\* Removing a video.
LEMMA ListsRemove ==
  ASSUME RequestsOK, ListsInv, NEW r \in Requests, RemoveItem(r)
  PROVE  ListsInv'
<1> DEFINE l == req[r].list
           left == [v \in DOMAIN items[l] \ req[r].ids |-> items[l][v]]
<1>1. l \in Playlists /\ UNCHANGED <<lists, shuffled>> BY ListRequest DEF RemoveItem, At
<1>2. UNCHANGED items \/ \E f \in Rankings(left) : items' = [items EXCEPT ![l] = f] BY DEF RemoveItem
<1>3. DOMAIN left \subseteq Videos BY <1>1 DEF ListsInv, PlacesOK
<1> HIDE DEF l, left
<1>4. CASE UNCHANGED items BY <1>1, <1>4 DEF ListsInv, DistinctPositions, PlacesOK
<1>5. ASSUME NEW f \in Rankings(left), items' = [items EXCEPT ![l] = f] PROVE ListsInv'
  <2> DEFINE V == DOMAIN left
  <2>1. f \in [V -> 0..Cardinality(V)] /\ \A v, w \in V : v # w => f[v] # f[w] BY DEF Rankings
  <2>2. Cardinality(V) \in Nat BY <1>3, VideosAre, FS_Subset, FS_CardinalityType
  <2>3. DOMAIN f = V /\ \A v \in V : f[v] \in Nat BY <2>1, <2>2
  <2>4. PlacesOK(f) BY <1>3, <2>1, <2>3 DEF PlacesOK
  <2>5. lists' \in [Playlists -> Users \cup {0}] BY <1>1 DEF ListsInv
  <2> QED BY <1>1, <1>5, <2>1, <2>3, <2>4, <2>5, ListChanged
<1> QED BY <1>2, <1>4, <1>5

\* A video of a new order goes to the place of its own in that order.
LEMMA ListsReorder ==
  ASSUME RequestsOK, ListsInv, NEW r \in Requests, ReorderVideos(r)
  PROVE  ListsInv'
<1> DEFINE l == req[r].list
           order == req[r].order
           f == Placed(l, order)
           At1(v) == CHOOSE i \in 1..Len(order) : order[i] = v
<1>1. l \in Playlists /\ UNCHANGED lists BY ListRequest DEF ReorderVideos, At
<1>2. items' = [items EXCEPT ![l] = f] /\ shuffled \subseteq shuffled'
      /\ (l \notin shuffled' => DOMAIN items[l] = ToSet(order))
  BY DEF ReorderVideos
<1>3. order \in Seq(Videos) BY RequestOK DEF ReorderVideos, RequestSet
<1>4. PlacesOK(items[l]) BY <1>1 DEF ListsInv
<1>5. DOMAIN f = DOMAIN items[l] /\ f = [v \in DOMAIN f |-> f[v]]
      /\ \A v \in DOMAIN f : f[v] = IF v \in ToSet(order) THEN At1(v) - 1 ELSE items[l][v]
  BY DEF Placed
<1> HIDE DEF l, order, f
<1>6. ASSUME NEW v \in ToSet(order) PROVE At1(v) \in 1..Len(order) /\ order[At1(v)] = v
  <2>1. \E i \in 1..Len(order) : order[i] = v BY <1>3 DEF ToSet
  <2> QED BY <2>1
<1>7. Len(order) \in Nat BY <1>3
<1>8. \A v \in ToSet(order) : At1(v) \in Nat /\ At1(v) - 1 \in Nat /\ order[At1(v)] = v BY <1>6, <1>7
<1> HIDE DEF At1
<1>9. PlacesOK(f)
  <2>1. \A v \in DOMAIN f : f[v] \in Nat BY <1>4, <1>5, <1>8 DEF PlacesOK
  <2> QED BY <1>4, <1>5, <2>1 DEF PlacesOK
<1>10. ASSUME l \notin shuffled', NEW v \in DOMAIN f, NEW w \in DOMAIN f, v # w PROVE f[v] # f[w]
  <2>1. v \in ToSet(order) /\ w \in ToSet(order) BY <1>2, <1>5, <1>10
  <2>2. f[v] = At1(v) - 1 /\ f[w] = At1(w) - 1 BY <1>5, <2>1
  <2>3. At1(v) # At1(w) BY <1>8, <1>10, <2>1
  <2> QED BY <1>8, <2>1, <2>2, <2>3
<1>11. lists' \in [Playlists -> Users \cup {0}] BY <1>1 DEF ListsInv
<1> QED BY <1>1, <1>2, <1>9, <1>10, <1>11, ListChanged

\* The deletion of videos takes them out of every playlist.
LEMMA ListsCascade ==
  ASSUME ListsInv, NEW V, UNCHANGED <<lists, shuffled>>,
         items' = [l \in Playlists |-> [v \in DOMAIN items[l] \ V |-> items[l][v]]]
  PROVE  ListsInv'
<1>1. DOMAIN items' = Playlists OBVIOUS
<1>2. ASSUME NEW l \in Playlists
      PROVE  /\ DOMAIN items'[l] = DOMAIN items[l] \ V /\ items'[l] = [v \in DOMAIN items'[l] |-> items[l][v]]
             /\ \A v \in DOMAIN items'[l] : items'[l][v] = items[l][v]
  OBVIOUS
<1>3. ASSUME NEW l \in Playlists PROVE PlacesOK(items[l])'
  <2>1. PlacesOK(items[l]) BY DEF ListsInv
  <2> QED BY <1>2, <2>1 DEF PlacesOK
<1>4. DistinctPositions' BY <1>2 DEF ListsInv, DistinctPositions
<1> QED BY <1>1, <1>3, <1>4 DEF ListsInv

\* Positions stay distinct at each step.
LEMMA ListsKept ==
  ASSUME Base, ListsInv, [Next]_vars
  PROVE  ListsInv'
<1>0. RequestsOK BY DEF Base
<1>1. ASSUME UNCHANGED <<lists, items, shuffled>> PROVE ListsInv'
  BY <1>1 DEF ListsInv, DistinctPositions, PlacesOK
<1>2. ASSUME NEW r \in Requests, CommitDelete(r), UNCHANGED shuffled PROVE ListsInv'
  BY <1>2, DeletionTables, ListsCascade DEF Cascade
<1>3. ASSUME NEW r \in Requests, Contribute(r) PROVE ListsInv'
  BY <1>0, <1>1, <1>3, ContributeTables, ListsNew, ListsDel, ListsAdd, ListsRemove, ListsReorder
<1> QED BY <1>1, <1>2, <1>3, AttachedBy DEF remarks

-----------------------------------------------------------------------------
\* Who watches and who has watched: users and videos.
Pairs == sessions \cup throttled \cup watched \subseteq Users \X Videos

\* They stay so at each step.
LEMMA PairsKept ==
  ASSUME Base, Pairs, [Next]_vars
  PROVE  Pairs'
<1>0. RequestsOK /\ Store BY DEF Base
<1>1. ASSUME UNCHANGED <<sessions, throttled, watched>> PROVE Pairs' BY <1>1 DEF Pairs
<1>2. ASSUME NEW r \in Requests, Serve(r) PROVE Pairs'
  <2>1. CASE Refresh(r)
    <3>1. sessions' \subseteq sessions /\ UNCHANGED <<throttled, watched>> BY <2>1 DEF Refresh, Forget
    <3> QED BY <3>1 DEF Pairs
  <2>2. CASE Upsert(r)
    <3>1. req[r].op = "playback" BY <1>0, <2>2, RequestOK DEF Upsert, At, Paths
    <3>2. req[r].user \in Users /\ req[r].video \in Videos BY <1>0, <3>1, RequestOK DEF Fits
    <3>3. <<req[r].user, req[r].video>> \in Users \X Videos BY <3>2
    <3>4. /\ throttled' \subseteq throttled \cup {<<req[r].user, req[r].video>>}
          /\ watched' \subseteq watched \cup {<<req[r].user, req[r].video>>} /\ UNCHANGED sessions
      BY <2>2 DEF Upsert
    <3> QED BY <3>3, <3>4 DEF Pairs
  <2>3. CASE SessionStep(r)
    <3>1. req[r].op \in {"start", "heartbeat", "stop"} BY <1>0, <2>3, RequestOK DEF SessionStep, Paths
    <3>2. req[r].user \in Users /\ req[r].video \in Videos BY <1>0, <3>1, RequestOK DEF Fits
    <3>3. <<req[r].user, req[r].video>> \in Users \X Videos BY <3>2
    <3>4. /\ UNCHANGED <<throttled, watched>>
          /\ sessions' \subseteq sessions \cup {<<req[r].user, req[r].video>>}
      BY <2>3 DEF SessionStep, Track, Forget
    <3> QED BY <3>3, <3>4 DEF Pairs
  <2>4. CASE ~Refresh(r) /\ ~Upsert(r) /\ ~SessionStep(r)
    <3>1. CASE Quiet BY <1>1, <3>1 DEF Quiet, world
    <3>2. CASE ~Quiet
      <4>1. UNCHANGED <<sessions, throttled, watched>>
        BY <1>2, <2>4, <3>2 DEF Serve, InvalidateFirst, DetailStep, GetRow, Fill, ListStep, FillList,
           HashStep, RenameStep,
           Saved, SaveFails, Discard, ExternalStep, ThumbnailStep, FfmpegStep, CoverUrl, ScaleCover,
           ThumbUrl, CoversStep, NextCover, TmpCover, PlaceCover, NewCover, NoExifStep, ReadExif, UrlsStep,
           ReadDir, Adopt, DelRow, BeginDelete, Unlink, Finish, ListMedia, CheckFiles, NextMissing, BurnRow,
           ProgressStep, BurnRecord, ListVariants, CheckReport, AtEnd, ViewStep, EditStep, SaveStep,
           CommitDelete, Drop, world
      <4> QED BY <1>1, <4>1
    <3> QED BY <3>1, <3>2
  <2> QED BY <2>1, <2>2, <2>3, <2>4
<1>3. ASSUME NEW r \in Requests, Arrive(r) \/ Engage(r) PROVE Pairs' BY <1>1, <1>3, CallApart
<1>4. ASSUME NEW r \in Requests, Contribute(r) PROVE Pairs'
  <2>1. UNCHANGED <<sessions, throttled, watched>> \/ Quiet
    BY <1>4 DEF Contribute, Owns, MarkStep, Resolve, CommentStep, UncommentStep, FindRow, DanmakuStep, NewTag,
       FindTags,
       DelTag, AddTagsStep, RemoveTagsStep, NewList, OwnList, DelList, AddItem, RemoveItem, Current,
       ReorderVideos, Ownership, ShareStep, UnshareStep, library
  <2> QED BY <1>1, <2>1 DEF Quiet, world
<1>5. CASE RunTask \/ LoseFile \/ RestoreFile
  <2>1. UNCHANGED <<sessions, throttled, watched>> BY <1>5 DEF RunTask, LoseFile, RestoreFile, world
  <2> QED BY <1>1, <2>1
<1>6. CASE TimePasses
  <2>1. sessions' = {} /\ throttled' = {} /\ watched' = watched BY <1>6 DEF TimePasses
  <2> QED BY <2>1 DEF Pairs
<1>7. CASE CleanupShares \/ UNCHANGED vars BY <1>1, <1>7 DEF CleanupShares, vars, libraryVars, world
<1> QED BY <1>2, <1>3, <1>4, <1>5, <1>6, <1>7 DEF Next, LibraryNext

-----------------------------------------------------------------------------
\* All of it together.
CommunityInv == Base /\ CacheInv /\ CommentsInv /\ Signs /\ TagsInv /\ ListsInv /\ Pairs

\* All of it holds at the start.
LEMMA CommunityInit == Init => CommunityInv
<1> SUFFICES ASSUME Init PROVE CommunityInv OBVIOUS
<1>1. Base BY BaseInit
<1>2. PICK s \in Scenarios :
        /\ comments = s.comments /\ usage = s.usage /\ tagged = s.tagged /\ lists = s.lists /\ items = s.items
        /\ seq = s.seq
  BY DEF Init
<1>3. CommunityStart(s) BY LibraryAssumption
<1>4. \A r \in Requests : req[r] = Idle BY DEF Init
<1>5. CacheInv
  <2>1. \A r \in Requests : AnyOK(req[r]) BY <1>4 DEF Idle, AnyOK
  <2> QED BY <2>1 DEF Init, CacheInv, DetailsRight, ListsRight
<1>6. CommentsInv
  <2>1. RowsOfComments BY <1>2, <1>3 DEF CommunityStart, RowsOfComments
  <2>2. \A r \in Requests : Asks(req[r]) BY <1>4 DEF Asks, Idle
  <2> QED BY <2>1, <2>2 DEF CommentsInv
<1>7. Signs BY DEF Init, Signs
<1>8. TagsInv
  <2>1. spoiled = {} BY DEF Init
  <2>2. usage \in [Tags -> TagRows] /\ tagged \subseteq Videos \X Tags
    BY <1>2, <1>3 DEF CommunityStart, TagRows
  <2>3. ASSUME NEW t \in Tags PROVE Counted(usage[t], Links(t), t \in spoiled)
    <3> DEFINE L == {v \in Videos : <<v, t>> \in s.tagged}
    <3>a. IF s.usage[t].there THEN s.usage[t].count = Cardinality(L) ELSE L = {}
      BY <1>3 DEF CommunityStart
    <3>b. Links(t) = L BY <1>2 DEF Links
    <3> HIDE DEF L
    <3>1. IF usage[t].there THEN usage[t].count = Cardinality(Links(t)) ELSE Links(t) = {} BY <1>2, <3>a, <3>b
    <3>2. usage[t].count \in Nat BY <2>2 DEF TagRows
    <3> QED BY <3>1, <3>2 DEF Counted
  <2> QED BY <2>2, <2>3 DEF TagsInv
<1>9. ListsInv
  <2>1. lists \in [Playlists -> Users \cup {0}] /\ DOMAIN items = Playlists BY <1>2, <1>3 DEF CommunityStart
  <2>2. \A l \in Playlists : PlacesOK(items[l]) BY <1>2, <1>3 DEF CommunityStart, PlacesOK
  <2>3. DistinctPositions BY <1>2, <1>3 DEF CommunityStart, DistinctPositions
  <2> QED BY <2>1, <2>2, <2>3 DEF ListsInv
<1>10. Pairs BY DEF Init, Pairs
<1> QED BY <1>1, <1>5, <1>6, <1>7, <1>8, <1>9, <1>10 DEF CommunityInv

\* A step keeps it.
LEMMA CommunityStep == CommunityInv /\ [Next]_vars => CommunityInv'
<1> SUFFICES ASSUME CommunityInv, [Next]_vars PROVE CommunityInv' OBVIOUS
<1>1. Base /\ Base' BY BaseKept DEF CommunityInv
<1>2. CacheInv' BY <1>1, CacheInvKept DEF CommunityInv
<1>3. CommentsInv' BY <1>1, CommentsKept DEF CommunityInv
<1>4. Signs' BY <1>1, SignsKept DEF CommunityInv
<1>5. TagsInv' BY <1>1, TagsKept DEF CommunityInv
<1>6. ListsInv' BY <1>1, ListsKept DEF CommunityInv
<1>7. Pairs' BY <1>1, PairsKept DEF CommunityInv
<1> QED BY <1>1, <1>2, <1>3, <1>4, <1>5, <1>6, <1>7 DEF CommunityInv

\* The tables, the directory and what is in memory keep their types, whatever requests
\* are under way, files go missing, and rows are deleted under them.
THEOREM CommunityTypes == Spec => []TypeOK
<1>1. CommunityInv => TypeOK
  <2> SUFFICES ASSUME CommunityInv PROVE TypeOK OBVIOUS
  <2>1. Base /\ Store /\ Remarks BY DEF CommunityInv, Base
  <2>2. /\ videos \in [Videos -> Rows \cup {NoVideo}] /\ storage \in [Users -> Nat]
        /\ variants \subseteq Videos /\ disk \subseteq FileSet
        /\ progress \in [Users -> [Videos -> ReportSet]]
        /\ detail \in [Videos -> Rows \cup {NoVideo}]
    BY <2>1 DEF Store
  <2>3. /\ marks \subseteq [kind : {"like", "favorite"}, user : Users, video : Videos]
        /\ shares \in [Shares -> [video : Videos, user : Users] \cup {NoShare}] /\ danmaku \in [Videos -> Nat]
    BY DEF CommunityInv, Signs, ShareSet
  <2>4. comments \in [Comments -> CommentRows \cup {NoComment}] BY <2>1 DEF Remarks
  <2>5. usage \in [Tags -> [there : BOOLEAN, count : Nat]] /\ tagged \subseteq Videos \X Tags
    BY DEF CommunityInv, TagsInv, TagRows
  <2>6. /\ lists \in [Playlists -> Users \cup {0}]
        /\ \A l \in Playlists : items[l] \in [DOMAIN items[l] -> Nat] /\ DOMAIN items[l] \subseteq Videos
    BY DEF CommunityInv, ListsInv, PlacesOK
  <2>7. sessions \cup throttled \cup watched \subseteq Users \X Videos BY DEF CommunityInv, Pairs
  <2>8. DOMAIN listed = Users \cup {0} BY DEF CommunityInv, CacheInv, ListsRight
  <2> QED BY <2>2, <2>3, <2>4, <2>5, <2>6, <2>7, <2>8 DEF TypeOK
<1> QED BY <1>1, CommunityInit, CommunityStep, PTL DEF Spec

\* A reply hangs on a comment on its video that is no reply, no two videos have one
\* position in a playlist, and a tag counts the videos that have it.
THEOREM CommunityCorrect == Spec => []CommunityRight
<1>1. CommunityInv => CommunityRight
  <2> SUFFICES ASSUME CommunityInv PROVE CommunityRight OBVIOUS
  <2>1. TwoLevels BY LevelsAreTwo DEF CommunityInv, Base, CommentsInv
  <2>2. DistinctPositions BY DEF CommunityInv, ListsInv
  <2>3. UsageCounted BY TagsAreCounted DEF CommunityInv
  <2> QED BY <2>1, <2>2, <2>3 DEF CommunityRight
<1> QED BY <1>1, CommunityInit, CommunityStep, PTL DEF Spec
=============================================================================
