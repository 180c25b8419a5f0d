------------------------------ MODULE VideoStore ------------------------------
(***************************************************************************)
(* The tables of videos, of the storage charged to their uploaders and of  *)
(* what users attach to a video, behind the repositories of the video      *)
(* library, and the files of the media directory.  A statement, and a      *)
(* transaction that waits for nobody, is atomic; what happens between two  *)
(* of them is up to the modules that extend this one.                      *)
(***************************************************************************)
EXTENDS Integers, FiniteSets, FiniteSetsExt, SequencesExt

CONSTANTS
  Videos,      \* ids of videos, an interval from 1
  Users,       \* ids of users, who are there throughout
  Admins,      \* those of them with the role of an administrator
  Contents,    \* what is uploaded; two equal contents have the same hash
  Pictures,    \* the contents that are images
  SizeOf,      \* the size of each content
  Quota,       \* UPLOAD_QUOTA_BYTES, 0 for none
  Comments, Tags, Playlists, Shares   \* ids, intervals from 1

VARIABLES
  videos,      \* the table videos: a row or NoVideo
  storage,     \* users.storage_used_bytes
  variants,    \* videos with a row in video_variants
  progress,    \* playback_history: the last report of a user about a video, or NoReport
  marks,       \* user_likes and user_favorites
  comments,    \* the table comments: a row or NoComment
  usage,       \* the table tags: whether a tag is there, and its usage_count
  tagged,      \* video_tags
  spoiled,     \* history: tags that lost a video by the deletion of the video
  lists,       \* the table playlists: the owner, or 0
  items,       \* playlist_items: the position of a video, or no entry
  shares,      \* share_links: a row or NoShare
  danmaku,     \* danmaku: the comments that fly over a video, counted
  seq,         \* the next video, file, comment, playlist and share
  disk         \* the files under the media directory

None == "none"
NoVideo == [id |-> 0]
NoComment == [video |-> 0]
NoShare == [video |-> 0]
NoReport == [at |-> 0, of |-> 0, none |-> TRUE]
Report(position, duration) == [at |-> position, of |-> duration, none |-> FALSE]

\* Names of files: an upload and an uploaded cover have a number of their own,
\* and what is made of a video is named after it.  Variants have a directory of
\* their own.
File(kind, n, content) == [kind |-> kind, n |-> n, content |-> content]
NoFile == File("none", 0, None)
CoverOf(v) == File("cover", v, None)
ThumbOf(v) == File("thumb", v, None)
VariantOf(v) == File("variant", v, None)
Kinds == {"media", "cover", "thumb", "variant", "newcover", "tmpcover"}

Existing == {v \in Videos : videos[v] # NoVideo}
IsVideo(row) == row.source = "local_video"
IsImageSource(row) == row.source = "local_image"
IsLocal(row) == row.source \in {"local_video", "local_image"}
OwnerOrAdmin(u, row) == u \in Admins \/ row.owner = u

-----------------------------------------------------------------------------
\* videos

FindById(v) == {videos[w] : w \in Existing \cap {v}}
FindVideoByFileHash(u, c) == {v \in Existing : videos[v].owner = u /\ videos[v].hash = c}
FindAllLocalFileNames == {videos[v].file : v \in {w \in Existing : IsLocal(videos[w])}}
ListLocalVideoMedia == {v \in Existing : IsVideo(videos[v])}
FindVideosWithoutCover(after) ==
  {v \in Existing : /\ IsLocal(videos[v]) /\ v > after
                    /\ videos[v].cover = NoFile \/ videos[v].thumb = NoFile}
FindImagesWithoutExif == {v \in Existing : IsImageSource(videos[v]) /\ ~videos[v].exif}
ShownTo(owner, row) == owner = 0 \/ row.owner = owner
FindAllPaged(owner) == {v \in Existing : ShownTo(owner, videos[v])}

NewVideo(id, owner, source, file, hash) ==
  [id |-> id, owner |-> owner, source |-> source, file |-> file, hash |-> hash,
   cover |-> NoFile, thumb |-> NoFile, length |-> 0, exif |-> FALSE, edited |-> 0, views |-> 0]

SourceOf(file) == IF file.kind # "media" \/ file.content \in Pictures THEN "local_image" ELSE "local_video"
Bytes(row) == IF row.file.kind = "media" /\ row.owner # 0 THEN SizeOf[row.file.content] ELSE 0

\* Bound: the ids that are left for n more videos.
RoomFor(n) == n = 0 \/ seq.video + n - 1 \in Videos

SaveExternalVideo(u) ==
  /\ RoomFor(1)
  /\ videos' = [videos EXCEPT ![seq.video] = NewVideo(seq.video, u, "external", NoFile, None)]
  /\ seq' = [seq EXCEPT !.video = @ + 1]

\* save_local_video_with_quota, which locks the row of the user before it looks.
Outcome(u, file) ==
  IF Quota > 0 /\ storage[u] + SizeOf[file.content] > Quota THEN "quota"
  ELSE IF FindVideoByFileHash(u, file.content) # {} THEN "duplicate" ELSE "ok"

SaveLocalVideoWithQuota(u, file) ==
  /\ RoomFor(1)
  /\ videos' = [videos EXCEPT ![seq.video] = NewVideo(seq.video, u, SourceOf(file), file, file.content)]
  /\ storage' = [storage EXCEPT ![u] = @ + SizeOf[file.content]]
  /\ seq' = [seq EXCEPT !.video = @ + 1]

\* The rows of a scan have no uploader, and an image is its own thumbnail.
BatchSaveLocalVideos(files) ==
  /\ RoomFor(Cardinality(files))
  /\ LET at == SetToSeq(files)
         row(i) == LET f == at[i]
                       new == NewVideo(seq.video + i - 1, 0, SourceOf(f), f, f.content)
                   IN IF IsImageSource(new) THEN [new EXCEPT !.thumb = f, !.exif = TRUE]
                      ELSE [new EXCEPT !.exif = TRUE]
     IN videos' = [v \in Videos |-> IF v - seq.video + 1 \in 1..Cardinality(files)
                                     /\ v >= seq.video THEN row(v - seq.video + 1) ELSE videos[v]]
  /\ seq' = [seq EXCEPT !.video = @ + Cardinality(files)]

\* The updates of rows by id; they change nothing when there is no such row.
UpdateRows(V, new(_)) == videos' = [v \in Videos |-> IF v \in V \cap Existing THEN new(videos[v]) ELSE videos[v]]

EditVideos(V) == UpdateRows(V, LAMBDA row : [row EXCEPT !.edited = @ + 1])
IncrementViews(v) == UpdateRows({v}, LAMBDA row : [row EXCEPT !.views = @ + 1])
UpdateDuration(v, secs) == UpdateRows({v}, LAMBDA row : [row EXCEPT !.length = secs])
UpdateCoverUrl(v, file) == UpdateRows({v}, LAMBDA row : [row EXCEPT !.cover = file])
UpdateThumbUrl(v, file) == UpdateRows({v}, LAMBDA row : [row EXCEPT !.thumb = file])
MarkExifExtracted(v) == UpdateRows({v}, LAMBDA row : [row EXCEPT !.exif = TRUE])

-----------------------------------------------------------------------------
\* batch_delete_videos

\* Rows that the transaction deletes, and locks, before it comes to the users.
HasRows(v) ==
  \/ \E u \in Users : ~progress[u][v].none
  \/ \E m \in marks : m.video = v
  \/ \E c \in Comments : comments[c].video = v
  \/ \E t \in Tags : <<v, t>> \in tagged

\* What is charged to a user for those of the videos that are there: their bytes,
\* one by one, which are as many as their sizes add up to.
BytesIn(table, V, u) ==
  UNION {{v} \X (1..Bytes(table[v])) : v \in {w \in V : table[w] # NoVideo /\ table[w].owner = u}}
Charge(V) == [u \in Users |-> Cardinality(BytesIn(videos, V, u))]

\* A mutant: without GREATEST(0, ...).
PlainLess(a, b) == a - b

Less(a, b) == IF a > b THEN a - b ELSE 0
Discharge(charge) == storage' = [u \in Users |-> Less(storage[u], charge[u])]

\* ON DELETE CASCADE: what is left of the rows of a video that goes.
Cascade(V) ==
  /\ variants' = variants \ V
  /\ progress' = [u \in Users |-> [v \in Videos |-> IF v \in V THEN NoReport ELSE progress[u][v]]]
  /\ marks' = {m \in marks : m.video \notin V}
  /\ comments' = [c \in Comments |-> IF comments[c].video \in V THEN NoComment ELSE comments[c]]
  /\ tagged' = {p \in tagged : p[1] \notin V}
  /\ spoiled' = spoiled \cup {p[2] : p \in {q \in tagged : q[1] \in V}}
  /\ items' = [l \in Playlists |-> [v \in DOMAIN items[l] \ V |-> items[l][v]]]
  /\ shares' = [s \in Shares |-> IF shares[s].video \in V THEN NoShare ELSE shares[s]]
  /\ danmaku' = [v \in Videos |-> IF v \in V THEN 0 ELSE danmaku[v]]

DeleteRows(V) ==
  /\ videos' = [v \in Videos |-> IF v \in V THEN NoVideo ELSE videos[v]]
  /\ Cascade(V)

-----------------------------------------------------------------------------
\* playback_history

UpsertPlayback(u, v, report) == progress' = [progress EXCEPT ![u][v] = report]
GetPlaybackData(u, v) == {progress[u][w] : w \in {w \in {v} : ~progress[u][w].none}}

=============================================================================
