----------------------------- MODULE VideoLibrary -----------------------------
(***************************************************************************)
(* Uploading, scanning, watching, burning, deleting and sweeping videos:   *)
(* handlers/videos.rs, handlers/playback.rs, the part of                   *)
(* handlers/admin/admin_video.rs about videos that are there, and the      *)
(* services behind them, over the tables of VideoStore.  A request is a    *)
(* record with the step it is at; a step runs from one await to the next.  *)
(*                                                                         *)
(* The caches of details and of lists hold what was read; entries go when  *)
(* their time to live is over, or when invalidate_caches empties them.     *)
(* Requests that validation or a rate limit refuses change nothing and are *)
(* not shown; an upload starts with a file that was received whole (the    *)
(* module UploadSession says how) and passed the validation of its type.   *)
(***************************************************************************)
EXTENDS VideoStore

CONSTANTS
  Requests,    \* requests that may be served at the same time
  Seconds,     \* the length of the videos
  Reports,     \* what players report: milliseconds watched, and of how many
  Scenarios    \* bound: what there is at the start and what is asked, see Init

VARIABLES
  req,         \* the requests under way
  tasks,       \* what an upload left to do in the background
  detail,      \* video_detail_cache: the row of a video, or NoVideo
  listed,      \* video_cache: the ids in the list of an owner, of everyone (0), or NoList
  sessions,    \* PlaybackSessionTracker
  throttled,   \* last_writes: reports that came less than WRITE_THROTTLE ago
  scene,       \* what is asked, how many calls and upsets there may still be, and (history)
               \* the files that a failed removal or a dropped request left
  late,        \* history: cache entries that nothing will take out, see Fill and Drop
  doubled,     \* history: users who were relieved of a video that was gone already
  taken,       \* history: files that disappeared from the disk, or came back
  raced,       \* history: files that a scan adopted although they were spoken for
  watched,     \* history: who reported, in an accepted report, the end of which video
  burned       \* history: the videos that were burned, and by whom

Idle ==
  [op |-> "idle", at |-> "idle", user |-> 0, video |-> 0, ids |-> {}, rows |-> {},
   todo |-> {}, file |-> NoFile, files |-> {}, report |-> NoReport, ends |-> FALSE,
   charge |-> [u \in Users |-> 0], held |-> {}, last |-> 0, any |-> FALSE,
   known |-> {}, next |-> "idle", parent |-> 0, tags |-> {}, list |-> 0, order |-> <<>>]

NoList == {0}
caches == <<detail, listed, late>>
attached == <<variants, progress, marks, comments, tagged, spoiled, items, shares, danmaku>>
history == <<doubled, taken, raced, burned>>
world == <<tasks, sessions, throttled, watched, usage, lists>>

At(r, s) == req[r].at = s
Step(s) == [Idle EXCEPT !.at = s]
To(r, s) == [req[r] EXCEPT !.at = s]
Go(r, q) == req' = [req EXCEPT ![r] = q]
Move(r, s) == Go(r, To(r, s))
Done(r) == Go(r, Idle)
Row(r) == CHOOSE row \in req[r].rows : TRUE
Others(r) == Requests \ {r}
\* Bound: the upsets of a scenario.  One leaves files behind that nothing will remove.
Upset(files) == /\ scene.upsets > 0
                /\ scene' = [scene EXCEPT !.upsets = @ - 1, !.left = @ \cup files]

\* Removals are best effort: one that fails is logged, or not even that, and what was
\* to be removed stays.
RemoveFiles(files) ==
  \/ disk' = disk \ files /\ UNCHANGED scene
  \/ \E kept \in SUBSET (files \cap disk) \ {{}} : Upset(kept) /\ disk' = disk \ (files \ kept)

\* What a step that only reads, or only moves its request on, leaves alone.
Quiet == UNCHANGED <<videos, storage, disk, seq, attached, world, caches, history, scene>>

-----------------------------------------------------------------------------
(***************************************************************************)
(* The requests, as they arrive.                                           *)
(***************************************************************************)
Free(r) == At(r, "idle") /\ scene.calls > 0

Call(r, op, q) ==
  /\ op \in scene.menu
  /\ scene' = [scene EXCEPT !.calls = @ - 1]
  /\ Go(r, [q EXCEPT !.op = op])
  /\ UNCHANGED <<videos, storage, disk, seq, attached, world, caches, history>>

Known == 1..(seq.video - 1)
Asked == Known \cap scene.asked

UploadVideo(r) == \E u \in scene.users, c \in scene.contents :
  Call(r, "upload", [Step("hash") EXCEPT !.user = u, !.file = File("media", 0, c)])
AddExternalVideo(r) == \E u \in Admins : Call(r, "external", [Step("external") EXCEPT !.user = u])
ScanMedia(r) == Call(r, "scan", Step("urls"))
DeleteVideo(r) == \E v \in Asked : Call(r, "delete", [Step("invalidate") EXCEPT !.ids = {v}])
DeleteVideos(r) == Call(r, "deletemany", [Step("invalidate") EXCEPT !.ids = Asked])
UpdateVideo(r) == \E v \in Asked : Call(r, "edit", [Step("edit") EXCEPT !.ids = {v}])
BatchUpdateCategory(r) == Call(r, "category", [Step("edit") EXCEPT !.ids = Asked])
UploadCover(r) == \E v \in Asked : Call(r, "cover", [Step("tmpcover") EXCEPT !.video = v])
BackfillThumbnails(r) == Call(r, "backfill", Step("covers"))
BackfillExif(r) == Call(r, "exif", Step("noexif"))
SweepMissing(r) == Call(r, "sweep", Step("list"))
Watcher(r, op, q) == \E u \in scene.users, v \in Asked :
  Call(r, op, [q EXCEPT !.user = u, !.video = v])
GetVideo(r) == Watcher(r, "get", Step("detail"))
ListVideos(r) == \E u \in scene.users :
  Call(r, "list", [Step("cached") EXCEPT !.user = IF u \in Admins THEN 0 ELSE u])
ViewVideo(r) == Watcher(r, "view", Step("view"))
BurnVideo(r) == Watcher(r, "burn", Step("burnrow"))
UpdatePlaybackHistory(r) == \E p \in Reports : Watcher(r, "playback", [Step("check") EXCEPT !.report = p])
StartSession(r) == Watcher(r, "start", Step("start"))
Heartbeat(r) == Watcher(r, "heartbeat", Step("heartbeat"))
StopSession(r) == Watcher(r, "stop", Step("stop"))

Arrive(r) ==
  /\ Free(r)
  /\ \/ UploadVideo(r) \/ AddExternalVideo(r) \/ ScanMedia(r) \/ DeleteVideo(r) \/ DeleteVideos(r)
     \/ UpdateVideo(r) \/ BatchUpdateCategory(r) \/ UploadCover(r) \/ BackfillThumbnails(r)
     \/ BackfillExif(r) \/ SweepMissing(r) \/ GetVideo(r) \/ ListVideos(r) \/ ViewVideo(r)
     \/ BurnVideo(r) \/ UpdatePlaybackHistory(r) \/ StartSession(r) \/ Heartbeat(r) \/ StopSession(r)

-----------------------------------------------------------------------------
(***************************************************************************)
(* Caches.                                                                 *)
(***************************************************************************)
\* A mutant: the lists are emptied, the details left to their time to live.
InvalidateLists ==
  /\ listed' = [u \in Users \cup {0} |-> NoList]
  /\ UNCHANGED <<detail, late>>

InvalidateCaches ==
  /\ detail' = [v \in Videos |-> NoVideo]
  /\ listed' = [u \in Users \cup {0} |-> NoList]
  /\ late' = {}

\* PlaybackSessionTracker
Track(u, v) == sessions \cup {<<u, v>>}
Forget(u, v) == sessions \ {<<u, v>>}

\* The last step of a handler that changed something; a deletion comes here first.
Refresh(r) ==
  /\ At(r, "refresh")
  /\ InvalidateCaches
  /\ sessions' = IF req[r].op = "playback" THEN Forget(req[r].user, req[r].video) ELSE sessions
  /\ Done(r)
  /\ UNCHANGED <<videos, storage, disk, seq, attached, tasks, throttled, watched, usage, lists, history, scene>>

InvalidateFirst(r) ==
  /\ At(r, "invalidate")
  /\ InvalidateCaches
  /\ Move(r, "delrow")
  /\ UNCHANGED <<videos, storage, disk, seq, attached, world, history, scene>>

\* A deletion that emptied the caches before, and has still to delete the video.
Deleting(v) == \E s \in Requests : /\ req[s].op \in {"delete", "deletemany"} /\ v \in req[s].ids
                                   /\ req[s].at \in {"delrow", "tx", "settle"}
\* A deletion or a change that has still to empty the caches.
Refreshing(v) == \E s \in Requests : req[s].any /\ (v \in req[s].ids \/ req[s].op = "sweep")

Gone(row) == row.id \notin Existing \/ videos[row.id].edited # row.edited

DetailStep(r) ==
  /\ At(r, "detail")
  /\ IF detail[req[r].video] # NoVideo THEN Done(r) ELSE Move(r, "getrow")
  /\ Quiet

GetRow(r) ==
  /\ At(r, "getrow")
  /\ LET rows == {row \in FindById(req[r].video) : OwnerOrAdmin(req[r].user, row)}
     IN IF rows = {} THEN Done(r) ELSE Go(r, [To(r, "fill") EXCEPT !.rows = rows])
  /\ Quiet

Fill(r) ==
  /\ At(r, "fill")
  /\ LET row == Row(r)
     IN /\ detail' = [detail EXCEPT ![row.id] = row]
        /\ late' = IF Gone(row) \/ Deleting(row.id) THEN late \cup {<<"detail", row.id>>} ELSE late
  /\ Done(r)
  /\ UNCHANGED <<videos, storage, disk, seq, attached, world, listed, history, scene>>

ListStep(r) ==
  /\ At(r, "cached")
  /\ IF listed[req[r].user] # NoList THEN Done(r)
     ELSE Go(r, [To(r, "filllist") EXCEPT !.ids = FindAllPaged(req[r].user)])
  /\ Quiet

FillList(r) ==
  /\ At(r, "filllist")
  /\ listed' = [listed EXCEPT ![req[r].user] = req[r].ids]
  /\ late' = IF \E v \in req[r].ids : v \notin Existing \/ Deleting(v)
             THEN late \cup {<<"list", req[r].user>>} ELSE late
  /\ Done(r)
  /\ UNCHANGED <<videos, storage, disk, seq, attached, world, detail, history, scene>>

-----------------------------------------------------------------------------
(***************************************************************************)
(* Uploads, and what they leave to do in the background.                   *)
(***************************************************************************)
HashStep(r) ==
  /\ At(r, "hash")
  /\ IF FindVideoByFileHash(req[r].user, req[r].file.content) # {} THEN Done(r)
     ELSE Move(r, "rename")
  /\ Quiet

\* A mutant: the name that the client gave.
DestNameGiven(content) == File("media", 1, content)

\* The time, a fresh uuid and the name that the client gave.
DestName(content) == File("media", seq.file, content)

RenameStep(r) ==
  /\ At(r, "rename")
  /\ LET file == DestName(req[r].file.content)
     IN /\ disk' = disk \cup {file}
        /\ Go(r, [To(r, "save") EXCEPT !.file = file])
  /\ seq' = [seq EXCEPT !.file = @ + 1]
  /\ UNCHANGED <<videos, storage, attached, world, caches, history, scene>>

Background(v, file) ==
  {[video |-> v, file |-> file, kind |-> IF SourceOf(file) = "local_image" THEN "exif" ELSE "duration"]}

SaveStep(r) ==
  /\ At(r, "save")
  /\ LET u == req[r].user
         file == req[r].file
     IN IF Outcome(u, file) = "ok"
        THEN /\ SaveLocalVideoWithQuota(u, file)
             /\ tasks' = tasks \cup Background(seq.video, file)
             /\ Go(r, [To(r, "saved") EXCEPT !.video = seq.video])
             /\ UNCHANGED attached
        ELSE /\ Go(r, [To(r, "discard") EXCEPT !.files = {file}])
             /\ UNCHANGED <<videos, storage, seq, tasks, attached>>
  /\ UNCHANGED <<disk, sessions, throttled, watched, usage, lists, caches, history, scene>>

\* The handler empties the caches and answers; the request goes on as the task
\* that makes the pictures, next to the one that reads the file.
Saved(r) ==
  /\ At(r, "saved")
  /\ InvalidateCaches
  /\ Move(r, "thumbnail")
  /\ UNCHANGED <<videos, storage, disk, seq, attached, world, history, scene>>

\* The database fails instead.
SaveFails(r) ==
  /\ At(r, "save") /\ Upset({})
  /\ Go(r, [To(r, "discard") EXCEPT !.files = {req[r].file}])
  /\ UNCHANGED <<videos, storage, disk, seq, attached, world, caches, history>>

Discard(r) ==
  /\ At(r, "discard")
  /\ RemoveFiles(req[r].files)
  /\ Done(r)
  /\ UNCHANGED <<videos, storage, seq, attached, world, caches, history>>

\* extract_duration and parse_exif_file; they give up when they cannot read the file,
\* or whatever else goes wrong.
RunTask ==
  /\ \E t \in tasks :
       /\ tasks' = tasks \ {t}
       /\ \/ UNCHANGED videos
          \/ t.file \in disk /\ t.kind = "duration" /\ UpdateDuration(t.video, Seconds)
          \/ t.file \in disk /\ t.kind = "exif" /\ MarkExifExtracted(t.video)
  /\ UNCHANGED <<storage, disk, seq, attached, sessions, throttled, watched, usage, lists, caches,
                 history, scene, req>>

ExternalStep(r) ==
  /\ At(r, "external")
  /\ SaveExternalVideo(req[r].user)
  /\ Move(r, "refresh")
  /\ UNCHANGED <<storage, disk, attached, world, caches, history, scene>>

-----------------------------------------------------------------------------
(***************************************************************************)
(* Pictures of a video.                                                    *)
(***************************************************************************)
AfterThumbnail(r) == IF req[r].op = "backfill" THEN Move(r, "nextcover") ELSE Done(r)

\* generate_thumbnail: the row; external videos have no pictures.
ThumbnailStep(r) ==
  /\ At(r, "thumbnail")
  /\ LET rows == {row \in FindById(req[r].video) : IsLocal(row)}
     IN IF rows = {} THEN AfterThumbnail(r) ELSE Go(r, [To(r, "ffmpeg") EXCEPT !.rows = rows])
  /\ Quiet

HasPictures(row) ==
  /\ row.thumb \in disk
  /\ row.cover \in disk \/ (IsImageSource(row) /\ row.cover = NoFile)

\* What there is already, or cannot be made, is left; ffmpeg writes the file.
FfmpegStep(r) ==
  /\ At(r, "ffmpeg")
  /\ LET row == Row(r)
         file == IF IsImageSource(row) THEN ThumbOf(row.id) ELSE CoverOf(row.id)
     IN IF HasPictures(row) \/ row.file \notin disk
        THEN AfterThumbnail(r) /\ UNCHANGED disk
        ELSE \/ /\ disk' = disk \cup {file}
                /\ Go(r, [To(r, IF IsImageSource(row) THEN "thumburl" ELSE "coverurl") EXCEPT !.file = file])
             \/ \* ffmpeg fails or runs out of time
                AfterThumbnail(r) /\ UNCHANGED disk
  /\ UNCHANGED <<videos, storage, seq, attached, world, caches, history, scene>>

CoverUrl(r) ==
  /\ At(r, "coverurl")
  /\ UpdateCoverUrl(req[r].video, req[r].file)
  /\ Move(r, "scale")
  /\ UNCHANGED <<storage, disk, seq, attached, world, caches, history, scene>>

ScaleCover(r) ==
  /\ At(r, "scale")
  /\ LET file == ThumbOf(req[r].video)
     IN IF req[r].file \in disk
        THEN /\ disk' = disk \cup {file}
             /\ Go(r, [To(r, "thumburl") EXCEPT !.file = file])
        ELSE AfterThumbnail(r) /\ UNCHANGED disk
  /\ UNCHANGED <<videos, storage, seq, attached, world, caches, history, scene>>

ThumbUrl(r) ==
  /\ At(r, "thumburl")
  /\ UpdateThumbUrl(req[r].video, req[r].file)
  /\ AfterThumbnail(r)
  /\ UNCHANGED <<storage, disk, seq, attached, world, caches, history, scene>>

\* backfill_thumbnails: the next hundred rows, until there are none.
CoversStep(r) ==
  /\ At(r, "covers")
  /\ LET todo == FindVideosWithoutCover(req[r].last)
     IN IF todo = {} THEN Move(r, "refresh") ELSE Go(r, [To(r, "nextcover") EXCEPT !.todo = todo])
  /\ Quiet

NextCover(r) ==
  /\ At(r, "nextcover")
  /\ LET todo == req[r].todo
     IN IF todo = {} THEN Move(r, "covers")
        ELSE LET v == Min(todo)
             IN Go(r, [To(r, "thumbnail") EXCEPT !.video = v, !.last = v, !.todo = todo \ {v}])
  /\ Quiet

\* update_cover: a temporary file, then the cover, then the row, if there is one.
TmpCover(r) ==
  /\ At(r, "tmpcover")
  /\ LET file == File("tmpcover", seq.file, None)
     IN /\ disk' = disk \cup {file}
        /\ Go(r, [To(r, "placecover") EXCEPT !.file = file])
  /\ seq' = [seq EXCEPT !.file = @ + 1]
  /\ UNCHANGED <<videos, storage, attached, world, caches, history, scene>>

PlaceCover(r) ==
  /\ At(r, "placecover")
  /\ LET file == File("newcover", req[r].file.n, None)
     IN \/ /\ req[r].file \in disk
           /\ disk' = (disk \ {req[r].file}) \cup {file}
           /\ Go(r, [To(r, "newcover") EXCEPT !.file = file])
           /\ UNCHANGED scene
        \/ \* it is no picture, or it has gone
           RemoveFiles({req[r].file}) /\ Done(r)
  /\ UNCHANGED <<videos, storage, seq, attached, world, caches, history>>

NewCover(r) ==
  /\ At(r, "newcover")
  /\ \/ /\ UpdateCoverUrl(req[r].video, req[r].file)
        /\ Move(r, "refresh")
        /\ UNCHANGED scene
     \/ \* the database fails
        /\ Upset({})
        /\ Go(r, [To(r, "discard") EXCEPT !.files = {req[r].file}])
        /\ UNCHANGED videos
  /\ UNCHANGED <<storage, disk, seq, attached, world, caches, history>>

\* backfill_image_exif: an image that was tried in this run is not tried again.
NoExifStep(r) ==
  /\ At(r, "noexif")
  /\ LET todo == FindImagesWithoutExif \ req[r].ids
     IN IF todo = {} THEN Move(r, "refresh") ELSE Go(r, [To(r, "readexif") EXCEPT !.todo = todo])
  /\ Quiet

ReadExif(r) ==
  /\ At(r, "readexif")
  /\ LET v == Min(req[r].todo)
         rest == req[r].todo \ {v}
     IN /\ MarkExifExtracted(v)
        /\ Go(r, [To(r, IF rest = {} THEN "noexif" ELSE "readexif")
                   EXCEPT !.todo = rest, !.ids = req[r].ids \cup {v}])
  /\ UNCHANGED <<storage, disk, seq, attached, world, caches, history, scene>>

-----------------------------------------------------------------------------
(***************************************************************************)
(* scan_media_directory: the names in the table, the files on the disk     *)
(* that are not among them, their rows.                                    *)
(***************************************************************************)
\* A mutant: the pictures of a video, and not the video.
PicturesOf(row) == {row.cover, row.thumb} \ {NoFile}

FilesOf(row) == {row.file, row.cover, row.thumb} \ {NoFile}

UrlsStep(r) ==
  /\ At(r, "urls")
  /\ Go(r, [To(r, "readdir") EXCEPT !.known = FindAllLocalFileNames])
  /\ Quiet

\* A mutant: whatever is in the directory.
CandidatesAll(known) == {f \in disk : f.kind # "variant"}

Candidates(known) == {f \in disk : f.kind # "variant" /\ f \notin known}

ReadDir(r) ==
  /\ At(r, "readdir")
  /\ LET new == Candidates(req[r].known)
     IN IF new = {} THEN Move(r, "refresh") ELSE Go(r, [To(r, "adopt") EXCEPT !.files = new])
  /\ Quiet

\* A file that got a row since, that is the picture of another row or has the name
\* that a picture of it will get, that a request is at work on, or that has gone.
SpokenFor(r, f) ==
  \/ f \notin disk
  \/ f \notin req[r].known /\ \E v \in Existing : f \in FilesOf(videos[v])
  \/ \E v \in Existing : f \in {CoverOf(v), ThumbOf(v)}
  \/ \E s \in Others(r) : \/ f = req[s].file
                          \/ f \in req[s].files /\ req[s].op # "scan"
                          \/ \E row \in req[s].rows : f \in {row.file, row.cover, row.thumb}

Adopt(r) ==
  /\ At(r, "adopt")
  /\ BatchSaveLocalVideos(req[r].files)
  /\ raced' = raced \cup {f \in req[r].files : SpokenFor(r, f)}
  /\ Move(r, "refresh")
  /\ UNCHANGED <<storage, disk, attached, world, caches, doubled, taken, burned, scene>>

-----------------------------------------------------------------------------
(***************************************************************************)
(* Deleting: by an administrator, by burning, by the sweep.                *)
(***************************************************************************)
\* delete_video stops when there is no such row; delete_videos does not.
DelRow(r) ==
  /\ At(r, "delrow")
  /\ LET rows == {videos[v] : v \in req[r].ids \cap Existing}
     IN IF rows = {} /\ req[r].op = "delete" THEN Done(r)
        ELSE Go(r, [To(r, "tx") EXCEPT !.files = UNION {FilesOf(row) : row \in rows}])
  /\ Quiet

\* batch_delete_videos up to the update of the users: the rows that refer to the
\* videos are deleted and locked, and the sizes are summed up.
BeginDelete(r) ==
  /\ At(r, "tx")
  /\ \A s \in Others(r) : At(s, "settle") => req[s].held \cap req[r].ids = {}
  /\ Go(r, [To(r, "settle") EXCEPT !.charge = Charge(req[r].ids),
                                   !.held = {v \in req[r].ids \cap Existing : HasRows(v)}])
  /\ Quiet

\* Where the deletion of some rows, or of none, takes the operation.
AfterDelete(r, some) ==
  CASE req[r].op \in {"delete", "deletemany"} -> To(r, "unlink")
    [] req[r].op = "sweep" -> [To(r, "nextmissing") EXCEPT !.any = req[r].any \/ some]
    [] OTHER -> [To(r, IF some THEN "unlink" ELSE "finish") EXCEPT !.any = some]

\* A mutant: the sums are taken after the rows are deleted.
ChargeAtEnd(r) == Charge({})

ChargeOf(r) == req[r].charge

\* The update of the users waits for their rows and then subtracts the sums it
\* started with; the rows of the videos go, and the transaction commits.
CommitDelete(r) ==
  /\ At(r, "settle")
  /\ Discharge(ChargeOf(r))
  /\ DeleteRows(req[r].ids)
  /\ LET some == req[r].ids \cap Existing # {}
     IN /\ Go(r, AfterDelete(r, some))
        /\ burned' = IF some /\ req[r].op \in {"burn", "playback"}
                     THEN burned \cup {[user |-> req[r].user, row |-> Row(r)]} ELSE burned
  /\ doubled' = doubled \cup {u \in Users : req[r].charge[u] # Charge(req[r].ids)[u]}
  /\ UNCHANGED <<disk, seq, world, caches, taken, raced, scene>>

Unlink(r) ==
  /\ At(r, "unlink")
  /\ RemoveFiles(req[r].files)
  /\ Move(r, IF req[r].op \in {"delete", "deletemany"} THEN "finish" ELSE "refresh")
  /\ UNCHANGED <<videos, storage, seq, attached, world, caches, history>>

Finish(r) == At(r, "finish") /\ Done(r) /\ Quiet

\* sweep_missing_video_files
ListMedia(r) ==
  /\ At(r, "list")
  /\ Go(r, [To(r, "exists") EXCEPT !.rows = {videos[v] : v \in ListLocalVideoMedia}])
  /\ Quiet

MissingOf(rows) == {row.id : row \in {row \in rows : row.file \notin disk}}

CheckFiles(r) ==
  /\ At(r, "exists")
  /\ Go(r, [To(r, "nextmissing") EXCEPT !.todo = MissingOf(req[r].rows), !.rows = {}])
  /\ Quiet

NextMissing(r) ==
  /\ At(r, "nextmissing")
  /\ LET todo == req[r].todo
     IN IF todo # {} THEN Go(r, [To(r, "tx") EXCEPT !.ids = {Min(todo)}, !.todo = todo \ {Min(todo)}])
        ELSE Move(r, IF req[r].any THEN "refresh" ELSE "finish")
  /\ Quiet

-----------------------------------------------------------------------------
(***************************************************************************)
(* Watching and burning.                                                   *)
(***************************************************************************)
BurnThreshold == 90

IsWatchComplete(report) ==
  IF report.of > 0 THEN report.at * 100 >= report.of * BurnThreshold ELSE report.at > 0

IsAtEnd(report, length) ==
  /\ length > 0
  /\ LET server == length * 1000 + 999
         client == IF report.of > 0 THEN report.of ELSE server
     IN report.at + 500 >= Min({server, client})

\* burn_after_watch: the video, then the progress of the one who asks.
BurnRow(r) ==
  /\ At(r, "burnrow")
  /\ LET rows == FindById(req[r].video)
     IN IF rows = {} THEN Done(r)
        ELSE Move(r, IF \E row \in rows : IsImageSource(row) THEN "burnrecord" ELSE "progress")
  /\ Quiet

ProgressStep(r) ==
  /\ At(r, "progress")
  /\ IF \E p \in GetPlaybackData(req[r].user, req[r].video) : IsWatchComplete(p)
     THEN Move(r, "burnrecord") ELSE Done(r)
  /\ Quiet

\* A mutant: whoever watched it may burn it.
MayBurnAnyone(u, row) == IsImageSource(row) \/ row.length > 0

MayBurn(u, row) == (IsImageSource(row) \/ row.length > 0) /\ OwnerOrAdmin(u, row)

BurnRecord(r) ==
  /\ At(r, "burnrecord")
  /\ LET rows == {row \in FindById(req[r].video) : MayBurn(req[r].user, row)}
     IN IF rows = {} THEN Done(r)
        ELSE Go(r, [To(r, "variants") EXCEPT !.rows = rows, !.ids = {req[r].video}])
  /\ Quiet

ListVariants(r) ==
  /\ At(r, "variants")
  /\ Go(r, [To(r, "tx") EXCEPT !.files = FilesOf(Row(r)) \cup
                                            {VariantOf(v) : v \in variants \cap {req[r].video}}])
  /\ Quiet

\* update_playback_history: a report beyond the length of the video is refused.
TooFar(report, row) ==
  /\ row.length > 0
  /\ report.of > row.length * 1000 + 1000 \/ report.at > row.length * 1000 + 1000

CheckReport(r) ==
  /\ At(r, "check")
  /\ IF \E row \in FindById(req[r].video) : TooFar(req[r].report, row)
     THEN Done(r) ELSE Move(r, "atend")
  /\ Quiet

AtEnd(r) ==
  /\ At(r, "atend")
  /\ LET ends == \E row \in FindById(req[r].video) : IsAtEnd(req[r].report, row.length)
     IN Go(r, [To(r, "upsert") EXCEPT !.ends = ends])
  /\ Quiet

\* One report in ten seconds, of a user about a video.
ShouldWrite(u, v) == <<u, v>> \notin throttled

\* The last report is written whatever was written before; should_write counts a
\* report whose video is gone, which the database then refuses.
Upsert(r) ==
  /\ At(r, "upsert")
  /\ LET u == req[r].user
         v == req[r].video
         skips == ~req[r].ends /\ ~ShouldWrite(u, v)
         refused == ~skips /\ v \notin Existing
     IN /\ throttled' = IF req[r].ends THEN throttled ELSE throttled \cup {<<u, v>>}
        /\ IF skips \/ refused THEN UNCHANGED <<progress, watched>>
           ELSE /\ UpsertPlayback(u, v, req[r].report)
                /\ watched' = IF req[r].ends \/ IsWatchComplete(req[r].report)
                              THEN watched \cup {<<u, v>>} ELSE watched
        /\ IF req[r].ends /\ ~refused THEN Move(r, "burnrecord") ELSE Done(r)
  /\ UNCHANGED <<videos, storage, disk, seq, variants, marks, comments, tagged, spoiled, items, shares,
                 danmaku, tasks, sessions, usage, lists, caches, history, scene>>

ViewStep(r) ==
  /\ At(r, "view")
  /\ IncrementViews(req[r].video)
  /\ Done(r)
  /\ UNCHANGED <<storage, disk, seq, attached, world, caches, history, scene>>

EditStep(r) ==
  /\ At(r, "edit")
  /\ EditVideos(req[r].ids)
  /\ Go(r, [To(r, "refresh") EXCEPT !.any = TRUE])
  /\ UNCHANGED <<storage, disk, seq, attached, world, caches, history, scene>>

\* A heartbeat asks for no video.
SessionStep(r) ==
  /\ req[r].at \in {"start", "heartbeat", "stop"}
  /\ LET u == req[r].user
         v == req[r].video
         starts == \E row \in FindById(v) : OwnerOrAdmin(u, row)
     IN sessions' = CASE At(r, "stop") -> Forget(u, v)
                      [] At(r, "start") /\ ~starts -> sessions
                      [] OTHER -> Track(u, v)
  /\ Done(r)
  /\ UNCHANGED <<videos, storage, disk, seq, attached, tasks, throttled, watched, usage, lists, caches,
                 history, scene>>

-----------------------------------------------------------------------------
(***************************************************************************)
(* Upsets: requests are dropped, time passes, and files come and go.       *)
(***************************************************************************)
\* The files that only the request r would still bring into the table or remove.
Loose(r) == CASE At(r, "save") -> {req[r].file}
              [] req[r].at \in {"discard", "unlink"} -> req[r].files
              [] OTHER -> {}

\* The entries that show what r changed, and that r has still to take out.
Stale(r) ==
  LET V == {v \in Videos : req[r].any /\ (v \in req[r].ids \/ req[r].op = "sweep")}
  IN {<<"detail", v>> : v \in {v \in V : detail[v] # NoVideo /\ Gone(detail[v])}} \cup
     {<<"list", u>> : u \in {u \in Users \cup {0} : (listed[u] \cap V) \ Existing # {}}}

\* A request ends where it is: its time is up, its connection is closed, a statement
\* fails or its answer is lost.  What runs in the background goes on, or is lost too.
Drop(r) ==
  /\ ~At(r, "idle") /\ Upset(Loose(r))
  /\ late' = late \cup Stale(r)
  /\ Done(r) \/ (At(r, "saved") /\ Move(r, "thumbnail"))
  /\ UNCHANGED <<videos, storage, disk, seq, attached, world, detail, listed, history>>

TimePasses ==
  /\ Upset({})
  /\ throttled' = {} /\ sessions' = {}
  /\ detail' = [v \in Videos |-> NoVideo]
  /\ listed' = [u \in Users \cup {0} |-> NoList]
  /\ late' = {}
  /\ UNCHANGED <<videos, storage, disk, seq, attached, tasks, watched, usage, lists, history, req>>

LoseFile ==
  /\ Upset({})
  /\ \E f \in disk : f.kind = "media" /\ disk' = disk \ {f} /\ taken' = taken \cup {f}
  /\ UNCHANGED <<videos, storage, seq, attached, world, caches, doubled, raced, burned, req>>

RestoreFile ==
  /\ Upset({})
  /\ \E f \in taken \ disk : disk' = disk \cup {f}
  /\ UNCHANGED <<videos, storage, seq, attached, world, caches, history, req>>

Serve(r) ==
  \/ Refresh(r) \/ InvalidateFirst(r) \/ DetailStep(r) \/ GetRow(r) \/ Fill(r) \/ ListStep(r) \/ FillList(r)
  \/ HashStep(r) \/ RenameStep(r) \/ SaveStep(r) \/ Saved(r) \/ SaveFails(r) \/ Discard(r) \/ ExternalStep(r)
  \/ ThumbnailStep(r) \/ FfmpegStep(r) \/ CoverUrl(r) \/ ScaleCover(r) \/ ThumbUrl(r) \/ CoversStep(r)
  \/ NextCover(r) \/ TmpCover(r) \/ PlaceCover(r) \/ NewCover(r) \/ NoExifStep(r) \/ ReadExif(r)
  \/ UrlsStep(r) \/ ReadDir(r) \/ Adopt(r)
  \/ DelRow(r) \/ BeginDelete(r) \/ CommitDelete(r) \/ Unlink(r) \/ Finish(r)
  \/ ListMedia(r) \/ CheckFiles(r) \/ NextMissing(r)
  \/ BurnRow(r) \/ ProgressStep(r) \/ BurnRecord(r) \/ ListVariants(r)
  \/ CheckReport(r) \/ AtEnd(r) \/ Upsert(r) \/ ViewStep(r) \/ EditStep(r) \/ SessionStep(r) \/ Drop(r)

\* What a user is charged is the size of the videos that are there, unless two
\* deletions of one video both subtracted it: the second one started its update,
\* and so read the sizes, before the first one committed.
StorageMatches == \A u \in Users \ doubled : storage[u] = Charge(Existing)[u]

\* No two videos share a file, where the deletion of one takes the file of the
\* other, unless a scan came across an upload or another scan.
OneRowPerFile == \A v, w \in Existing :
  v # w /\ IsLocal(videos[v]) /\ videos[v].file = videos[w].file => videos[v].file \in raced

\* A video that the library shows can be played: its file is there, unless it was
\* lost on the disk or a scan adopted it from under another request.
RowHasFile == \A v \in Existing :
  IsLocal(videos[v]) => videos[v].file \in disk \cup taken \cup raced

\* Both: each video has its own file, and has it on the disk.
EachHasItsFile == OneRowPerFile /\ RowHasFile

\* When nothing is under way, every uploaded file on the disk belongs to a video:
\* neither a refused upload nor a deletion leaves one behind, unless its removal
\* failed, or the request was dropped before it came to it.
NoOrphanMedia == (\A r \in Requests : At(r, "idle")) =>
  \A f \in disk : f.kind = "media" =>
    f \in taken \cup scene.left \/ \E v \in Existing : videos[v].file = f

\* Only its owner or an administrator burns a video, and only who reported to have
\* watched it to the end; images have no end.
BurnedWasWatched == \A b \in burned :
  /\ OwnerOrAdmin(b.user, b.row)
  /\ IsImageSource(b.row) \/ <<b.user, b.row.id>> \in watched

\* The caches show a video that is gone, or as it was before it was edited, only
\* while the one who changed it has still to empty them, when the one who changed it
\* was dropped before that, or when the entry came late: after the caches were
\* emptied, from rows that were on their way out.
ShownIsThere ==
  /\ \A v \in Videos : detail[v] # NoVideo /\ Gone(detail[v]) => <<"detail", v>> \in late \/ Refreshing(v)
  /\ \A u \in Users \cup {0} : listed[u] # NoList =>
       \A v \in listed[u] \ Existing : <<"list", u>> \in late \/ Refreshing(v)

LibraryNext ==
  \/ \E r \in Requests : Arrive(r) \/ Serve(r)
  \/ RunTask \/ TimePasses \/ LoseFile \/ RestoreFile
=============================================================================
