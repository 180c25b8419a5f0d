# Formal models of lan-video

TLA+ models of the parts of lan-video in which order, failure and concurrency
matter, checked with TLC on small instances, and theorems about them checked
with TLAPS.  The sources are under `src/`; the backend is a Rust service
(axum, sqlx, PostgreSQL, Redis) and the web application is TypeScript.

## 1. The system and its parts

| part | state it keeps | operations | hard behaviour |
|---|---|---|---|
| Transcode queue, `services/task_queue.rs` | an in-memory queue, one worker per process, retry counts and timers; tables `transcoding_jobs`, `video_variants` | submit, run, persist, retry, dead-letter, recover | failed statements, crashes, restarts, several processes on one database |
| Transcoder, `services/transcoder.rs` | variant files, HLS playlists, a set of videos in flight per process, a lock in Redis per video | transcode, delete variant, HLS | partial output, lock expiry, crashes, Redis errors |
| Admin transcode endpoints, `handlers/admin/admin_transcode.rs` | none of their own | submit, cancel, delete variant | interleaving with the worker |
| Upload sessions, `services/media_service/`, `handlers/admin/admin_video.rs` | a slot per (uploader, hash) with a running hash; a temporary file | status, chunk, finalize, sweeps | retries, dropped requests, restarts, sweeps |
| Upload client, `webapp/src/pages/Upload` | offset, attempts, mismatches | status, chunk loop, finalize | timeouts, corrections by the server |
| Videos and quota, `repositories/video_repo.rs`, `services/video_service.rs`, `handlers/videos.rs` | `videos`, the storage charged to each user, media files, caches of details and lists | save under quota, scan, edit, burn, delete, sweep missing files | row locks, files and rows that disagree, stale caches |
| Playback, `services/playback_service.rs`, `handlers/playback.rs`, `state.rs` | progress, playback sessions, views, likes, favourites | report, view, toggle | reports that arrive while the video goes |
| Comments, tags, playlists, shares, danmaku | one or two tables each | add, remove, reorder, merge into a tree | checks and writes in different statements, cascades |
| Accounts and tokens, `services/auth_service.rs`, `repositories/user_repo.rs`, `handlers/auth.rs`, `middleware/auth` | users, tokens, mailed links, a token cache, media sessions in memory and Redis | register, log in and out, guests, verify, reset, administer | caches against revocation, concurrent logins, dropped requests |
| Gateway login, `services/gateway_service.rs` | pending flows and exchange codes in memory | start, callback, exchange | expiry, eviction, concurrent first sign-in |
| Access to media, `middleware/auth/media.rs`, `middleware/hotlink.rs` | caches of users, videos and chat references | judge a request | facts that change between the steps |
| Rate limits and bandwidth, `middleware/rate_limit.rs`, `share_rate_limit.rs`, `upload_bandwidth.rs` | windows in Redis or memory, buckets | check, reset, clean up | Redis going away and coming back |
| Redis connection, `services/redis.rs` | a connection that appears late | connect, retry | start before Redis |
| Chat, `services/chat_service.rs`, `chat_video.rs`, `state.rs`, `handlers/chat.rs`, `webapp/src/pages/Chat` | messages, members, a broadcast channel, files under `media/chat` | join, leave, send, delete, clear, upload | two tabs of one user, lagging receivers, crossing events, dropped uploads |
| Recommendations and search, `services/recommendation_service.rs`, `search_service.rs` | a page cache with one lock per key, trending scores | feed, pages, search, suggestions, rescoring | loads that meet, batches over a moving table |
| Administration, logs, metrics, mail, EXIF, configuration | counters and files | reads | none |

The parts meet in four places.  The upload handlers save a row and a file that
the video service, the transcode queue and playback read.  The admin endpoints
write job rows that the queue's worker reads, and hand it tasks through memory.
Several backend processes share the database and the media directory, and share
no memory.  The browser drives the upload sessions over requests that may time
out while they are still being served.

`PROJECT.json` lists every part with what is modelled of it, and under
`hazards` what is hard to test in this code, each at its line.

### What makes each part correct

* Transcode queue: no job is lost or stuck, each is settled in the end; a
  completed job is playable; a cancelled job is not revived behind the admin's
  back.
* Upload sessions: the stored file is the content that was announced; success
  is reported only for what is stored; every upload ends; tabs that upload the
  same content do not make each other fail.
* Videos: a user is charged for the videos that are there; each video has its
  own file, and a deleted or refused one leaves none; only what was watched is
  burned; what is shown is there.
* Comments, tags, playlists: comments keep their two levels, positions are
  distinct, counts are counts.
* Accounts: a revoked token is not accepted; one session per viewer; old
  passwords and old addresses are worth nothing; the gateway leaves no
  half-made account and signs in the right one.
* HLS: one writer per output directory, and no video refused for ever.
* Rate limits: no more passes than the policy says, whichever store counts.
* Chat: pages agree with the stored messages, the list of members with the open
  connections, the files with the answers.
* Access to media: nothing is served that was not allowed.
* Recommendations and search: no one else's videos, no duplicates, one load per
  page, scores that follow the age.

## 2. The modules

| module | extends | models |
|---|---|---|
| `TranscodeQueue` | | the queue, its worker and the admin endpoints |
| `TranscodeJobs` | | what the queue promises of its jobs; `TranscodeQueue` implements it |
| `UploadSession` | | the resumable upload of one content, both ends |
| `UserStore` | | the account tables, their statements, the token cache |
| `Accounts` | `UserStore` | the requests on accounts and the media sessions |
| `GatewayLogin` | `Accounts` | login through the gateway, with all of the above around it |
| `VideoStore` | | the video tables, their statements, the disk |
| `VideoLibrary` | `VideoStore` | the requests on videos, the caches, the background tasks |
| `Community` | `VideoLibrary` | what users attach to videos, with all of the above around it |
| `ChatRoom`, `ChatUploads` | | the chat, and the files sent to it |
| `HlsRuns` | | the exclusion around HLS renditions |
| `Throttling` | | the rate limiter and the bandwidth bucket |
| `MediaAccess` | | who is served a media file |
| `Discovery` | | feeds, pages, search, suggestions, scores |

`MC...` modules instantiate them for TLC, `...Proofs` modules hold the theorems.
`MCServices` extends the last six, which share no state, and lets `Init` choose
the one that runs.  Modules have their parameters and bounds as CONSTANTS, one
action per statement or stretch of code between two awaits, and no recursive
operator, so that they can be proved about.

What could come next, in this order: liveness of the chat uploads and of the HLS
runs; the upload protocol without offsets; and the refresh of logins in the web
application.

## 3. TranscodeQueue

### Correspondence

| in the model | in the code |
|---|---|
| `status`, `rank`, `stale` | `transcoding_jobs`: status, id (its order), `started_at` more than ten minutes ago |
| `variant`, `flagged` | `video_variants`, `videos.has_variants` |
| `file`, `input` | variant files that are complete, media files that exist |
| `queue[i]`, `retries[i]`, `waiting[i]` | `TaskQueue.queue` and the worker's two maps in process i; `waiting` holds the timers still running |
| `pc[i]`, `task[i]`, `todo[i]`, `left[i]`, `found[i]` | where the worker is, and its locals |
| `apc[a]`, `call[a]` | an admin request under way |

Every SQL statement is an action, because the code awaits it and runs no
transaction around several of them.  `transcode_video` is `Submit` (the revival),
`Insert`, `Pick`, `Add`; `run_task` is `ReadPending`, `MarkProcessing`,
`StartTranscode`, `TranscodeOk` or `TranscodeFails`, then `UpsertVariant` for
each variant, `SetFlag`, `CompleteJobs`, or `ResetJobs`, `ScheduleRetry`,
`DeadLetter`.  Start-up recovery is `RecoverReset`, `RecoverLoad`,
`RecoverPush`.  A crash loses a process's memory and its requests.  A failed
statement is `DbError` where the code has an error path for it.

Abstracted: resolutions are a set rather than strings; a backoff is a timer that
runs out at some time; ffmpeg is a run that truncates its outputs and finishes
all, some or none of them.  Left out: the deletion of a video, whose job rows go
by cascade; the listing endpoints; `process_next`, `get_queue_size` and
`clear_queue`, which nothing calls.

### Runs

| run | instance | shows |
|---|---|---|
| `queue_uniform` | one process, two resolutions, two admins, three submissions of both resolutions, three attempts, no fault, deletions of one variant | `PendingOwned`, `ProcessingOwned`: no interleaving loses a job or leaves it looking busy; `EventuallySettled` under fairness |
| `queue_faults` | one process, one admin, two submissions of any resolutions, two attempts, room to track one job, a failed statement, a crash, a lost media file | `BookkeepingOwned`, `CompletedRecorded`, `RecordedOnDisk`, `FailedStaysDown` |
| `queue_two` | two processes on one database, one resolution, one admin, two requests, a failed statement, a crash | `JobsPromised`: the queue implements `TranscodeJobs` |
| `queue_restart` | one process, one submission, one crash | violated: `RestartRecovers` |
| `queue_mixed` | one process, one admin, two submissions of any resolutions | violated: `PendingOwned` |

The bounds are enough for the cases that matter: two resolutions let a task
cover part of a video's rows, two admins let a submission arrive at any point of
another, two attempts let a task be retried and then dead-lettered, one video
suffices because nothing the queue does relates the rows of two videos except
the order of the queue, and two processes let one recover while the other runs.
All safety properties are proved for every value of the constants, two of them
for one process only (section 8).

`ProcessingOwned`, `PendingOwned`, `RecordedOnDisk` and `EventuallySettled` are
about behaviours without a failed statement or a crash: the code logs the errors
of `reset_jobs_to_pending` and `dead_letter` and does nothing else about them, and
recovery takes back only rows that are old enough, so with faults a row may stay
`processing`.  `PendingOwned` excuses a process that has
not finished its start-up, which has yet to look for pending rows, so what
violates it is a row that the running worker will not find.  `CompletedRecorded` and `RecordedOnDisk` are checked where no
variant is deleted, since a deletion removes what they ask for.

### The abstract specification

`TranscodeJobs` knows no queue, no retries and no program counters: a job has a
status, a variant may be `recorded` and a video `offered`, and an instance is
`running` some jobs of one video.  It says that jobs are picked only when they
are pending, marked only while they still are, and completed only by their own
run, after all of its variants are recorded and the video is flagged; that what
is cancelled or given up is revived by a submission alone; and that anything
marked may be handed back at any time by a run of the same video that failed,
or by a process that starts.  `JobsPromised` maps `recorded` to `variant`,
`offered` to `flagged` and `running[i]` to the jobs of `task[i]` in `todo[i]`:
what the worker read as pending, until its run ends.  It is a safety
specification and holds where no variant is deleted: after a deletion a run may
record a variant, see the flag cleared and still complete.

### Fairness

`WF` on each worker, on its timers, and on each admin request.  The
runtime polls every task that is ready, tokio timers fire, and a handler whose
statements return goes on.  Nothing is assumed of submissions, cancels, crashes
or failures.

### Findings

* A process restarted within ten minutes of a crash leaves its interrupted job
  `processing` (`queue_restart`), although the comment on `start_worker`
  promises recovery.
* Two submissions with different resolutions, one after the other, collapse onto
  the task of the first, and the rows of the second wait for the next restart
  (`queue_mixed`): the worker of the trace has finished its start-up.

Two more disagreements are visible in the model and have no run of their own.
When the reset after a failed attempt fails as well, its error is only logged
(`task_queue.rs:377-388`), the retry finds no pending row and drops the task, and
the row stays `processing`, which is what the comment at `task_queue.rs:365-367`
says the reset prevents.  And a
second process that starts while a run is older than ten minutes takes the live
job back (`RecoverReset` with `Age`), although the comment at
`task_queue.rs:556-559` says that it does not happen; `TranscodeJobs` has
`TakeBack` for it, and `JobsPromised` says what holds all the same.

## 4. UploadSession

### Correspondence

| in the model | in the code |
|---|---|
| `tmp`, `tmpOld` | the file `.upload_<uploader>_<hash>`; its mtime is older than `UPLOAD_TEMP_TTL` |
| `current`, `slots` | the entry of `upload_slots` for the key, and the `UploadSlot`s that requests may still hold |
| `slots[s].hashed` | `hasher` and `size`: the units hashed so far |
| `handler[h]` | a request: the await it is at, its body and offset, its handle, and the file it has renamed |
| `client[c]` | a tab in the loop of `uploadSingleFile` |
| `row`, `stored` | the row with this uploader and hash, and the file it points at |
| `ever` | history: such a row has existed |

A status query is `Lookup`, `GetHandle`, `Permit`, `Report`.  A chunk is
`Permit`, `GetHandle`, then, once the slot's lock is had, one of `Overfull`,
`Replay`, `Reupload`, `Accept`, `Finalize`; `Accept` is followed by `Write`, and
the last chunk by `CheckDuplicate`, `Move`, `Save`, each with its errors.  The
lock is held in the steps `Inside`.  The tab reacts to a reply in the step that
makes it: what a tab does with a reply is invisible to the others until it sends
again, so nothing is lost by joining the two.  A reply that never arrives is a
`Leave` before the reply; the request goes on without its tab.

*Faults* are what the code handles: errors of the database or the disk, a full
quota, garbled data, a timeout, a tab that is closed or suspended, a dropped
request, a crash.  *Upsets* are seven events that the code is exposed to, each
allowed by name in a configuration: a write cut short (`torn`), a temporary file
swept while a slot counts on it (`swept`), a slot swept between a request's
taking its handle and its lock (`detached`), a commit whose confirmation is lost
(`unacked`), a deletion of the video (`deleted`), and two errors that the code
takes no notice of: a removal of the temporary file that fails after its slot was
reset (`leftover`; `session.rs:260`, `279`, `375`, `413`), and a temporary file
whose metadata, or whose being there, cannot be read and which is taken for none
(`unseen`; `session.rs:160`, `394`).

Abstracted: a hash is the sequence that was hashed, so hashes collide never; a
chunk has any length from one unit to the rest of the content; the size limits,
the type check and the category check are one refusal; the times to live only
say that a request is shorter.  A file operation that the runtime's blocking
pool has begun is taken to end before another request gets the slot's lock.
The API layer's own retries of the status query are taken to have failed when
the query fails.  Left out: the protocol without offsets for old clients, the
whole-file multipart upload, several processes (slots are per process), what
happens after the save in the background (thumbnail, duration, EXIF).

### Runs

| run | instance | shows |
|---|---|---|
| `upload_shared` | two tabs, three requests, two units, two faults, no upset, three starts | `StoredIntact`, `HashMatchesFile`, `DoneMeansStored`; without faults `UndisturbedSucceeds` (for two tabs; more can use up a tab's attempts) |
| `upload_upsets` | one tab, two requests, one permit, two faults, one upset of any kind | `UploadEnds` under fairness, `DoneWasStored` |
| `upload_torn` | one tab, one fault, a torn write | violated: `StoredIntact` |
| `upload_deleted` | one tab, a deletion | violated: `DoneMeansStored` |

The disk errors among the faults of `upload_shared` are those the code answers to;
a removal that fails unnoticed and a file that is not seen are upsets, and the
stored file is not what was sent after them (see the findings).  `upload_upsets`
has them.

Two units are the least for which a chunk may be first, last, both, repeated or
out of place; three requests let a timed-out request and its retry meet the
other tab; two faults let a failed recovery from a failure happen; one attempt
fewer than the code's three only shortens the loop.  `TimePasses` needs all
requests to be over, because the times to live (ten minutes and a day) are
longer than the timeouts of a tab (three minutes), and counts as a fault when a
tab is in its loop, which it can then only be because it was suspended.

Fairness: `WF` on serving each request and on each tab's loop.  The runtime
polls requests, and a tab whose reply has come sends the next chunk.

`UndisturbedSucceeds` says of itself that there are at most two tabs and that the
content is not much longer than the number of attempts: each chunk of another
tab that lands first costs a mismatch, so a third tab, or a content of many short
chunks, can use up the attempts of a tab although nothing fails.

### Findings

* A write cut short corrupts the stored file without any error (`upload_torn`).
  The running hash is compared, and the file is not.
* A video deleted and uploaded again within ten minutes is reported as uploaded
  and is not stored (`upload_deleted`).

A slot that is reset while the removal of its temporary file fails (the upset
`leftover`), or that takes its file for none (`unseen`), corrupts the stored
file in the same way as a torn write: the next upload of the content is appended
after the old bytes.  With one of them in the place of `torn`, and a second
start of the tab for `leftover`, `upload_torn` ends in the same violation.

A pause of a day can corrupt the file as a torn write does (the upset `swept`,
against the comment at `media_service/mod.rs:111-112`): the sweep looks at the
file's mtime and a status query refreshes only the slot.

## 5. Accounts and gateway

### Correspondence

| in the model | in the code |
|---|---|
| `users`, `tokens`, `links` | `users`, `auth_tokens`, `password_reset_tokens` and `email_verification_tokens` |
| `cache` | `TOKEN_CACHE`, per token the row it was read with |
| `local`, `redis`, `index` | `media_auth_cache`, the keys `media:auth:<token>`, the members of `media:auth:user:<id>` |
| `pending`, `codes` | `PENDING` and `EXCHANGES` of the gateway service |
| `req[r]` | a request: the step it is at, and its locals |
| `late`, `orphaned`, `proof`, `opened`, `evicted`, `scene.left` | history: entries cached after an invalidation, media sessions put between the two steps of one, what proved an address, accounts the gateway opened, codes evicted, accounts that a failure or a dropped request left half-made |

Ids are issued in order, and as a bound nothing is created beyond the last of
`Accounts`, `Tokens` and `Links`.  A request steps from one await to the next.  Redis is taken to be configured and
reachable (without it the media sessions are in memory only and go by their time
to live, as `MediaAfterTTL` lets them).  The external gateway may answer with
any subject and any address.  Where the scenario allows upsets, a request may be
dropped at any step, as `with_timeout`, a disconnection or an error that it
returns do (`Drop`), and a statement may fail whose error the code logs or ignores
before it goes on: `Ignore` has the merge of a guest, the deletion of a token at
logout and the two commands of Redis in an invalidation, of which a failed
`SMEMBERS` is taken for an empty set; `GoOn` has the gateway's revocation of older
sessions, its deletion of an account it could not link, its approval and its
address (`gateway_service.rs:396-398`, `479-497`), and the error on linking that
ends the login after such a deletion.  A pipeline of Redis is taken to be done as a
whole or not at all.

### Run `accounts`

Two requests at a time, with two or three calls, in scenarios that start from
named accounts, sessions and mailed links: an empty installation; administrators
against a user's own requests, without and with drops and restarts; approval and
roles; media sessions; changes of address; resets of passwords; a guest who signs
in; and the gateway next to registrations, changes of address and deletions.
Two requests are the least for which one can be between two steps of another,
and the third call makes the next generation (a link sent again, a login after
a reset).

* `CachedUnlessLate`: what was revoked leaves the token cache with the request
  that revoked it.  Excused, since the code allows them: a lookup that read
  before and fills after (`user_repo.rs:360-391`), logout emptying the cache
  before its `DELETE` (478-483), and a request dropped between the two.
* `MediaIndexed`: no media session escapes the next revocation of its user,
  unless it was put between `SMEMBERS` and `DEL` (`media.rs:84-103`, `128-155`), or
  the `SMEMBERS` failed and the `DEL` took the set away.
* `Superseded`: two live sessions of a viewer come from logins that overlap, or
  from a gateway login whose revocation failed.
* `OldPasswordOut`: sessions of an old password do not outlive its change.
  Excused: a login that verified the old one and was under way.
* `VerifiedWasMailed`: a verified address was proved by a link mailed to it.
  Excused: `consume`, then a change, then `verify`; and a change between reading
  the address and storing the link.
* `NoOrphanAccount`: concurrent first sign-ins leave no account that is not linked
  and approved.  Excused are the accounts, one by one, whose own deletion or
  approval failed or whose own request was dropped, since the code leaves those.
* `GatewayRight`: sessions belong to the account that is linked to the subject, and
  eviction takes the oldest code.

Two first registrations can both become administrators (`auth_service.rs:87`): the code
counts and inserts in two statements, and no property is stated about it.

## 6. Videos and what is attached to them

### Correspondence

| in the model | in the code |
|---|---|
| `videos`, `storage`, `variants`, `progress` | `videos`, `users.storage_used_bytes`, `video_variants`, `playback_history` |
| `disk` | the media directory: media files, covers, thumbnails, variants |
| `detail`, `listed` | `video_detail_cache`, `video_cache` |
| `tasks`, `sessions`, `throttled` | the tasks spawned after an upload, `PlaybackSessionTracker`, `last_writes` |
| `comments`, `usage`, `tagged`, `items`, `shares` | their tables |
| `doubled`, `raced`, `taken`, `late`, `shuffled`, `spoiled`, `burned`, `watched`, `scene.left` | history the properties refer to |

`batch_delete_videos` is a transaction that other statements meet half-way, so it
is two steps: `BeginDelete` takes the rows that refer to the videos and the sums
by uploader, waits where another deletion has rows it wants, and `CommitDelete`
does the rest.  The other transactions lock one row first and are one step.

Where a scenario allows upsets, files are lost and restored, any request may be
dropped where it is (`Drop`: its time is up, its connection is closed, a statement
fails), and a removal of files may fail (`RemoveFiles`), which the code logs or
ignores.  A crash of the process is not a step of its own: it drops the
requests, which `Drop` does one by one, and empties the caches, which `TimePasses`
does.

Of comments, what is stored is modelled; how a page loads them changes no state and
is left out, with the cache of the client.

### Run `library`

Two requests at a time, two or three calls, thirteen scenarios: uploads and
deletions; the quota; a scan next to uploads, covers and deletions; every way to
delete one video while its file comes and goes; watching to the end (as owner,
as another, pictures, sessions); caches; administrators' repairs; comments;
tags; playlists; and shares, likes, favourites and flying comments.

* `StorageMatches`: users are charged for the videos that are there.  Excused:
  two overlapping deletions of one video, which subtract it twice.
* `EachHasItsFile`: no two videos share a file and none lacks it, unless a scan
  adopted it from under another request, or it was lost on the disk.  A scan may
  also adopt a picture that outlived its video and whose name a later picture of
  that video could take; such a file is counted as spoken for.
* `NoOrphanMedia`: with nothing under way, every media file has a video.  Excused,
  file by file: one whose own removal failed (`video_service.rs:256-262`,
  `594-600`, `646-652`, `media_service/mod.rs:361-376`), and one that a request
  dropped before `save`, before the removal or at it had in hand.
* `BurnedWasWatched`: burned by its owner or an administrator, who reported to
  have watched it.  The length is the client's own (`is_watch_complete`).
* `ShownIsThere`: caches show what is gone only until it is their turn to be
  emptied, or when they were filled late.  `delete_video` and `delete_videos`
  empty them *before* the deletion (`admin_video.rs:748`, `803`), so they are
  filled with what is on its way out.  Edits and burns empty them afterwards, and a
  reader that took the row before can still fill them with it.  Excused too: what a
  request that was dropped after its commit had still to take out of the caches
  (`Stale`), for instance between `video_service.rs:268` and `videos.rs:471`.
* `CommunityRight`: comments keep to two levels (a reply hangs on a comment of its
  video that is there and no reply), positions in a
  playlist are distinct, counts of tags are the number of videos.  Excused:
  a reorder whose playlist changed after the check, and the deletion of a video,
  which leaves the counts of its tags (`video_tags` goes by cascade).

Seen on the way, without a run: not every stored comment can be loaded.
`list_comments` counts pages from 1 and takes page 0 for page 1
(`comment_service.rs:55`), against its own comment (`:38`) and the endpoint's
("0-indexed", `handlers/comments.rs:53`), while the web page asks from 0
(`Comments.tsx:69-73`): with more than one page it gets the first page twice and
stops before the last.  Replies are cut at 50 (`comment_repo.rs:139`) and nothing
asks for the rest, although `handlers/comments.rs:90` speaks of all of them.  The
sweep is said to be hourly (`app.rs:365-368`) and runs every 600 s; a scan knows only `stream_url`s and so
adopts generated covers as new pictures (`video_repo.rs:1439-1446`).

## 7. Services

`MCServices` runs six modules one at a time; their state is disjoint.

* **`ChatRoom`**: three tabs of two users, two moderators, a feed that keeps two
  events.  A tab goes through the history request, its subscription and the
  events, and a lag skips what it missed.  Its page is closed and opened again
  while the connection stays; the answer of the history is then taken from the
  client's cache for 30 s, or from the request that is still under way
  (`client.ts:428-435`), and no event empties that cache.  `PageAgrees`: a tab that
  has taken every event shows the stored messages, but for what went past it (a
  lag, the answer of the history overwriting live events, a message whose
  announcement and removal crossed, and what changed between the reading of an
  answer and a reopening that found it kept: a page reopened within 30 s does
  miss it).  `OnlineRight`: the members are the users with an open
  tab.  Excused: closing one of two tabs of a user takes the user out
  (`state.rs:210`), two changes of the list whose broadcasts overlap, and a lag
  over the last one.
* **`ChatUploads`**: three uploads, two permits, one client that leaves.
  `ChatFilesAccounted`: files are those of requests under way and of answers.
  Excused: what a dropped request or a half-failed write leaves, and the files
  whose own removal failed, since the code ignores that everywhere (`chat.rs:452`
  to `539`, `chat_video.rs:199` to `256`), or that nothing tries to remove
  (an output whose metadata cannot be read).
* **`HlsRuns`**: two processes, three runs, two renditions, two upsets (a Redis
  error, a crash, an expired lock, a dropped request).  `HlsExclusive`: two runs
  write at once only where one lost its lock, never in one process; and a video
  is refused only while a run is under way.  Excused: the request dropped while
  it waits for `SET` (`transcoder.rs:254-280`), which has no guard yet and leaves
  the video in the set until the restart.  A run may fail at the making of a
  directory, at ffmpeg or at the master playlist (`RunFails`); that the semaphore
  is closed is left out, as nothing closes it.
* **`Throttling`**: a policy with a block and one without, four ticks, five
  checks, Redis failing and appearing; a bucket of eight bytes.  `Throttled`
  bounds the passes between refusals: with `block_secs` 0, as the chat and the
  guest sessions have it, the counter restarts after each refusal, so "at most
  five in ten seconds" is not what the code keeps.  Each store is bounded by
  itself; a switch between them gives a fresh budget, which is not bounded.
* **`MediaAccess`**: one request and the one before it that warmed the caches,
  one change in between.  `ServedWasAllowed`: whatever is served was allowed by
  facts that held, or were cached, since the request came.
* **`Discovery`**: two requests, up to four videos, one edit, one round of the
  job.  The watched categories are any ten of them (`CategoryLimit`; the query has
  a limit and no order).  `FeedRight`: no duplicates, no more than the limit, preferred first, and
  no one else's videos.  `Coalesced`: one load per page.  `ScoresDecay`: a round
  rescores whatever was out of date, but for videos nobody viewed, which the
  query leaves out (against `app.rs:307-309`).  Also seen: a page size above 50
  is cut to 50 while its offset is not, so such pages skip videos.

In the three runs `accounts`, `library` and `services` every action fires.
Histories and excuses are variables that only the properties read: each excuse
names a race that the code has, so that the property still says what holds
outside it.  They are safety checks without fairness, and deadlock is not checked:
calls, flows, requests and upsets are bounded, so every behaviour comes to rest.

## 8. Proofs

For all values of the constants that satisfy the named assumptions:

`TranscodeQueueProofs`

* `TypeInvariant`: `TypeOK /\ Held`.  `Held` says that a busy worker has a task
  and a busy request its call; `TypeOK` alone is not inductive, because the
  actions read `task[i].id` and `call[a].key`.  `TypeCorrect` follows.
* `BookkeepingIsOwned`: `BookkeepingOwned`, from an equivalent form and
  `DeadForgotten` (a worker about to dead-letter has already forgotten its
  task's bookkeeping): without it the step that ends a dead-lettered run could
  leave an attempt count with no task.
* `FailedStaysFailed`: the action property `FailedStaysDown`, one step per
  action; only the statements that write `status` need an argument.
* `ProcessingIsOwned`: `ProcessingOwned`, from `OwnedInv`: the worker that marked
  a row has it among its rows, and at the reset among the rows to be reset.  That
  the reset covers them needs `todo` to stay within the task's resolutions.

* `PendingIsOwned`: `PendingOwned`, in one process, with one set of resolutions and
  no faults, from an invariant on pending rows: the row's task is queued, run or
  waiting, or some request is about to add it.  With two processes it is false
  when both restart while a variant is deleted: the first loads the row, the
  second recovers it as well, and the row of a cancelled run is left to neither.

The rest of `TranscodeQueueProofs` is about runs where no variant is deleted
(`Deletable = {}`):

* `QueueImplementsJobs`: `JobsPromised`, from `RunInvariant` (in each phase of a
  run, what has been recorded and flagged so far), the initial states and one
  step per action of the queue.
* `CompletedIsRecorded`: `CompletedRecorded`, from the same invariant and the
  fact that only the completion of a run makes a row completed.
* `RecordedStaysOnDisk`: `RecordedOnDisk`, in one process.  A run skips what is
  recorded, so no output it truncates or cleans up has a row.  With two processes
  it is false: one may start a run for a variant that the other records meanwhile.

`ServicesProofs`, of four of the small services:

* `HlsIsExclusive`, from `HlsInv`: a run that is under way has its process's entry
  in the set, one process has one such run, a run that encodes holds the lock or
  lost it to an upset, the status says `processing` only while a run writes or
  after one broke off, and an entry belongs to a run under way or was left by a
  dropped request.
* `OnlyAllowedIsServed`, from `Judged`: at each step, what has been found of the
  request so far, each fact at a time it held or was cached.
* `FeedsAreRight`: `FeedRight`, from `FeedInv`, for every catalogue of
  `DiscoveryAssumption` (ids are positive, limits at least one, and a score that is
  wrong at the start is so because the video has aged), every set of requests, every
  page and size, and whatever is edited between the statements.  The property is about
  the last step of an answer, so the invariant says what a request has found at
  each step before it (`FoundRight`), and what a page or a suggestion holds that
  another request left in a cache (`PagesRight`, `SuggestedRight`).  Rows are `Sound`
  when they are few enough, name no video twice, and those still in the table belong
  to who asked; edits keep that, because ids are given once and owners never change.
  A key names its user, so that whoever finds a page under it may see it
  (`SameAudience`).  The rest of a personal feed is read after the first part, maybe
  after an edit: it excludes the ids of the first part and its categories, and
  `Among` and `Ranked` say what is left of the order.
* `LoadsAreCoalesced`: `Coalesced`, from `LoadsInv`: two requests inside a lock
  are inside different ones, and a page that was loaded is in the cache or on its
  way there with the request that holds the lock that the table has for the key.  A
  new lock is one that nobody holds, of which there is always one (`LockLeft`).
* `ScoresAreDecayed`: `ScoresDecay`, from `DecayInv`: what was out of date when
  the round began is old since and, once the cursor is past it, right again, and a
  young video is never wrong.  That a batch leaves nothing behind it needs that the
  batch is the least ids that are due (`BatchIs`), with the greatest and the least
  number of a finite set from well-foundedness (`GreatestOf`, `LeastOf`).
* `LimitsHold`: `Throttled`, for every policy that lets an attempt pass at all (a
  `max_attempts` of at least two, as every caller has it: with one, nothing ever
  passes), every length of window and block, every range and every limit of bytes,
  and whatever clean-ups, resets, restarts and failures of Redis come in between.
  `ThrottleInv` reads the entry in memory and the two keys in Redis as one thing, a
  gate (whether it counts, how far, until when, and until when it is shut), and says
  of every window, not only those that begin at a tick of the log, how what has
  passed and was refused in it relates to the gate (`Fits`): an entry that began
  inside the window has counted what passed since the last refusal, and one from
  before it has counted all that passed.  Passing, refusing, forgetting and waiting
  keep that (`GatePasses`, `GateRefuses`, `GateLapses`, `GateLater`), and both
  backends are shown to do nothing else to their gates.  The bytes of a window are a
  cardinality, so that no sum needs induction, and relate to the bucket in the same
  way (`Allows`).

`AccountsProofs`, for every number of accounts, sessions, links, requests and
gateway flows.  Assumed are what the code has (ids are positive, the place holder
`None` is no subject, the table of codes holds at least one, a sign-in has a
candidate name) and that the scenarios start as described in section 5.
`TypeOK` says little by itself, and none of the properties is inductive, because
each of them depends on where every request stands.  `BaseRight` therefore says
for each step of a request what the request carries there (`Control`), and of the
tables that ids are issued in order and that a live session has an account
(`StoreRight`).  The others stand on it:

* `TypeIsRight`: `TypeOK`; that no more codes are handed out than the bound needs
  `FlowsRight`: codes handed, callbacks under way and pending flows together are
  no more than the flows started.
* `MediaIsIndexed`: `MediaIndexed` is inductive: most steps leave the three
  sets alone, and the proof is about those that do not.
* `NewSessionsSupersede` and `OldPasswordsAreOut`, from `SessionsRight`: a request
  about to issue a session has verified the present password or subject or began
  before it changed, and its revocation is behind it; a session that is older than
  the revocation is gone.  A gateway login whose revocation failed carries 0 for
  the sessions it has revoked, and the theorem says nothing of the session it opens.
* `DeadTokensAreUncached`, from `CacheRight`: a cached row belongs to the user of
  its token; between a revocation and its invalidation the request holds the
  tokens it has revoked.
* `VerifiedAddressesWereMailed`, from `MailsRight`: an open link, and a request
  that sends or follows one, has the address that its account has or had.
* `NoAccountIsOrphaned`, from `OpenedRight`: an account that a sign-in opened has
  its request at one of the steps that link, approve or delete it, or is marked as
  left by a failure or a drop of that request (`StepLeft`, `AroundScene`).
* `GatewayIsRight`, from `SessionsRight` (sessions belong to the account linked to
  the subject) and `CodesRight` (codes are numbered by age, and what has been
  evicted is older than everything kept).

`ChatProofs`, for every number of tabs, administrators, messages, joins and
removals, every capacity of the channel and page size, and of uploads, transcodes
and dropped requests.  `RoomAssumption` says that these are numbers and that the
room starts with no more messages than its bound.

* `MembersAreOnline`: `OnlineRight`, from `MembersRight`.  `ToldRight` says that
  unless two changes of the list overlapped, at most one task is about to tell of
  the last one, and the last broadcast is right once it has; `HeardRight`, that a
  page shows the last list among the events its tab has taken.
* `PagesAgree`: `PageAgrees`.  It speaks of tabs with nothing under way, so its
  invariant looks ahead: `Will` is what a page will show of a message once the
  tab has taken what waits for it, and `Agrees` compares that with the rows, except
  while the message is about to be posted or its removal to be announced.
  `PagesRight` says so of what is shown and, while the history is on its way, of
  its answer.  A page that is opened again takes an older answer, and what differs
  from the rows by then counts as gone past it.  `MessagesRight` gives what the events say of the rows: a message is
  announced once, after it was stored; what was announced and is not taken back
  is stored, unless its removal is still to come or overtook the announcement.
* `ChatFilesAreAccounted`, from `UploadsInv`: at each step of a request, which of
  its two files may be there, and who may hold a permit.  A removal takes its file
  away or marks it as left over.

`LibraryProofs`, for every number of requests, videos, users and steps, every
quota, and every start that `LibraryAssumption` allows: ids are an interval from
1, 0 is no user, and a scenario starts with rows below the next id, each uploaded
video with a file of its own that is there, and users charged for their videos.
None of the properties is inductive, so all stand on `Base`: `RequestsOK` says
which operation may be at which step and what it has in its hands there (`Paths`,
`Fits`), `Store` gives the types of the tables, and `Numbered` that ids are given
once and in order.

* `StorageCorrect`: `StorageMatches`.  What is charged is a sum over the videos;
  it is stated as the number of bytes in a set (`BytesIn`), so that the proof adds
  the bytes of disjoint sets of videos (`BytesSplit`) and needs no induction.  Four
  actions make or delete rows and are proved one by one; the others keep every
  row's owner and file (`RowsKept`), and so what it charges.
* `BurnsCorrect`: `BurnedWasWatched`, from `BurnInv`: a request on its way to a
  deletion carries a row it was allowed to burn.  Between the look at the report
  and the look at the row the video may go; the proof needs that ids are given
  once (`OldRows`), so that no other video can take its place.
* `CachesCorrect`: `ShownIsThere`, from `CacheInv`: an entry shows what is there,
  or somebody has still to empty the caches (who changed something stays on the
  way to `refresh`, `AnyOK`), or the entry is known to be late, as every entry of
  a video is that somebody is deleting who has emptied the caches already.  Who is
  dropped on that way makes late what it had still to take out.

`FilesProofs`, on top of `Base`, for every number of requests, videos and files,
and whatever is lost on the disk and restored.  Between the step that makes a file
and the one that records or removes it, only a request knows of it, so `FilesInv`
says what each request has in its hands at each step (`Holds`): the file of an
upload is on the disk and in no row, the files of a deletion include those of
the videos it is about to delete, a new cover has a name that nothing has.  It also
says that no other request claims a file on its way to a row (`Apart`), that every
name was given (`NamesGiven`), that the file of a video is there and in no
other row (`OwnedOK`), and that every uploaded file belongs to a video or is in
the hands of the request that saves or removes it (`Accounted`).  TLC
checked `FilesInv` on the instance of the run `library` before it was proved.  One
lemma (`FilesStep`) says what a step must leave alone for `FilesInv`
to go on, and each action is shown to do so.  It needs that ids and the numbers in
names are given once, and of a scenario that every file on its disk has a kind.

* `FilesCorrect`: `EachHasItsFile`.  A sweep deletes only rows whose file is gone or
  was taken; a deletion removes files only after its rows are gone; and a scan
  adopts a file that is in a row or in somebody's hands only by the race that
  `raced` records.
* `NothingLeft`: `NoOrphanMedia`, from `Accounted`: with no request under way
  nothing is in anybody's hands, and what a failed removal or a dropped request let
  go of is marked as left, file by file.

`CommunityProofs`, on top of `Base` and `CacheInv`, for every number of comments,
tags, playlists and share links:

* `CommunityCorrect`: `CommunityRight`.  Of comments, the invariant must say what a
  request on its way to answer one knows (`Asks`): the comment it is at has been
  numbered, and at the insertion it is a root of the same video, or gone.  Deleted
  comments never come back (`CommentsStay`), so a deletion in between can only turn
  the answer into a refusal.  Positions in a playlist stay distinct because the
  greatest one is taken of a finite set (`MaxIn`, by well-foundedness instead of
  induction), and the next is none of those taken (`NextIsNew`).  Counts of tags
  are cardinalities of `Links`, which the three statements on them change by one or
  not at all, and a deletion lowers without the count (`TagsCascade`).
* `CommunityTypes`: `TypeOK`.  It needs all of the above: what a row may hold
  depends on the request that writes it, and that on where the request came from
  (`Paths`, `Fits`).

`UploadSessionProofs`, for every number of tabs, requests and slots, every
length of the content and all bounds:

* `TypeInvariant`, whatever fails and whatever upset happens.  `TypeOK` alone is
  not inductive: that a tab's reaction to a reply is well-typed needs
  `Listening` (at most one request per tab, and the tab waits for just that
  one); that offsets stay within the content needs `Serving` (a chunk about to
  be written starts where its slot ends); and that the chunk's slot is still as
  `Accept` left it when it is written needs `Exclusive` (one request inside the
  lock of a slot), which a sweep of the slot does not break because the request
  keeps the slot it holds.  `TypeCorrect` follows.
* `StoredIsIntact`: `StoredIntact`, when the only upset is the deletion of the
  video: no write is torn, no removal of the temporary file fails, none is
  overlooked, nothing in use is swept and no confirmation is lost.  The invariant `FileInv` adds that every request works on the slot in
  the map (`Attached`), that inside the lock the hash is that of the file and
  what was verified is what is moved (`Sound`), and that a slot outside the lock
  agrees with the file, or is full and has lost it to a finalize that was
  dropped (`Agrees`).  The hypothesis is used exactly where the file can be
  corrupted: a torn write breaks the agreement in `WriteFails` and `Drop`, a
  sweep of the file in `SweepFile`, a failed removal in whatever calls `Discard`,
  a file not seen in `Overlook`, a sweep of the slot breaks `Attached`, a
  lost confirmation breaks `StoredIntact` itself.  A crash needs no hypothesis,
  because it forgets the hash.
* `HashIsOfFile`: `HashMatchesFile`, from the same invariant.
* `SuccessWasStored`: `DoneWasStored`, from what the replies under way say: a
  reply of success is given when the row exists or has existed.
* `SuccessIsStored`: `DoneMeansStored`, when no stored video is deleted.
* `UndisturbedTabsSucceed`: `UndisturbedSucceeds`, for a content of any length up to
  the number of corrections that a tab is allowed.  `CalmInv` says what two tabs can
  do to each other while nothing fails.  As long as the content is not stored
  (`Filling`), nothing received is ever thrown away: a tab has been sent back at
  most as often as its offset is large, and each time to a larger one.  Once it is
  stored (`Trailing`), at most one tab goes on.  Either the slot is still done: then
  the tab is told that the upload is complete, sent back to the start at most once, or
  starts over (`Replays`); or it has started over: then it is alone with its slot and
  is never out of step (`Repeats`).  That `Trailing` begins with one tab is the
  place where two tabs are needed, and `ClientAssumption` (the tabs are a finite set)
  is what lets them be counted.  The hypothesis that nothing fails is used as it
  stands: a step that counts a fault or an upset ends what the invariant promises.

Liveness (`EventuallySettled`, `UploadEnds`) is beyond the prover and stays with
TLC.  Every invariant and every action property that a passing run checks is also
stated by a theorem.  What the violated runs refute is proved of the behaviours
without the cause: `StoredIntact` without torn writes, leftovers and files not seen,
`DoneMeansStored` without deletions, `PendingOwned` with one set of resolutions.

## 9. Not modelled

`PROJECT.json` gives the reason for each part.  In short:

* reading of logs, metrics and lists for administrators, mail, EXIF parsing,
  ffmpeg's arguments, password hashing and token signing: input and output, or
  pure functions, without state of the program;
* the upload of avatars, the switch that closes registration, names and
  visibility of playlists, renaming of tags: single statements that meet nothing;
* the upload protocol without offsets, kept for old clients;
* refusals by validation, which change nothing, and the limits on requests in
  front of the handlers (the limiter itself is `Throttling`);
* the screens of the web application but for uploads and chat, the reverse proxy
  and the deployment.
