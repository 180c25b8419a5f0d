--------------------------- MODULE TranscodeQueue ---------------------------
(***************************************************************************)
(* The transcode task queue of the backend (services/task_queue.rs), the   *)
(* admin endpoints that feed it (handlers/admin/admin_transcode.rs), and   *)
(* the tables and files they share: transcoding_jobs, video_variants,      *)
(* videos.has_variants and the variant files.                              *)
(*                                                                         *)
(* An Instance is one backend process: it has an in-memory queue and one   *)
(* worker.  All instances share the database and the media directory.      *)
(* Every SQL statement, lock acquisition and ffmpeg run is a step of its   *)
(* own, because the code awaits between them and nothing else orders the   *)
(* worker, the request handlers and the other instances.                   *)
(***************************************************************************)
EXTENDS Naturals, Sequences, FiniteSets, Functions

CONSTANTS
    Instance,         \* backend processes
    Video,            \* local videos
    Resolution,       \* the resolutions of resolution_params
    Admin,            \* concurrent admin requests
    Request,          \* the resolution sets a submission may ask for
    Deletable,        \* the resolutions whose variant an admin may delete
    Fragile,          \* the videos whose media file may disappear
    MaxAttempts,      \* MAX_ATTEMPTS
    MaxRetryTracked,  \* MAX_RETRY_TRACKED
    MaxRequests,      \* bound: admin requests in a behaviour
    MaxDbErrors,      \* bound: failed SQL statements in a behaviour
    MaxCrashes,       \* bound: process crashes in a behaviour
    None              \* no task, no call, no key

Job == Video \X Resolution       \* a row of transcoding_jobs, UNIQUE(video_id, resolution)

Task == [id : Job, video : Video, res : SUBSET Resolution]

Call == [inst : Instance, video : Video, res : SUBSET Resolution, key : Job \cup {None}]

ASSUME FiniteAssumption ==
    IsFiniteSet(Video) /\ IsFiniteSet(Resolution)
ASSUME RequestAssumption == Request \subseteq SUBSET Resolution
ASSUME DeletableAssumption == Deletable \subseteq Resolution /\ Fragile \subseteq Video
ASSUME BoundAssumption ==
    /\ MaxAttempts \in Nat \ {0}
    /\ MaxRetryTracked \in Nat
    /\ MaxRequests \in Nat /\ MaxDbErrors \in Nat /\ MaxCrashes \in Nat
ASSUME NoneAssumption == None \notin Task /\ None \notin Call

VARIABLES
    \* ---- the database ----
    status,    \* transcoding_jobs.status, "absent" for a row not inserted yet
    rank,      \* transcoding_jobs.id: the order of insertion (0 when absent)
    lastId,    \* the sequence behind transcoding_jobs.id
    stale,     \* rows marked `processing` more than 10 minutes ago
    variant,   \* rows of video_variants
    flagged,   \* videos.has_variants
    \* ---- the disk ----
    file,      \* complete variant files
    input,     \* videos whose media file exists
    \* ---- one process ----
    queue,     \* TaskQueue.queue
    pc, task, todo, left, found,    \* where the worker is, and its locals
    retries, waiting,               \* its retries and (running) next_attempt_at timers
    \* ---- the admin handlers ----
    apc, call,
    \* ---- how much of each bound is used ----
    requests, dbErrors, crashes

rowVars    == <<status, rank, lastId, stale>>
mediaVars  == <<variant, flagged, file, input>>
workerVars == <<pc, task, todo, left, found>>
retryVars  == <<retries, waiting>>
adminVars  == <<apc, call>>
boundVars  == <<requests, dbErrors, crashes>>
vars == <<rowVars, mediaVars, queue, workerVars, retryVars, adminVars, boundVars>>

WorkerPC == {"recover", "load", "push", "sleep", "drain", "check", "mark", "start",
             "transcode", "persist", "flag", "complete", "reset", "retry", "dead"}
AdminPC  == {"idle", "insert", "pick", "add", "unrecord", "count", "clear"}
Status   == {"absent", "pending", "processing", "completed", "failed"}
-----------------------------------------------------------------------------
Init ==
    /\ status = [j \in Job |-> "absent"]
    /\ rank = [j \in Job |-> 0]
    /\ lastId = 0
    /\ stale = {} /\ variant = {} /\ flagged = {} /\ file = {}
    /\ input = Video
    /\ queue = [i \in Instance |-> << >>]
    /\ pc = [i \in Instance |-> "recover"]
    /\ task = [i \in Instance |-> None]
    /\ todo = [i \in Instance |-> {}]
    /\ left = [i \in Instance |-> {}]
    /\ found = [i \in Instance |-> {}]
    /\ retries = [i \in Instance |-> [j \in Job |-> 0]]
    /\ waiting = [i \in Instance |-> {}]
    /\ apc = [a \in Admin |-> "idle"]
    /\ call = [a \in Admin |-> None]
    /\ requests = 0 /\ dbErrors = 0 /\ crashes = 0
-----------------------------------------------------------------------------
(* The WHERE clauses and updates on transcoding_jobs.                      *)

RowsOf(v, R) == {v} \X R

InStatus(S, states) == {j \in S : status[j] \in states}

SetStatus(S, s) == status' = [j \in Job |-> IF j \in S THEN s ELSE status[j]]

\* SELECT MIN(id): j is the row of S with the smallest id.
IsFirst(j, S) == j \in S /\ \A k \in S : rank[j] <= rank[k]

\* A failed statement: the caller sees an error and the row is as it was.
DbError == dbErrors < MaxDbErrors /\ dbErrors' = dbErrors + 1

Goto(i, p) == pc' = [pc EXCEPT ![i] = p]

Enqueue(i, t) == queue' = [queue EXCEPT ![i] = Append(@, t)]

\* run_task returns and the worker looks at the queue again.
EndRun(i) ==
    /\ task' = [task EXCEPT ![i] = None]
    /\ todo' = [todo EXCEPT ![i] = {}]
    /\ left' = [left EXCEPT ![i] = {}]
    /\ Goto(i, "drain")
-----------------------------------------------------------------------------
(* Start-up: recover_stale_jobs.                                           *)

\* Rows a restarting process takes back: only those started long ago.
Reclaimable == InStatus(Job, {"processing"}) \cap stale

RecoverReset(i) ==
    /\ pc[i] = "recover"
    /\ Goto(i, "load")
    /\ \/ SetStatus(Reclaimable, "pending") /\ UNCHANGED dbErrors
       \/ DbError /\ UNCHANGED status
    /\ UNCHANGED <<rank, lastId, stale, mediaVars, queue, task, todo, left, found, retryVars,
                   adminVars, requests, crashes>>

\* The pending rows of v that recovery rebuilds a task from: those with no variant record.
Recoverable(v) == InStatus(RowsOf(v, Resolution), {"pending"}) \ variant

RecoveredTasks ==
    {t \in Task : /\ IsFirst(t.id, Recoverable(t.video))
                  /\ t.res = {r \in Resolution : <<t.video, r>> \in Recoverable(t.video)}}

RecoverLoad(i) ==
    /\ pc[i] = "load"
    /\ \/ /\ found' = [found EXCEPT ![i] = RecoveredTasks]
          /\ Goto(i, IF RecoveredTasks = {} THEN "sleep" ELSE "push")
          /\ UNCHANGED dbErrors
       \/ DbError /\ Goto(i, "sleep") /\ UNCHANGED found
    /\ UNCHANGED <<rowVars, mediaVars, queue, task, todo, left, retryVars, adminVars,
                   requests, crashes>>

\* The recovered tasks are pushed one by one, without add_task's duplicate check; a task
\* whose media file is missing is skipped.
RecoverPush(i) ==
    /\ pc[i] = "push"
    /\ \E t \in found[i] :
          /\ IF t.video \in input THEN Enqueue(i, t) ELSE UNCHANGED queue
          /\ found' = [found EXCEPT ![i] = @ \ {t}]
          /\ Goto(i, IF found[i] = {t} THEN "sleep" ELSE "push")
    /\ UNCHANGED <<rowVars, mediaVars, task, todo, left, retryVars, adminVars, boundVars>>
-----------------------------------------------------------------------------
(* The worker loop: start_worker and run_task.                             *)

Wake(i) ==
    /\ pc[i] = "sleep"
    /\ Goto(i, "drain")
    /\ UNCHANGED <<rowVars, mediaVars, queue, task, todo, left, found, retryVars, adminVars,
                   boundVars>>

Drained(i) ==
    /\ pc[i] = "drain" /\ queue[i] = << >>
    /\ Goto(i, "sleep")
    /\ UNCHANGED <<rowVars, mediaVars, queue, task, todo, left, found, retryVars, adminVars,
                   boundVars>>

Take(i) ==
    /\ pc[i] = "drain" /\ queue[i] # << >>
    /\ task' = [task EXCEPT ![i] = Head(queue[i])]
    /\ queue' = [queue EXCEPT ![i] = Tail(@)]
    /\ Goto(i, "check")
    /\ UNCHANGED <<rowVars, mediaVars, todo, left, found, retryVars, adminVars, boundVars>>

\* The task is not due: back to the front, under a second acquisition of the queue's lock,
\* and the worker stops draining.
PutBack(i) ==
    /\ pc[i] = "check" /\ task[i].id \in waiting[i]
    /\ queue' = [queue EXCEPT ![i] = <<task[i]>> \o @]
    /\ task' = [task EXCEPT ![i] = None]
    /\ Goto(i, "sleep")
    /\ UNCHANGED <<rowVars, mediaVars, todo, left, found, retryVars, adminVars, boundVars>>

\* Mutant of Forget: the attempt count stays behind.
ForgetTimerOnly(i) ==
    /\ waiting' = [waiting EXCEPT ![i] = @ \ {task[i].id}]
    /\ UNCHANGED retries

\* retries.remove(&task.id); next_attempt_at.remove(&task.id)
Forget(i) ==
    /\ retries' = [retries EXCEPT ![i][task[i].id] = 0]
    /\ waiting' = [waiting EXCEPT ![i] = @ \ {task[i].id}]

\* pending_resolutions
PendingOf(i) ==
    {r \in task[i].res : status[<<task[i].video, r>>] = "pending"}

ReadPending(i) ==
    /\ pc[i] = "check" /\ task[i].id \notin waiting[i]
    /\ IF PendingOf(i) = {}
       THEN Forget(i) /\ EndRun(i)
       ELSE /\ todo' = [todo EXCEPT ![i] = PendingOf(i)]
            /\ Goto(i, "mark")
            /\ UNCHANGED <<retryVars, task, left>>
    /\ UNCHANGED <<rowVars, mediaVars, queue, found, adminVars, boundVars>>

ReadPendingFails(i) ==
    /\ pc[i] = "check" /\ task[i].id \notin waiting[i]
    /\ DbError
    /\ Goto(i, "retry")
    /\ UNCHANGED <<rowVars, mediaVars, queue, task, todo, left, found, retryVars, adminVars,
                   requests, crashes>>

\* mark_processing: rows cancelled since they were read stay cancelled.
MarkProcessing(i) ==
    /\ pc[i] = "mark"
    /\ \/ LET S == InStatus(RowsOf(task[i].video, todo[i]), {"pending"}) IN
          /\ SetStatus(S, "processing")
          /\ stale' = stale \ S
          /\ Goto(i, "start")
          /\ UNCHANGED dbErrors
       \/ DbError /\ Goto(i, "retry") /\ UNCHANGED <<status, stale>>
    /\ UNCHANGED <<rank, lastId, mediaVars, queue, task, todo, left, found, retryVars,
                   adminVars, requests, crashes>>

\* is_within_media_root, then ffmpeg -y, which truncates the outputs it is about to write.
StartTranscode(i) ==
    /\ pc[i] = "start"
    /\ IF task[i].video \in input
       THEN /\ file' = file \ RowsOf(task[i].video, todo[i])
            /\ Goto(i, "transcode") /\ UNCHANGED left
       ELSE /\ left' = [left EXCEPT ![i] = todo[i]]
            /\ Goto(i, "reset") /\ UNCHANGED file
    /\ UNCHANGED <<rowVars, variant, flagged, input, queue, task, todo, found, retryVars,
                   adminVars, boundVars>>

TranscodeOk(i) ==
    /\ pc[i] = "transcode"
    /\ file' = file \cup RowsOf(task[i].video, todo[i])
    /\ left' = [left EXCEPT ![i] = todo[i]]
    /\ Goto(i, "persist")
    /\ UNCHANGED <<rowVars, variant, flagged, input, queue, task, todo, found, retryVars,
                   adminVars, boundVars>>

\* One resolution fails, times out or is too large, and the JoinSet aborts the others; some
\* of them may have finished.
TranscodeFails(i) ==
    /\ pc[i] = "transcode"
    /\ \E done \in (SUBSET todo[i]) \ {todo[i]} :
          file' = file \cup RowsOf(task[i].video, done)
    /\ left' = [left EXCEPT ![i] = task[i].res]
    /\ Goto(i, "reset")
    /\ UNCHANGED <<rowVars, variant, flagged, input, queue, task, todo, found, retryVars,
                   adminVars, boundVars>>
-----------------------------------------------------------------------------
(* persist_variants, one statement at a time; a failed statement sends the *)
(* whole task to the reset.                                                *)

PersistFails(i) ==
    /\ pc[i] \in {"persist", "flag", "complete"}
    /\ DbError
    /\ left' = [left EXCEPT ![i] = task[i].res]
    /\ Goto(i, "reset")
    /\ UNCHANGED <<rowVars, mediaVars, queue, task, todo, found, retryVars, adminVars,
                   requests, crashes>>

\* Mutant of UpsertVariant: the loop ends after its first variant.
UpsertOnlyFirst(i) ==
    /\ pc[i] = "persist"
    /\ \E r \in left[i] : variant' = variant \cup {<<task[i].video, r>>}
    /\ left' = [left EXCEPT ![i] = {}]
    /\ Goto(i, "flag")
    /\ UNCHANGED <<rowVars, flagged, file, input, queue, task, todo, found, retryVars,
                   adminVars, boundVars>>

UpsertVariant(i) ==
    /\ pc[i] = "persist"
    /\ \E r \in left[i] :
          /\ variant' = variant \cup {<<task[i].video, r>>}
          /\ left' = [left EXCEPT ![i] = @ \ {r}]
          /\ Goto(i, IF left[i] = {r} THEN "flag" ELSE "persist")
    /\ UNCHANGED <<rowVars, flagged, file, input, queue, task, todo, found, retryVars,
                   adminVars, boundVars>>

SetFlag(i) ==
    /\ pc[i] = "flag"
    /\ flagged' = flagged \cup {task[i].video}
    /\ Goto(i, "complete")
    /\ UNCHANGED <<rowVars, variant, file, input, queue, task, todo, left, found, retryVars,
                   adminVars, boundVars>>

\* The rows this update touches: every row of the run, whatever its status is by now.
Completed(i) == RowsOf(task[i].video, todo[i])

CompleteJobs(i) ==
    /\ pc[i] = "complete"
    /\ SetStatus(Completed(i), "completed")
    /\ Forget(i)
    /\ EndRun(i)
    /\ UNCHANGED <<rank, lastId, stale, mediaVars, queue, found, adminVars, boundVars>>

\* Mutants of Resettable: the reset forgotten, and the reset without its status condition.
ResetNothing(i) == {}

ResetAnyStatus(i) == RowsOf(task[i].video, left[i])

\* reset_jobs_to_pending; its error is only logged.
Resettable(i) == InStatus(RowsOf(task[i].video, left[i]), {"processing"})

ResetJobs(i) ==
    /\ pc[i] = "reset"
    /\ \/ SetStatus(Resettable(i), "pending") /\ UNCHANGED dbErrors
       \/ DbError /\ UNCHANGED status
    /\ Goto(i, "retry")
    /\ UNCHANGED <<rank, lastId, stale, mediaVars, queue, task, todo, left, found, retryVars,
                   adminVars, requests, crashes>>

\* The safety valve of the worker loop: too many tracked tasks, and all are forgotten.
TrackedTooMany(attempts) ==
    Cardinality({j \in Job : attempts[j] > 0}) > MaxRetryTracked

\* Mutant of AttemptsExhausted: one attempt too many.
AttemptsExceeded(n) == n > MaxAttempts

AttemptsExhausted(n) == n >= MaxAttempts

ScheduleRetry(i) ==
    /\ pc[i] = "retry"
    /\ LET id == task[i].id
           attempts == [retries[i] EXCEPT ![id] = @ + 1] IN
       IF AttemptsExhausted(attempts[id])
       THEN /\ Forget(i)
            /\ Goto(i, "dead")
            /\ UNCHANGED <<queue, task, todo, left>>
       ELSE /\ IF TrackedTooMany(attempts)
               THEN /\ retries' = [retries EXCEPT ![i] = [j \in Job |-> 0]]
                    /\ waiting' = [waiting EXCEPT ![i] = {}]
               ELSE /\ retries' = [retries EXCEPT ![i] = attempts]
                    /\ waiting' = [waiting EXCEPT ![i] = @ \cup {id}]
            /\ Enqueue(i, task[i])
            /\ EndRun(i)
    /\ UNCHANGED <<rowVars, mediaVars, found, adminVars, boundVars>>

\* Mutant of DeadLettered: only the rows that still say `processing`.
DeadLetterProcessing(i) == InStatus(RowsOf(task[i].video, Resolution), {"processing"})

\* dead_letter fails every live row of the video, not only those of the task; its error is
\* only logged.
DeadLettered(i) == InStatus(RowsOf(task[i].video, Resolution), {"pending", "processing"})

DeadLetter(i) ==
    /\ pc[i] = "dead"
    /\ \/ SetStatus(DeadLettered(i), "failed") /\ UNCHANGED dbErrors
       \/ DbError /\ UNCHANGED status
    /\ EndRun(i)
    /\ UNCHANGED <<rank, lastId, stale, mediaVars, queue, found, retryVars, adminVars,
                   requests, crashes>>
-----------------------------------------------------------------------------
(* The admin endpoints.                                                    *)

AdminRequest == requests < MaxRequests /\ requests' = requests + 1

Reply(a) == apc' = [apc EXCEPT ![a] = "idle"] /\ call' = [call EXCEPT ![a] = None]

\* Mutant of Revivable: rows with a variant record are done again.
ReviveRecorded(v) == InStatus(RowsOf(v, Resolution), {"failed", "completed"})

\* Rows of v that stand for work to do again: failed or completed, and no variant record.
Revivable(v) == InStatus(RowsOf(v, Resolution), {"failed", "completed"}) \ variant

\* transcode_video: 404 unless the media file resolves; then the first statement of
\* add_video_transcode.
Submit(a) ==
    /\ apc[a] = "idle"
    /\ AdminRequest
    /\ \E i \in Instance, v \in input, R \in Request :
          /\ SetStatus(Revivable(v), "pending")
          /\ call' = [call EXCEPT ![a] = [inst |-> i, video |-> v, res |-> R, key |-> None]]
    /\ apc' = [apc EXCEPT ![a] = "insert"]
    /\ UNCHANGED <<rank, lastId, stale, mediaVars, queue, workerVars, retryVars, dbErrors,
                   crashes>>

\* INSERT ... ON CONFLICT DO NOTHING, in the order of the request.
Insert(a) ==
    /\ apc[a] = "insert"
    /\ LET new == InStatus(RowsOf(call[a].video, call[a].res), {"absent"}) IN
       /\ SetStatus(new, "pending")
       /\ \E ids \in Injection(new, lastId + 1 .. lastId + Cardinality(new)) :
             rank' = [j \in Job |-> IF j \in new THEN ids[j] ELSE rank[j]]
       /\ lastId' = lastId + Cardinality(new)
    /\ apc' = [apc EXCEPT ![a] = "pick"]
    /\ UNCHANGED <<stale, mediaVars, queue, workerVars, retryVars, call, boundVars>>

\* The task key is the smallest pending id of the video; none, and there is nothing to do.
Pick(a) ==
    /\ apc[a] = "pick"
    /\ LET pending == InStatus(RowsOf(call[a].video, Resolution), {"pending"}) IN
       \/ pending = {} /\ Reply(a)
       \/ \E j \in pending :
             /\ IsFirst(j, pending)
             /\ call' = [call EXCEPT ![a].key = j]
             /\ apc' = [apc EXCEPT ![a] = "add"]
    /\ UNCHANGED <<rowVars, mediaVars, queue, workerVars, retryVars, boundVars>>

Queued(i, id) == \E k \in DOMAIN queue[i] : queue[i][k].id = id

\* add_task: ignored when a task with this id is in the queue.
Add(a) ==
    /\ apc[a] = "add"
    /\ LET c == call[a] IN
       IF Queued(c.inst, c.key) THEN UNCHANGED queue
       ELSE Enqueue(c.inst, [id |-> c.key, video |-> c.video, res |-> c.res])
    /\ Reply(a)
    /\ UNCHANGED <<rowVars, mediaVars, workerVars, retryVars, boundVars>>

\* cancel_transcode
Cancellable(v) == InStatus(RowsOf(v, Resolution), {"pending", "processing"})

Cancel ==
    /\ AdminRequest
    /\ \E v \in Video : Cancellable(v) # {} /\ SetStatus(Cancellable(v), "failed")
    /\ UNCHANGED <<rank, lastId, stale, mediaVars, queue, workerVars, retryVars, adminVars,
                   dbErrors, crashes>>

\* delete_variant: the file, the record, the count, and the flag when the count is 0.
DeleteFile(a) ==
    /\ apc[a] = "idle"
    /\ AdminRequest
    /\ \E i \in Instance, v \in Video, r \in Deletable :
          /\ file' = file \ {<<v, r>>}
          /\ call' = [call EXCEPT ![a] = [inst |-> i, video |-> v, res |-> {r}, key |-> None]]
    /\ apc' = [apc EXCEPT ![a] = "unrecord"]
    /\ UNCHANGED <<rowVars, variant, flagged, input, queue, workerVars, retryVars, dbErrors,
                   crashes>>

Unrecord(a) ==
    /\ apc[a] = "unrecord"
    /\ variant' = variant \ RowsOf(call[a].video, call[a].res)
    /\ apc' = [apc EXCEPT ![a] = "count"]
    /\ UNCHANGED <<rowVars, flagged, file, input, queue, workerVars, retryVars, call, boundVars>>

Count(a) ==
    /\ apc[a] = "count"
    /\ IF variant \cap RowsOf(call[a].video, Resolution) = {}
       THEN apc' = [apc EXCEPT ![a] = "clear"] /\ UNCHANGED call
       ELSE Reply(a)
    /\ UNCHANGED <<rowVars, mediaVars, queue, workerVars, retryVars, boundVars>>

ClearFlag(a) ==
    /\ apc[a] = "clear"
    /\ flagged' = flagged \ {call[a].video}
    /\ Reply(a)
    /\ UNCHANGED <<rowVars, variant, file, input, queue, workerVars, retryVars, boundVars>>

\* A statement of the handler fails: 500, and what the earlier statements did stays done.
RequestFails(a) ==
    /\ apc[a] \in AdminPC \ {"idle", "add"}
    /\ DbError
    /\ Reply(a)
    /\ UNCHANGED <<rowVars, mediaVars, queue, workerVars, retryVars, requests, crashes>>
-----------------------------------------------------------------------------
(* Time, crashes, and the file system under the program.                   *)

\* A backoff timer of next_attempt_at runs out.
Due(i) ==
    /\ \E j \in waiting[i] : waiting' = [waiting EXCEPT ![i] = @ \ {j}]
    /\ UNCHANGED <<rowVars, mediaVars, queue, workerVars, retries, adminVars, boundVars>>

\* Ten minutes pass over a row being processed: a run may take up to transcode_timeout, an hour.
Age ==
    /\ \E j \in InStatus(Job, {"processing"}) \ stale : stale' = stale \cup {j}
    /\ UNCHANGED <<status, rank, lastId, mediaVars, queue, workerVars, retryVars, adminVars,
                   boundVars>>

\* The process dies and is started again: its memory is gone, and with it its requests.
Crash(i) ==
    /\ crashes < MaxCrashes
    /\ crashes' = crashes + 1
    /\ queue' = [queue EXCEPT ![i] = << >>]
    /\ Goto(i, "recover")
    /\ task' = [task EXCEPT ![i] = None]
    /\ todo' = [todo EXCEPT ![i] = {}]
    /\ left' = [left EXCEPT ![i] = {}]
    /\ found' = [found EXCEPT ![i] = {}]
    /\ retries' = [retries EXCEPT ![i] = [j \in Job |-> 0]]
    /\ waiting' = [waiting EXCEPT ![i] = {}]
    /\ LET dead == {a \in Admin : apc[a] # "idle" /\ call[a].inst = i} IN
       /\ apc' = [a \in Admin |-> IF a \in dead THEN "idle" ELSE apc[a]]
       /\ call' = [a \in Admin |-> IF a \in dead THEN None ELSE call[a]]
    /\ UNCHANGED <<rowVars, mediaVars, requests, dbErrors>>

LoseInput ==
    /\ \E v \in Fragile \cap input : input' = input \ {v}
    /\ UNCHANGED <<rowVars, variant, flagged, file, queue, workerVars, retryVars, adminVars,
                   boundVars>>
-----------------------------------------------------------------------------
Recovery(i) == RecoverReset(i) \/ RecoverLoad(i) \/ RecoverPush(i)

Attempt(i) ==
    \/ ReadPending(i) \/ ReadPendingFails(i) \/ MarkProcessing(i) \/ StartTranscode(i)
    \/ TranscodeOk(i) \/ TranscodeFails(i)
    \/ UpsertVariant(i) \/ SetFlag(i) \/ CompleteJobs(i) \/ PersistFails(i)
    \/ ResetJobs(i) \/ ScheduleRetry(i) \/ DeadLetter(i)

Worker(i) == Recovery(i) \/ Wake(i) \/ Drained(i) \/ Take(i) \/ PutBack(i) \/ Attempt(i)

Handler(a) ==
    \/ Insert(a) \/ Pick(a) \/ Add(a)
    \/ Unrecord(a) \/ Count(a) \/ ClearFlag(a) \/ RequestFails(a)

Next ==
    \/ \E i \in Instance : Worker(i) \/ Due(i) \/ Crash(i)
    \/ \E a \in Admin : Submit(a) \/ DeleteFile(a) \/ Handler(a)
    \/ Cancel \/ Age \/ LoseInput

Spec == Init /\ [][Next]_vars

\* The runtime keeps polling the worker and every handler, and clocks advance.
Fairness ==
    /\ \A i \in Instance : WF_vars(Worker(i)) /\ WF_vars(Due(i))
    /\ \A a \in Admin : WF_vars(Handler(a))

FairSpec == Spec /\ Fairness
-----------------------------------------------------------------------------
TypeOK ==
    /\ status \in [Job -> Status]
    /\ rank \in [Job -> Nat]
    /\ lastId \in Nat
    /\ stale \subseteq Job /\ variant \subseteq Job /\ file \subseteq Job
    /\ flagged \subseteq Video /\ input \subseteq Video
    /\ queue \in [Instance -> Seq(Task)]
    /\ pc \in [Instance -> WorkerPC]
    /\ task \in [Instance -> Task \cup {None}]
    /\ todo \in [Instance -> SUBSET Resolution]
    /\ left \in [Instance -> SUBSET Resolution]
    /\ found \in [Instance -> SUBSET Task]
    /\ retries \in [Instance -> [Job -> 0 .. MaxAttempts - 1]]
    /\ waiting \in [Instance -> SUBSET Job]
    /\ apc \in [Admin -> AdminPC]
    /\ call \in [Admin -> Call \cup {None}]
    /\ requests \in 0 .. MaxRequests
    /\ dbErrors \in 0 .. MaxDbErrors
    /\ crashes \in 0 .. MaxCrashes

\* The worker holds a task exactly while it is between taking it and ending its run.
Holding == WorkerPC \ {"recover", "load", "push", "sleep", "drain"}

\* The typing of the locals that are live: a busy worker has a task, a busy handler its call.
Held ==
    /\ \A i \in Instance : pc[i] \in Holding => task[i] \in Task
    /\ \A a \in Admin : apc[a] # "idle" => call[a] \in Call
    /\ \A a \in Admin : apc[a] = "add" => call[a].key \in Job

Covers(t, j) == t.video = j[1] /\ j[2] \in t.res

\* Retry bookkeeping never outlives its task: whatever the interleaving of retries, dropped
\* and duplicate tasks, dead letters and crashes, an attempt count or a backoff timer of a
\* job id belongs to a task that the same instance still queues or runs.  (run_task removes
\* it on every path that ends a task; a leak would delay or cut short a later task that
\* reuses the id, and grow the maps without bound.)
BookkeepingOwned ==
    \A i \in Instance, j \in Job :
        (retries[i][j] > 0 \/ j \in waiting[i]) =>
            \/ pc[i] \in Holding /\ task[i].id = j
            \/ Queued(i, j)

\* Without faults, a row says `processing` only while a worker is running it: no
\* interleaving of cancels, resubmissions, failed attempts and dead letters leaves a job
\* that looks busy and that nobody will ever finish.
ProcessingOwned ==
    crashes = 0 /\ dbErrors = 0 =>
        \A j \in InStatus(Job, {"processing"}) :
            \E i \in Instance : pc[i] \in Holding /\ task[i].video = j[1] /\ j[2] \in todo[i]

\* Without faults, and when every submission asks for the same resolutions, a pending row is
\* always somebody's work: queued, held by a worker, recovered, or about to be added by the
\* request that made it pending.  The collapse of submissions onto one queue entry
\* (add_task's duplicate check) loses none of them.  (While a process starts, it has yet to
\* look for such rows, and is excused.)
PendingOwned ==
    crashes = 0 /\ dbErrors = 0 =>
        \A j \in InStatus(Job, {"pending"}) :
            \/ \E i \in Instance :
                  \/ \E k \in DOMAIN queue[i] : Covers(queue[i][k], j)
                  \/ pc[i] \in Holding /\ Covers(task[i], j)
                  \/ \E t \in found[i] : Covers(t, j)
                  \/ pc[i] \in {"recover", "load"}
            \/ \E a \in Admin : apc[a] \in {"insert", "pick", "add"} /\ call[a].video = j[1]

\* A completed job is playable: its variant is recorded and its video is flagged, through
\* every crash and failed statement in the middle of persist_variants.  (Checked where no
\* variant is deleted.)
CompletedRecorded ==
    \A j \in InStatus(Job, {"completed"}) : j \in variant /\ j[1] \in flagged

\* Without faults, a recorded variant keeps its file: resubmissions, cancels and retries never
\* make ffmpeg -y truncate the file of a variant the players are offered.  (Checked where no
\* variant is deleted; a failed statement after the upsert does break it, until the retry.)
RecordedOnDisk == crashes = 0 /\ dbErrors = 0 => variant \subseteq file

\* A failed row (cancelled or dead-lettered) is never put back to work behind the admin's
\* back: retries, resets and crash recovery leave it failed, and only a new submission
\* makes it pending again.  (A run that was under way may still complete it.)
FailedStaysDown ==
    [][\A j \in Job :
         status[j] = "failed" =>
            \/ status'[j] \in {"failed", "completed"}
            \/ status'[j] = "pending" /\ \E a \in Admin : apc[a] = "idle" /\ apc'[a] = "insert"
      ]_vars

\* Once a restarted process has finished its recovery, no row still says `processing` unless
\* some worker runs it.  (start_worker's comment: the recovery takes over what a previous
\* process left `pending` or `processing`.)
RestartRecovers ==
    dbErrors = 0 =>
        \A j \in InStatus(Job, {"processing"}) :
            \E i \in Instance :
                \/ pc[i] = "recover"
                \/ pc[i] \in Holding /\ task[i].video = j[1] /\ j[2] \in todo[i]

\* Every job that becomes pending is settled in the end, whatever fails: it completes, or it
\* is failed after MaxAttempts attempts or by a cancel.
EventuallySettled ==
    \A j \in Job : status[j] = "pending" ~> status[j] \in {"completed", "failed"}
-----------------------------------------------------------------------------
\* The jobs an instance runs: what it read as pending, until its run ends.
Running == [i \in Instance |-> {j \in Job : j[2] \in todo[i] /\ j[1] = task[i].video}]

Jobs == INSTANCE TranscodeJobs WITH recorded <- variant, offered <- flagged, running <- Running

\* Through queues, retries, faults and crashes of several instances the jobs behave as
\* TranscodeJobs says: nothing is run that was not pending, nothing completed but by its
\* own run and with its variants recorded.  (Where no variant is deleted: task_queue.rs
\* run_task, persist_variants, reset_jobs_to_pending, dead_letter, recover_stale_jobs.)
JobsPromised == Jobs!Spec
=============================================================================
