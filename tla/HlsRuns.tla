------------------------------ MODULE HlsRuns ------------------------------
(***************************************************************************)
(* The HLS rendition of one video (services/transcoder.rs,                 *)
(* admin_transcode.rs): two levels of mutual exclusion, the in-flight set  *)
(* of each process and a lock in Redis with a lifetime, around a run that  *)
(* writes a fixed directory, one rendition after the other and the master  *)
(* playlist last.  Any command to Redis may fail, any process may crash,   *)
(* and the request that starts a run may be dropped where it waits.        *)
(***************************************************************************)
EXTENDS Naturals, FiniteSets

CONSTANTS
  Processes,    \* the instances of the server
  Runs,         \* the requests, and the runs they start
  Renditions,   \* how many renditions a playlist has
  MaxUpsets,    \* bound: Redis errors, crashes, expiries and dropped requests together
  NoRun

ASSUME HlsAssumption == NoRun \notin Runs /\ Renditions \in Nat \ {0}

VARIABLES
  inFlight,     \* HLS_IN_FLIGHT of each process: whether the video is in it
  lock,         \* the key in Redis: the token of a run, or NoRun
  run,          \* each run: its process, its step, and whether its guard holds the lock
  folders,      \* the renditions that have a directory
  master,       \* whether the master playlist is there
  upsets,       \* how many there were
  lapsed,       \* history: runs without the lock of Redis, never held or expired under them
  stuck,        \* history: processes where a dropped request left the video in the set
  broken        \* history: whether a run ended before its master playlist

hlsVars == <<inFlight, lock, run, folders, master, upsets, lapsed, stuck, broken>>

NotRunning == [at |-> "idle", proc |-> NoRun, guard |-> FALSE, done |-> 0]

HlsInit ==
  /\ inFlight = [p \in Processes |-> FALSE]
  /\ lock = NoRun
  /\ run = [r \in Runs |-> NotRunning]
  /\ folders = 0
  /\ master = FALSE
  /\ upsets = 0
  /\ lapsed = {}
  /\ stuck = {}
  /\ broken = FALSE

Move(r, at) == run' = [run EXCEPT ![r].at = at]
Writing(r) == run[r].at \in {"open", "encoding", "master"}
Upset == upsets < MaxUpsets /\ upsets' = upsets + 1

-----------------------------------------------------------------------------
\* try_begin_hls, level 1: the set of the process.
BeginHls(r, p) ==
  /\ run[r].at = "idle"
  /\ run' = [run EXCEPT ![r].at = IF inFlight[p] THEN "ended" ELSE "claimed", ![r].proc = p]
  /\ inFlight' = [inFlight EXCEPT ![p] = TRUE]
  /\ UNCHANGED <<lock, folders, master, upsets, lapsed, stuck, broken>>

\* Level 2: SET NX EX.  A refusal undoes level 1; an error counts as no Redis.
LockFree(r) ==
  /\ run[r].at = "claimed"
  /\ lock = NoRun
  /\ lock' = r
  /\ run' = [run EXCEPT ![r].at = "queued", ![r].guard = TRUE]
  /\ UNCHANGED <<inFlight, folders, master, upsets, lapsed, stuck, broken>>

LockTaken(r) ==
  /\ run[r].at = "claimed"
  /\ lock # NoRun
  /\ inFlight' = [inFlight EXCEPT ![run[r].proc] = FALSE]
  /\ Move(r, "ended")
  /\ UNCHANGED <<lock, folders, master, upsets, lapsed, stuck, broken>>

LockUnavailable(r) ==
  /\ run[r].at = "claimed"
  /\ Upset
  /\ Move(r, "queued")
  /\ lapsed' = lapsed \cup {r}
  /\ UNCHANGED <<inFlight, lock, folders, master, stuck, broken>>

\* The request is dropped while it waits for Redis.  The guard does not exist
\* yet: the set keeps the video, and a SET that arrived keeps the lock.
DropRequest(r) ==
  /\ run[r].at = "claimed"
  /\ Upset
  /\ lock' \in {lock, IF lock = NoRun THEN r ELSE lock}
  /\ Move(r, "ended")
  /\ stuck' = stuck \cup {run[r].proc}
  /\ UNCHANGED <<inFlight, folders, master, lapsed, broken>>

-----------------------------------------------------------------------------
\* transcode_to_hls, in a task of its own once there is a permit: for each
\* rendition its directory, then ffmpeg into it.
WaitForPermit(r) ==
  /\ run[r].at = "queued"
  /\ Move(r, "open")
  /\ UNCHANGED <<inFlight, lock, folders, master, upsets, lapsed, stuck, broken>>

MakeFolder(r) ==
  /\ run[r].at = "open"
  /\ folders' = IF run[r].done < folders THEN folders ELSE run[r].done + 1
  /\ Move(r, "encoding")
  /\ UNCHANGED <<inFlight, lock, master, upsets, lapsed, stuck, broken>>

EncodeRendition(r) ==
  /\ run[r].at = "encoding"
  /\ run' = [run EXCEPT ![r].done = @ + 1, ![r].at = IF run[r].done + 1 < Renditions THEN "open" ELSE "master"]
  /\ UNCHANGED <<inFlight, lock, folders, master, upsets, lapsed, stuck, broken>>

\* A mutant: a guard without a lock has nothing to release.
EndRunGuarded(r) ==
  /\ inFlight' = IF run[r].guard THEN [inFlight EXCEPT ![run[r].proc] = FALSE] ELSE inFlight
  /\ Move(r, IF run[r].guard THEN "releasing" ELSE "ended")

\* The guard is dropped with the task: the set at once, the lock by a task of
\* its own.
EndRun(r) ==
  /\ inFlight' = [inFlight EXCEPT ![run[r].proc] = FALSE]
  /\ Move(r, IF run[r].guard THEN "releasing" ELSE "ended")

\* A directory cannot be made, ffmpeg fails or runs out of time, or the write of
\* the master playlist fails, which may leave a part of it.
RunFails(r) ==
  /\ Writing(r)
  /\ EndRun(r)
  /\ master' \in {master, master \/ run[r].at = "master"}
  /\ broken' = TRUE
  /\ UNCHANGED <<lock, folders, upsets, lapsed, stuck>>

WriteMaster(r) ==
  /\ run[r].at = "master"
  /\ master' = TRUE
  /\ EndRun(r)
  /\ UNCHANGED <<lock, folders, upsets, lapsed, stuck, broken>>

\* A mutant: a plain DEL.
UnlockAny(r) == NoRun

\* HLS_UNLOCK_SCRIPT deletes the lock only if it still has the token.
Unlock(r) == IF lock = r THEN NoRun ELSE lock

ReleaseLock(r) ==
  /\ run[r].at = "releasing"
  /\ lock' = Unlock(r)
  /\ Move(r, "ended")
  /\ UNCHANGED <<inFlight, folders, master, upsets, lapsed, stuck, broken>>

ReleaseFails(r) ==
  /\ run[r].at = "releasing"
  /\ Upset
  /\ Move(r, "ended")
  /\ UNCHANGED <<inFlight, lock, folders, master, lapsed, stuck, broken>>

-----------------------------------------------------------------------------
\* HLS_LOCK_TTL_SECS after it was set, whether or not the run is over: three
\* renditions of up to transcode_timeout each, and the wait for the permit.
ExpireLock ==
  /\ lock # NoRun
  /\ Upset
  /\ lapsed' = lapsed \cup {lock}
  /\ lock' = NoRun
  /\ UNCHANGED <<inFlight, run, folders, master, stuck, broken>>

Crash(p) ==
  /\ Upset
  /\ inFlight[p]
  /\ inFlight' = [inFlight EXCEPT ![p] = FALSE]
  /\ run' = [r \in Runs |-> IF run[r].proc = p /\ run[r].at # "idle" THEN [run[r] EXCEPT !.at = "ended"] ELSE run[r]]
  /\ stuck' = stuck \ {p}
  /\ broken' = (broken \/ \E r \in Runs : run[r].proc = p /\ Writing(r))
  /\ UNCHANGED <<lock, folders, master, lapsed>>

HlsNext ==
  \/ \E r \in Runs :
       \/ \E p \in Processes : BeginHls(r, p)
       \/ LockFree(r) \/ LockTaken(r) \/ LockUnavailable(r) \/ DropRequest(r)
       \/ WaitForPermit(r) \/ MakeFolder(r) \/ EncodeRendition(r) \/ RunFails(r) \/ WriteMaster(r)
       \/ ReleaseLock(r) \/ ReleaseFails(r)
  \/ ExpireLock
  \/ \E p \in Processes : Crash(p)

HlsSpec == HlsInit /\ [][HlsNext]_hlsVars

\* What the status endpoint says.
HlsStatus == IF master THEN "ready" ELSE IF folders > 0 THEN "processing" ELSE "not_started"

-----------------------------------------------------------------------------
\* Two runs write the directory at the same time only when one of them has no
\* lock, because Redis failed it or the lifetime ended under it, and never in
\* one process.
OneHlsWriter == \A r, s \in Runs :
  r # s /\ Writing(r) /\ Writing(s) => {r, s} \cap lapsed # {} /\ run[r].proc # run[s].proc

\* A process refuses the video only while one of its runs is under way, unless a
\* dropped request left it in the set; and the status says "processing" only
\* then, unless a run broke off.
HlsMayStart ==
  /\ \A p \in Processes : inFlight[p] => \/ p \in stuck
                                         \/ \E r \in Runs : run[r].proc = p /\ run[r].at \in
                                              {"claimed", "queued", "open", "encoding", "master"}
  /\ HlsStatus = "processing" => broken \/ \E r \in Runs : Writing(r)

\* Both: the exclusion is neither too weak nor left behind.
HlsExclusive == OneHlsWriter /\ HlsMayStart
=============================================================================
