--------------------------- MODULE ServicesProofs ---------------------------
(***************************************************************************)
(* What TLAPS proves of the small services: of HlsRuns, for every number   *)
(* of processes, requests, renditions, Redis errors, crashes and dropped   *)
(* requests; of MediaAccess, for every number of requests, tokens, videos  *)
(* and chat files, whatever is asked and however often what the requests   *)
(* read changes under them; of Discovery, for every catalogue, every set   *)
(* of requests for feeds and searches, and every size of a page, a list or *)
(* a batch of scores; of Throttling, for every policy under which an       *)
(* attempt can pass at all, every range and every limit of bytes.          *)
(***************************************************************************)
EXTENDS HlsRuns, MediaAccess, Discovery, Throttling, FiniteSetTheorems, SequenceTheorems, WellFoundedInduction,
        NaturalsInduction, TLAPS

-----------------------------------------------------------------------------
(***************************************************************************)
(* The transcodes to HLS.                                                  *)
(***************************************************************************)
Steps == {"idle", "claimed", "queued", "open", "encoding", "master", "releasing", "ended"}
Encoding == {"queued", "open", "encoding", "master"}
Active == {"claimed"} \cup Encoding

RunRecord == [at : Steps, proc : Processes \cup {NoRun}, guard : BOOLEAN, done : Nat]

HlsTypeOK ==
  /\ inFlight \in [Processes -> BOOLEAN]
  /\ lock \in Runs \cup {NoRun}
  /\ run \in [Runs -> RunRecord]

\* A run that is under way has its process' set, alone; and the lock, unless it lapsed.
Claimed == \A r \in Runs : run[r].at \in Active => run[r].proc \in Processes /\ inFlight[run[r].proc]
Alone == \A r, s \in Runs : r # s /\ run[r].at \in Active /\ run[s].at \in Active => run[r].proc # run[s].proc
Locked == \A r \in Runs : run[r].at \in Encoding => r \in lapsed \/ lock = r

\* The set keeps nobody out for nothing, and the status says "processing" of a run.
SetKept(p) == inFlight[p] => p \in stuck \/ \E r \in Runs : run[r].proc = p /\ run[r].at \in Active
Shown == ~master /\ folders # 0 => broken \/ \E r \in Runs : Writing(r)

HlsInv ==
  /\ HlsTypeOK /\ folders \in Nat
  /\ Claimed /\ Alone /\ Locked /\ Shown
  /\ \A p \in Processes : SetKept(p)

\* Changes of the fields of one run keep the typing of the runs.
LEMMA RunTyped ==
  ASSUME run \in [Runs -> RunRecord], NEW r \in Runs,
         NEW at \in Steps, NEW p \in Processes \cup {NoRun}, NEW g \in BOOLEAN, NEW n \in Nat
  PROVE  /\ [run EXCEPT ![r].at = at] \in [Runs -> RunRecord]
         /\ [run EXCEPT ![r].at = at, ![r].proc = p] \in [Runs -> RunRecord]
         /\ [run EXCEPT ![r].at = at, ![r].guard = g] \in [Runs -> RunRecord]
         /\ [run EXCEPT ![r].done = n, ![r].at = at] \in [Runs -> RunRecord]
BY DEF RunRecord

\* The typing is kept by every step.
LEMMA HlsStepTyped == HlsTypeOK /\ HlsNext => HlsTypeOK'
<1> SUFFICES ASSUME HlsTypeOK, HlsNext PROVE HlsTypeOK'
  OBVIOUS
<1> USE DEF HlsTypeOK
<1>0. ASSUME NEW r \in Runs, NEW at \in Steps, Move(r, at) PROVE run' \in [Runs -> RunRecord]
  BY <1>0, RunTyped DEF Move
<1>1. ASSUME NEW r \in Runs, NEW p \in Processes, BeginHls(r, p) PROVE HlsTypeOK'
  <2>1. CASE inFlight[p]
    <3>1. run' = [run EXCEPT ![r].at = "ended", ![r].proc = p]
      BY <1>1, <2>1 DEF BeginHls
    <3>2. run' \in [Runs -> RunRecord]
      BY <3>1, RunTyped DEF Steps
    <3> QED
      BY <1>1, <3>2 DEF BeginHls
  <2>2. CASE ~inFlight[p]
    <3>1. run' = [run EXCEPT ![r].at = "claimed", ![r].proc = p]
      BY <1>1, <2>2 DEF BeginHls
    <3>2. run' \in [Runs -> RunRecord]
      BY <3>1, RunTyped DEF Steps
    <3> QED
      BY <1>1, <3>2 DEF BeginHls
  <2> QED
    BY <2>1, <2>2
<1>2. ASSUME NEW r \in Runs, LockFree(r) PROVE HlsTypeOK'
  BY <1>2, RunTyped DEF LockFree, Steps
<1>3. ASSUME NEW r \in Runs, LockTaken(r) \/ LockUnavailable(r) \/ DropRequest(r) \/ WaitForPermit(r)
                             \/ MakeFolder(r) \/ ReleaseLock(r) \/ ReleaseFails(r)
      PROVE  HlsTypeOK'
  <2>1. \E at \in Steps : Move(r, at)
    BY <1>3 DEF LockTaken, LockUnavailable, DropRequest, WaitForPermit, MakeFolder, ReleaseLock,
                ReleaseFails, Steps
  <2>2. run' \in [Runs -> RunRecord]
    BY <1>0, <2>1
  <2>3. lock' \in Runs \cup {NoRun} /\ inFlight' \in [Processes -> BOOLEAN]
    BY <1>3 DEF LockTaken, LockUnavailable, DropRequest, WaitForPermit, MakeFolder, ReleaseLock,
                ReleaseFails, Unlock
  <2> QED
    BY <2>2, <2>3
<1>4. ASSUME NEW r \in Runs, RunFails(r) \/ WriteMaster(r) PROVE HlsTypeOK'
  <2>1. \E at \in Steps : Move(r, at)
    BY <1>4 DEF RunFails, WriteMaster, EndRun, Steps
  <2>2. run' \in [Runs -> RunRecord]
    BY <1>0, <2>1
  <2> QED
    BY <1>4, <2>2 DEF RunFails, WriteMaster, EndRun
<1>5. ASSUME NEW r \in Runs, EncodeRendition(r) PROVE HlsTypeOK'
  <2>1. run[r].done + 1 \in Nat
    BY DEF RunRecord
  <2> DEFINE at == IF run[r].done + 1 < Renditions THEN "open" ELSE "master"
  <2>2. at \in Steps
    BY DEF Steps
  <2>3. run' = [run EXCEPT ![r].done = run[r].done + 1, ![r].at = at]
    BY <1>5 DEF EncodeRendition
  <2> HIDE DEF at
  <2>4. run' \in [Runs -> RunRecord]
    BY <2>1, <2>2, <2>3, RunTyped
  <2> QED
    BY <1>5, <2>4 DEF EncodeRendition
<1>6. CASE ExpireLock
  BY <1>6 DEF ExpireLock
<1>7. ASSUME NEW p \in Processes, Crash(p) PROVE HlsTypeOK'
  BY <1>7 DEF Crash, RunRecord, Steps
<1> QED
  BY <1>1, <1>2, <1>3, <1>4, <1>5, <1>6, <1>7 DEF HlsNext

\* The exclusion of the set: one run under way in a process, and the set knows it.
LEMMA HlsStepClaimed ==
  HlsTypeOK /\ Claimed /\ Alone /\ HlsNext => Claimed' /\ Alone'
<1> SUFFICES ASSUME HlsTypeOK, Claimed, Alone, HlsNext PROVE Claimed' /\ Alone'
  OBVIOUS
<1> USE DEF HlsTypeOK, RunRecord, Claimed, Alone, Move, Active, Encoding
<1>1. ASSUME NEW r \in Runs, NEW p \in Processes, BeginHls(r, p) PROVE Claimed' /\ Alone'
  BY <1>1 DEF BeginHls
<1>2. ASSUME NEW r \in Runs, LockFree(r) \/ LockUnavailable(r) \/ DropRequest(r) \/ WaitForPermit(r)
      PROVE  Claimed' /\ Alone'
  BY <1>2 DEF LockFree, LockUnavailable, DropRequest, WaitForPermit
<1>3. ASSUME NEW r \in Runs, MakeFolder(r) \/ EncodeRendition(r) PROVE Claimed' /\ Alone'
  <2>1. /\ run[r].at \in Active /\ run'[r].at \in Active /\ run'[r].proc = run[r].proc
        /\ inFlight' = inFlight
        /\ \A s \in Runs : s # r => run'[s] = run[s]
    <3>1. CASE MakeFolder(r)
      BY <3>1 DEF MakeFolder
    <3>2. CASE EncodeRendition(r)
      BY <3>2 DEF EncodeRendition
    <3> QED BY <1>3, <3>1, <3>2
  <2>2. Claimed'
    BY <2>1
  <2>3. Alone'
    BY <2>1
  <2> QED BY <2>2, <2>3
<1>4. ASSUME NEW r \in Runs, LockTaken(r) \/ RunFails(r) \/ WriteMaster(r) PROVE Claimed' /\ Alone'
  <2>1. /\ run[r].at \in Active /\ run'[r].at \notin Active
        /\ inFlight' = [inFlight EXCEPT ![run[r].proc] = FALSE]
        /\ \A s \in Runs : s # r => run'[s] = run[s]
    <3>1. CASE LockTaken(r)
      BY <3>1 DEF LockTaken
    <3>2. CASE RunFails(r)
      BY <3>2 DEF RunFails, EndRun, Writing
    <3>3. CASE WriteMaster(r)
      BY <3>3 DEF WriteMaster, EndRun
    <3> QED BY <1>4, <3>1, <3>2, <3>3
  <2> QED
    BY <2>1
<1>5. ASSUME NEW r \in Runs, ReleaseLock(r) \/ ReleaseFails(r) PROVE Claimed' /\ Alone'
  <2>1. /\ run'[r].at \notin Active /\ inFlight' = inFlight
        /\ \A s \in Runs : s # r => run'[s] = run[s]
    <3>1. CASE ReleaseLock(r)
      BY <3>1 DEF ReleaseLock
    <3>2. CASE ReleaseFails(r)
      BY <3>2 DEF ReleaseFails
    <3> QED BY <1>5, <3>1, <3>2
  <2> QED BY <2>1
<1>6. CASE ExpireLock
  BY <1>6 DEF ExpireLock
<1>7. ASSUME NEW p \in Processes, Crash(p) PROVE Claimed' /\ Alone'
  <2>1. \A s \in Runs : run'[s].at \in Active =>
           run'[s].proc = run[s].proc /\ run[s].at \in Active /\ run[s].proc # p
    BY <1>7 DEF Crash, Steps
  <2>2. inFlight' = [inFlight EXCEPT ![p] = FALSE]
    BY <1>7 DEF Crash
  <2> QED
    BY <2>1, <2>2
<1> QED
  BY <1>1, <1>2, <1>3, <1>4, <1>5, <1>6, <1>7 DEF HlsNext

\* The lock: who encodes without it is known to have lost it, or never to have had it.
LEMMA HlsStepLocked == HlsTypeOK /\ Locked /\ HlsNext => Locked'
<1> SUFFICES ASSUME HlsTypeOK, Locked, HlsNext PROVE Locked'
  OBVIOUS
<1> USE DEF HlsTypeOK, RunRecord, Locked, Move, Encoding
<1>1. ASSUME NEW r \in Runs, NEW p \in Processes, BeginHls(r, p) PROVE Locked'
  BY <1>1 DEF BeginHls
<1>2. ASSUME NEW r \in Runs, LockFree(r) PROVE Locked'
  BY <1>2, HlsAssumption DEF LockFree
<1>3. ASSUME NEW r \in Runs, LockTaken(r) \/ LockUnavailable(r) \/ DropRequest(r) \/ WaitForPermit(r)
      PROVE  Locked'
  BY <1>3, HlsAssumption DEF LockTaken, LockUnavailable, DropRequest, WaitForPermit
<1>4. ASSUME NEW r \in Runs, MakeFolder(r) \/ EncodeRendition(r) \/ RunFails(r) \/ WriteMaster(r)
      PROVE  Locked'
  BY <1>4 DEF MakeFolder, EncodeRendition, RunFails, WriteMaster, EndRun
<1>5. ASSUME NEW r \in Runs, ReleaseLock(r) \/ ReleaseFails(r) PROVE Locked'
  BY <1>5 DEF ReleaseLock, ReleaseFails, Unlock
<1>6. CASE ExpireLock
  BY <1>6 DEF ExpireLock
<1>7. ASSUME NEW p \in Processes, Crash(p) PROVE Locked'
  BY <1>7 DEF Crash, Steps
<1> QED
  BY <1>1, <1>2, <1>3, <1>4, <1>5, <1>6, <1>7 DEF HlsNext

\* Who is in the set is under way, or was dropped.
LEMMA HlsStepKept ==
  ASSUME HlsTypeOK, Claimed, \A p \in Processes : SetKept(p), HlsNext
  PROVE  \A p \in Processes : SetKept(p)'
<1> USE DEF HlsTypeOK, RunRecord, SetKept, Move, Active, Encoding
<1>1. ASSUME NEW r \in Runs, NEW q \in Processes, BeginHls(r, q) PROVE \A p \in Processes : SetKept(p)'
  <2>1. \A s \in Runs : run[s].at \in Active => s # r /\ run'[s] = run[s]
    BY <1>1 DEF BeginHls
  <2>2. CASE inFlight[q]
    BY <1>1, <2>1, <2>2 DEF BeginHls
  <2>3. CASE ~inFlight[q]
    <3>1. run'[r].proc = q /\ run'[r].at = "claimed" /\ inFlight' = [inFlight EXCEPT ![q] = TRUE] /\ stuck' = stuck
      BY <1>1, <2>3 DEF BeginHls
    <3> QED
      BY <2>1, <3>1
  <2> QED
    BY <2>2, <2>3
<1>2. ASSUME NEW r \in Runs, LockFree(r) \/ LockUnavailable(r) \/ WaitForPermit(r)
                             \/ MakeFolder(r) \/ EncodeRendition(r)
      PROVE  \A p \in Processes : SetKept(p)'
  <2>1. /\ run'[r].at \in Active /\ run'[r].proc = run[r].proc /\ \A s \in Runs : s # r => run'[s] = run[s]
        /\ inFlight' = inFlight /\ stuck' = stuck
    BY <1>2 DEF LockFree, LockUnavailable, WaitForPermit, MakeFolder, EncodeRendition
  <2> QED
    BY <2>1
<1>3. ASSUME NEW r \in Runs, LockTaken(r) \/ RunFails(r) \/ WriteMaster(r)
      PROVE  \A p \in Processes : SetKept(p)'
  <2>1. /\ inFlight' = [inFlight EXCEPT ![run[r].proc] = FALSE] /\ stuck' = stuck
        /\ \A s \in Runs : s # r => run'[s] = run[s]
    BY <1>3 DEF LockTaken, RunFails, WriteMaster, EndRun
  <2> QED
    BY <2>1
<1>4. ASSUME NEW r \in Runs, DropRequest(r) PROVE \A p \in Processes : SetKept(p)'
  <2>1. /\ inFlight' = inFlight /\ stuck' = stuck \cup {run[r].proc}
        /\ \A s \in Runs : s # r => run'[s] = run[s]
    BY <1>4 DEF DropRequest
  <2> QED
    BY <2>1
<1>5. ASSUME NEW r \in Runs, ReleaseLock(r) \/ ReleaseFails(r) PROVE \A p \in Processes : SetKept(p)'
  <2>1. run[r].at \notin Active /\ inFlight' = inFlight /\ stuck' = stuck /\ \A s \in Runs : s # r => run'[s] = run[s]
    BY <1>5 DEF ReleaseLock, ReleaseFails
  <2> QED
    BY <2>1
<1>6. CASE ExpireLock
  BY <1>6 DEF ExpireLock
<1>7. ASSUME NEW q \in Processes, Crash(q) PROVE \A p \in Processes : SetKept(p)'
  <2>1. inFlight' = [inFlight EXCEPT ![q] = FALSE] /\ stuck' = stuck \ {q}
    BY <1>7 DEF Crash
  <2>2. \A s \in Runs : run[s].proc # q => run'[s] = run[s]
    BY <1>7 DEF Crash
  <2> QED
    BY <2>1, <2>2
<1> QED
  BY <1>1, <1>2, <1>3, <1>4, <1>5, <1>6, <1>7 DEF HlsNext

\* Directories without a master playlist are those of a run, or of one that broke off.
LEMMA HlsStepShown ==
  ASSUME HlsTypeOK, Shown, HlsNext
  PROVE  Shown'
<1> USE DEF HlsTypeOK, RunRecord, Shown, Writing, Move
<1>1. ASSUME NEW r \in Runs, NEW p \in Processes, BeginHls(r, p) PROVE Shown'
  BY <1>1 DEF BeginHls
<1>2. ASSUME NEW r \in Runs, LockFree(r) \/ LockTaken(r) \/ LockUnavailable(r) \/ DropRequest(r) \/ WaitForPermit(r)
                             \/ ReleaseLock(r) \/ ReleaseFails(r)
      PROVE  Shown'
  <2>1. /\ ~Writing(r) /\ \A s \in Runs : s # r => run'[s] = run[s]
        /\ UNCHANGED <<master, folders, broken>>
    BY <1>2 DEF LockFree, LockTaken, LockUnavailable, DropRequest, WaitForPermit, ReleaseLock, ReleaseFails
  <2> QED
    BY <2>1
<1>3. ASSUME NEW r \in Runs, MakeFolder(r) \/ EncodeRendition(r) PROVE Shown'
  BY <1>3 DEF MakeFolder, EncodeRendition
<1>4. ASSUME NEW r \in Runs, RunFails(r) \/ WriteMaster(r) PROVE Shown'
  BY <1>4 DEF RunFails, WriteMaster
<1>5. CASE ExpireLock
  BY <1>5 DEF ExpireLock
<1>6. ASSUME NEW q \in Processes, Crash(q) PROVE Shown'
  <2>1. UNCHANGED <<master, folders>> /\ (broken => broken')
    BY <1>6 DEF Crash
  <2>2. \A s \in Runs : Writing(s) => broken' \/ run'[s] = run[s]
    BY <1>6 DEF Crash
  <2> QED
    BY <2>1, <2>2
<1> QED
  BY <1>1, <1>2, <1>3, <1>4, <1>5, <1>6 DEF HlsNext

LEMMA InitHlsInv == HlsInit => HlsInv
BY DEF HlsInit, HlsInv, HlsTypeOK, Claimed, Alone, Locked, Shown, SetKept, NotRunning, Active, Encoding,
       Steps, RunRecord

LEMMA HlsStepFolders == HlsTypeOK /\ folders \in Nat /\ HlsNext => folders' \in Nat
<1> SUFFICES ASSUME HlsTypeOK, folders \in Nat, HlsNext PROVE folders' \in Nat
  OBVIOUS
<1>1. ASSUME NEW r \in Runs, MakeFolder(r) PROVE folders' \in Nat
  BY <1>1 DEF MakeFolder, HlsTypeOK, RunRecord
<1>2. CASE \A r \in Runs : ~MakeFolder(r)
  <2>1. UNCHANGED folders
    BY <1>2 DEF HlsNext, BeginHls, LockFree, LockTaken, LockUnavailable, DropRequest, WaitForPermit,
                EncodeRendition, RunFails, WriteMaster, ReleaseLock, ReleaseFails, ExpireLock, Crash
  <2> QED
    BY <2>1
<1> QED
  BY <1>1, <1>2

\* The invariant says no less than the property.
LEMMA InvExcludes == HlsInv => HlsExclusive
<1> SUFFICES ASSUME HlsInv PROVE HlsExclusive
  OBVIOUS
<1>1. OneHlsWriter
  BY DEF HlsInv, Alone, Locked, OneHlsWriter, Writing, Active, Encoding
<1>2. HlsMayStart
  BY DEF HlsInv, Shown, SetKept, HlsMayStart, HlsStatus, Active, Encoding
<1> QED
  BY <1>1, <1>2 DEF HlsExclusive

\* Two runs write the HLS directory at once only where one of them lost the lock of Redis
\* and they are in two processes; and a process refuses the video, or shows it as being
\* processed, only while a run is under way, or after one was dropped or broke off.
THEOREM HlsIsExclusive == HlsSpec => []HlsExclusive
<1>1. HlsInv /\ [HlsNext]_hlsVars => HlsInv'
  <2>1. CASE HlsNext
    BY <2>1, HlsStepTyped, HlsStepClaimed, HlsStepLocked, HlsStepKept, HlsStepShown, HlsStepFolders
       DEF HlsInv
  <2>2. CASE UNCHANGED hlsVars
    BY <2>2 DEF hlsVars, HlsInv, HlsTypeOK, Claimed, Alone, Locked, Shown, SetKept, Writing
  <2> QED
    BY <2>1, <2>2
<1> QED
  BY <1>1, InitHlsInv, InvExcludes, PTL DEF HlsSpec

-----------------------------------------------------------------------------
(***************************************************************************)
(* The access to media.                                                    *)
(***************************************************************************)
\* Where a request is judged as that of a login, and where as one for a file of a video.
LoggedIn == {"fillauth", "judge", "fillref", "filldetail", "owner", "shareonly", "sharetoo", "header"}
AtVideo == {"filldetail", "owner", "shareonly", "sharetoo", "header"}
Ended == {"served", "refused"}

Was(r, fact) == fact \in req[r].seen

\* What makes a request one that may be served, but for the site it comes from.
Entitled(r) ==
  LET path == PathOf(r)
      in == Was(r, <<"login", TokenOf(r)>>)
      mine == IsAdmin(UserOf(TokenOf(r))) \/ UploaderOf(path.of) = UserOf(TokenOf(r))
      playing == Was(r, <<"session", path.of>>) /\ ~req[r].ask.mismatch
  IN CASE path.kind = "avatar" -> in
       [] path.kind = "chat" -> in /\ Was(r, <<"message", path.of>>)
       [] path.kind \in {"stray", "badchat"} -> FALSE
       [] OTHER -> \/ Was(r, <<"share", path.of>>)
                   \/ in /\ mine /\ Was(r, <<"row", path.of>>) /\ (IsPreview(path) \/ playing)

\* What has been found of a request when it is at a step.
Judged(r) ==
  /\ req[r].at \in LoggedIn => TokenOf(r) # Anonymous /\ Was(r, <<"login", TokenOf(r)>>)
  /\ req[r].at = "fillref" => IsValidChatMedia(PathOf(r)) /\ Was(r, <<"message", PathOf(r).of>>)
  /\ req[r].at \in AtVideo => /\ PathOf(r).kind \in NamedById \cup {"stream", "still"}
                              /\ req[r].video = PathOf(r).of /\ req[r].video \in Videos
                              /\ Was(r, <<"row", req[r].video>>)
  /\ req[r].at \in {"sharetoo", "header"} => IsOwner(r) /\ ~IsPreview(PathOf(r))
  /\ req[r].at = "header" => \/ Was(r, <<"session", req[r].video>>)
                             \/ Was(r, <<"share", req[r].video>>)
  /\ req[r].at = "sharefile" => Was(r, <<"share", req[r].ask.share>>)
  /\ req[r].at \in {"passed", "served"} => Entitled(r)
  /\ req[r].at = "served" => ~OffSite(req[r].ask)

AccessSteps == LoggedIn \cup Ended \cup {"resolve", "share", "sharefile", "passed"}

AskedFor == Asks \cup {Warm(ask) : ask \in Asks}

Subjects == Videos \cup UNION {{ask.token, ask.share, ask.path.of} : ask \in AskedFor}

Facts == {"login", "row", "session", "share", "message"} \X Subjects

RequestRecord ==
  [at : AccessSteps, video : Subjects \cup {NoVideo}, seen : SUBSET Facts, ask : AskedFor]

AccessInv ==
  /\ req \in [Requests -> RequestRecord]
  /\ videoRows \subseteq Videos /\ details \subseteq Videos
  /\ \A r \in Requests : Judged(r)

\* Remembering more keeps what has been found.
LEMMA SeenMore ==
  ASSUME NEW r, Judged(r), req'[r].at = req[r].at, req'[r].video = req[r].video,
         req'[r].ask = req[r].ask, req[r].seen \subseteq req'[r].seen
  PROVE  Judged(r)'
<1>1. Entitled(r) => Entitled(r)'
  BY DEF Entitled, Was, PathOf, TokenOf
<1> QED
  BY <1>1 DEF Judged, Was, PathOf, TokenOf, IsOwner

LEMMA HeldFacts == ASSUME NEW ask \in AskedFor PROVE Held(ask) \subseteq Facts
<1>1. {ask.token, ask.share, ask.path.of} \subseteq Subjects /\ Videos \subseteq Subjects
  BY DEF Subjects
<1>2. \A fact \in Held(ask) :
        \/ fact = <<"login", ask.token>> \/ fact = <<"share", ask.share>>
        \/ \E x \in {ask.path.of} \cup Videos, kind \in {"row", "session", "message"} : fact = <<kind, x>>
  BY DEF Held
<1> QED
  BY <1>1, <1>2 DEF Facts

LEMMA Noted ==
  ASSUME NEW q \in RequestRecord
  PROVE  LET noted == [q EXCEPT !.seen = q.seen \cup Held(q.ask)]
         IN /\ noted \in RequestRecord
            /\ noted.at = q.at /\ noted.video = q.video /\ noted.ask = q.ask
            /\ noted.seen = q.seen \cup Held(q.ask)
<1>1. q.seen \cup Held(q.ask) \in SUBSET Facts
  BY HeldFacts DEF RequestRecord
<1> QED
  BY <1>1 DEF RequestRecord

LEMMA Remembered ==
  ASSUME req \in [Requests -> RequestRecord], req' = Remember(req)
  PROVE  /\ req' \in [Requests -> RequestRecord]
         /\ \A r \in Requests : /\ req'[r].at = req[r].at /\ req'[r].video = req[r].video
                                /\ req'[r].ask = req[r].ask /\ req[r].seen \subseteq req'[r].seen
<1>1. ASSUME NEW r \in Requests
      PROVE  /\ req'[r] \in RequestRecord /\ req'[r].at = req[r].at /\ req'[r].video = req[r].video
             /\ req'[r].ask = req[r].ask /\ req[r].seen \subseteq req'[r].seen
  <2>1. req'[r] = req[r] \/ req'[r] = [req[r] EXCEPT !.seen = req[r].seen \cup Held(req[r].ask)]
    BY DEF Remember
  <2> QED
    BY <2>1, Noted
<1>2. req' = [r \in Requests |-> req'[r]]
  BY DEF Remember
<1> QED
  BY <1>1, <1>2

\* A step moves one request, which remembers what bears on it; the others only remember.
LEMMA Moved ==
  ASSUME req \in [Requests -> RequestRecord], NEW r \in Requests, req[r].at \notin Ended,
         NEW at \in AccessSteps, NEW v \in Subjects \cup {NoVideo}, StepOn(r, at, v)
  PROVE  /\ req' \in [Requests -> RequestRecord]
         /\ \A q \in Requests \ {r} :
              /\ req'[q].at = req[q].at /\ req'[q].video = req[q].video
              /\ req'[q].ask = req[q].ask /\ req[q].seen \subseteq req'[q].seen
         /\ req'[r].at = at /\ req'[r].video = v /\ req'[r].ask = req[r].ask
         /\ req'[r].seen = req[r].seen \cup Held(req[r].ask)
<1> DEFINE new == [req EXCEPT ![r].at = at, ![r].video = v]
<1>1. req' = Remember(new)
  BY DEF StepOn
<1>2. /\ new \in [Requests -> RequestRecord]
      /\ \A q \in Requests \ {r} : new[q] = req[q]
      /\ new[r].at = at /\ new[r].video = v /\ new[r].ask = req[r].ask /\ new[r].seen = req[r].seen
  BY DEF RequestRecord
<1> HIDE DEF new
<1>3. ASSUME NEW q \in Requests \ {r}
      PROVE  /\ req'[q] \in RequestRecord /\ req'[q].at = req[q].at /\ req'[q].video = req[q].video
             /\ req'[q].ask = req[q].ask /\ req[q].seen \subseteq req'[q].seen
  <2>1. \/ req'[q] = req[q]
        \/ req'[q] = [req[q] EXCEPT !.seen = req[q].seen \cup Held(req[q].ask)]
    BY <1>1, <1>2 DEF Remember
  <2>2. PICK old \in RequestRecord : old = req[q]
    OBVIOUS
  <2>3. PICK noted : noted = [old EXCEPT !.seen = old.seen \cup Held(old.ask)]
    OBVIOUS
  <2>4. /\ noted \in RequestRecord /\ noted.at = old.at /\ noted.video = old.video /\ noted.ask = old.ask
        /\ noted.seen = old.seen \cup Held(old.ask)
    BY <2>3, Noted
  <2>5. req'[q] = old \/ req'[q] = noted
    BY ONLY <2>1, <2>2, <2>3
  <2> QED
    BY <2>2, <2>4, <2>5
<1>4. /\ req'[r] \in RequestRecord /\ req'[r].at = at /\ req'[r].video = v
      /\ req'[r].ask = req[r].ask /\ req'[r].seen = req[r].seen \cup Held(req[r].ask)
  <2>1. req'[r] = [new[r] EXCEPT !.seen = new[r].seen \cup Held(new[r].ask)]
    BY <1>1, <1>2 DEF Remember, Ended
  <2> QED
    BY <1>2, <2>1, Noted
<1>5. req' = [q \in Requests |-> req'[q]]
  BY <1>1 DEF Remember
<1> QED
  BY <1>3, <1>4, <1>5

LEMMA StepIsStepOn ==
  ASSUME req \in [Requests -> RequestRecord], NEW r \in Requests, NEW at, Step(r, at)
  PROVE  StepOn(r, at, req[r].video)
<1>1. [req EXCEPT ![r].at = at] = [req EXCEPT ![r].at = at, ![r].video = req[r].video]
  BY DEF RequestRecord
<1> QED
  BY <1>1 DEF Step, StepOn

-----------------------------------------------------------------------------
\* The steps of one request.
LEMMA RequestKeeps ==
  ASSUME AccessInv, NEW r \in Requests, req[r].at \notin Ended,
         NEW at \in AccessSteps, NEW v \in Subjects \cup {NoVideo}, StepOn(r, at, v),
         videoRows' = videoRows, details' \subseteq Videos, Judged(r)'
  PROVE  AccessInv'
<1>1. ASSUME NEW q \in Requests \ {r} PROVE Judged(q)'
  BY <1>1, Moved, SeenMore DEF AccessInv
<1> QED
  BY <1>1, Moved DEF AccessInv

LEMMA ChangeKeeps ==
  ASSUME AccessInv, req' = Remember(req), videoRows' \subseteq Videos, details' \subseteq Videos
  PROVE  AccessInv'
BY Remembered, SeenMore DEF AccessInv

LEMMA WithoutChange == ASSUME AccessInv, UNCHANGED accessVars PROVE AccessInv'
BY DEF AccessInv, accessVars, facts, cached, Judged, Was, Entitled, PathOf, TokenOf, IsOwner

\* What is remembered with a step.
LEMMA Noticed ==
  ASSUME NEW r \in Requests
  PROVE  /\ TokenOf(r) \in logins \cup auth => <<"login", TokenOf(r)>> \in Held(req[r].ask)
         /\ PathOf(r).of \in videoRows \cup details => <<"row", PathOf(r).of>> \in Held(req[r].ask)
         /\ \A w \in Videos : TokenOf(r) # Anonymous /\ <<UserOf(TokenOf(r)), w>> \in sessions
                             => <<"session", w>> \in Held(req[r].ask)
         /\ req[r].ask.share \in shares => <<"share", req[r].ask.share>> \in Held(req[r].ask)
         /\ PathOf(r).of \in referenced \cup refs => <<"message", PathOf(r).of>> \in Held(req[r].ask)
BY DEF Held, TokenOf, PathOf

LEMMA MediaAuthKeeps ==
  ASSUME AccessInv, NEW r \in Requests, MediaAuth(r)
  PROVE  AccessInv'
<1> USE DEF facts, cached
<1> DEFINE Moves(at, v) == /\ req'[r].at = at /\ req'[r].video = v /\ req'[r].ask = req[r].ask
                           /\ req'[r].seen = req[r].seen \cup Held(req[r].ask)
<1>1. /\ req \in [Requests -> RequestRecord] /\ req[r] \in RequestRecord /\ Judged(r)
      /\ videoRows \subseteq Videos /\ details \subseteq Videos
  BY DEF AccessInv
<1>2. ASSUME NEW at \in AccessSteps, NEW v \in Subjects \cup {NoVideo}, StepOn(r, at, v),
             req[r].at \notin Ended, videoRows' = videoRows, details' \subseteq Videos,
             Moves(at, v) => Judged(r)'
      PROVE  AccessInv'
  BY <1>1, <1>2, Moved, RequestKeeps
<1>3. req[r].video \in Subjects \cup {NoVideo}
  BY <1>1 DEF RequestRecord
<1>4. ASSUME NEW at \in AccessSteps, Step(r, at),
             req[r].at \notin Ended, videoRows' = videoRows, details' \subseteq Videos,
             Moves(at, req[r].video) => Judged(r)'
      PROVE  AccessInv'
  BY <1>1, <1>2, <1>3, <1>4, StepIsStepOn
<1> HIDE DEF Moves
<1>5. CASE ResolveMediaUser(r)
  <2>1. PICK at \in {"share", "judge", "fillauth", "refused"} :
           /\ Step(r, at) /\ req[r].at = "resolve" /\ UNCHANGED <<facts, cached>>
           /\ at \in {"judge", "fillauth"} => TokenOf(r) # Anonymous /\ TokenOf(r) \in logins \cup auth
    BY <1>5 DEF ResolveMediaUser, At
  <2>2. Moves(at, req[r].video) => Judged(r)'
    BY <2>1, Noticed DEF Judged, Moves, Was, LoggedIn, AtVideo, TokenOf
  <2> QED
    BY <1>1, <1>4, <2>1, <2>2 DEF AccessSteps, LoggedIn, Ended
<1>6. CASE FillAuth(r)
  <2>1. Step(r, "judge") /\ req[r].at = "fillauth"
    BY <1>6 DEF FillAuth, At
  <2>2. Moves("judge", req[r].video) => Judged(r)'
    BY <1>1, <2>1 DEF Judged, Moves, Was, LoggedIn, AtVideo, TokenOf
  <2> QED
    BY <1>1, <1>4, <1>6, <2>1, <2>2 DEF FillAuth, AccessSteps, LoggedIn, Ended
<1>7. CASE JudgeChat(r)
  <2>1. PICK at \in {"refused", "passed", "fillref"} :
           /\ Step(r, at) /\ req[r].at = "judge" /\ UNCHANGED <<facts, cached>>
           /\ at # "refused" => /\ PathOf(r).kind = "chat"
                               /\ PathOf(r).of \in referenced \cup refs
    BY <1>7 DEF JudgeChat, At, IsValidChatMedia
  <2>2. Moves(at, req[r].video) => Judged(r)'
    BY <1>1, <2>1, Noticed
       DEF Judged, Entitled, Moves, Was, LoggedIn, AtVideo, TokenOf, PathOf, IsValidChatMedia
  <2> QED
    BY <1>1, <1>4, <2>1, <2>2 DEF AccessSteps, LoggedIn, Ended
<1>8. CASE FillRef(r)
  <2>1. Step(r, "passed") /\ req[r].at = "fillref"
    BY <1>8 DEF FillRef, At
  <2>2. Moves("passed", req[r].video) => Judged(r)'
    BY <1>1, <2>1
       DEF Judged, Entitled, Moves, Was, LoggedIn, AtVideo, TokenOf, PathOf, IsValidChatMedia
  <2> QED
    BY <1>1, <1>4, <1>8, <2>1, <2>2 DEF FillRef, AccessSteps, LoggedIn, Ended
<1>9. CASE JudgeVideo(r)
  <2>1. req[r].at = "judge" /\ UNCHANGED <<facts, cached>>
    BY <1>9 DEF JudgeVideo, At
  <2>2. CASE PathVideoId(PathOf(r)) # NoVideo
    <3>1. PathOf(r).kind \in NamedById /\ PathVideoId(PathOf(r)) = PathOf(r).of
      BY <2>2 DEF PathVideoId
    <3>2. PICK at \in {"owner", "filldetail", "refused"} :
             /\ StepOn(r, at, PathOf(r).of)
             /\ at # "refused" => PathOf(r).of \in videoRows \cup details
      BY <1>9, <2>2, <3>1 DEF JudgeVideo
    <3>3. PathOf(r).of \in Subjects
      BY <1>1 DEF RequestRecord, Subjects, PathOf
    <3>4. Moves(at, PathOf(r).of) => Judged(r)'
      BY <1>1, <2>1, <3>1, <3>2, Noticed
         DEF Judged, Moves, Was, LoggedIn, AtVideo, TokenOf, PathOf
    <3> QED
      BY <1>1, <1>2, <2>1, <3>2, <3>3, <3>4 DEF AccessSteps, LoggedIn, AtVideo, Ended
  <2>3. CASE PathVideoId(PathOf(r)) = NoVideo /\ IsPublicStatic(PathOf(r))
    <3>1. Step(r, "passed") /\ PathOf(r).kind = "avatar"
      BY <1>9, <2>3 DEF JudgeVideo, IsPublicStatic
    <3>2. Moves("passed", req[r].video) => Judged(r)'
      BY <1>1, <2>1, <3>1 DEF Judged, Entitled, Moves, Was, LoggedIn, AtVideo, TokenOf, PathOf
    <3> QED
      BY <1>1, <1>4, <2>1, <3>1, <3>2 DEF AccessSteps, LoggedIn, Ended
  <2>4. CASE PathVideoId(PathOf(r)) = NoVideo /\ ~IsPublicStatic(PathOf(r)) /\ FindByStreamUrl(PathOf(r)) = {}
    <3>1. Step(r, "refused")
      BY <1>9, <2>4 DEF JudgeVideo
    <3>2. Moves("refused", req[r].video) => Judged(r)'
      BY DEF Judged, Moves, LoggedIn, AtVideo
    <3> QED
      BY <1>1, <1>4, <2>1, <3>1, <3>2 DEF AccessSteps, LoggedIn, Ended
  <2>5. CASE PathVideoId(PathOf(r)) = NoVideo /\ ~IsPublicStatic(PathOf(r)) /\ FindByStreamUrl(PathOf(r)) # {}
    <3>1. PICK v \in FindByStreamUrl(PathOf(r)) : StepOn(r, "owner", v)
      BY <1>9, <2>5 DEF JudgeVideo
    <3>2. PathOf(r).kind \in {"stream", "still"} /\ v = PathOf(r).of /\ v \in videoRows /\ v \in Subjects
      BY <1>1, <3>1 DEF FindByStreamUrl, Subjects
    <3>3. Moves("owner", v) => Judged(r)'
      BY <1>1, <2>1, <3>1, <3>2, Noticed DEF Judged, Moves, Was, LoggedIn, AtVideo, TokenOf, PathOf
    <3> QED
      BY <1>1, <1>2, <2>1, <3>1, <3>2, <3>3 DEF AccessSteps, LoggedIn, AtVideo, Ended
  <2> QED
    BY <2>2, <2>3, <2>4, <2>5
<1>10. CASE FillDetail(r)
  <2>1. Step(r, "owner") /\ req[r].at = "filldetail"
    BY <1>10 DEF FillDetail, At
  <2>2. Moves("owner", req[r].video) => Judged(r)'
    BY <1>1, <2>1 DEF Judged, Moves, Was, LoggedIn, AtVideo, TokenOf, PathOf
  <2>3. details' \subseteq Videos /\ videoRows' = videoRows
    BY <1>1, <1>10, <2>1 DEF FillDetail, Judged, AtVideo
  <2> QED
    BY <1>1, <1>4, <2>1, <2>2, <2>3 DEF AccessSteps, LoggedIn, Ended
<1>11. CASE JudgeOwner(r)
  <2>1. Step(r, Verdict(r)) /\ req[r].at = "owner" /\ UNCHANGED <<facts, cached>>
    BY <1>11 DEF JudgeOwner, At
  <2>2. /\ Verdict(r) \in {"shareonly", "passed", "header", "sharetoo"}
        /\ Verdict(r) # "shareonly" => IsOwner(r)
        /\ Verdict(r) = "passed" => IsPreview(PathOf(r))
        /\ Verdict(r) \in {"header", "sharetoo"} => ~IsPreview(PathOf(r))
        /\ Verdict(r) = "header" => <<UserOf(TokenOf(r)), req[r].video>> \in sessions
    BY DEF Verdict
  <2>3. Moves(Verdict(r), req[r].video) => Judged(r)'
    BY <1>1, <2>1, <2>2, Noticed
       DEF Judged, Entitled, Moves, Was, LoggedIn, AtVideo, TokenOf, PathOf, IsOwner, NamedById
  <2> QED
    BY <1>1, <1>4, <2>1, <2>2, <2>3 DEF AccessSteps, LoggedIn, Ended
<1>12. CASE JudgeShare(r)
  <2>1. PICK at \in {"refused", "passed", "header"} :
           /\ Step(r, at) /\ req[r].at \in {"shareonly", "sharetoo"} /\ UNCHANGED <<facts, cached>>
           /\ at # "refused" => ShareTokenAuthorizes(r)
           /\ at = "passed" => req[r].at = "shareonly"
           /\ at = "header" => req[r].at = "sharetoo"
    BY <1>12 DEF JudgeShare, At
  <2>2. Moves(at, req[r].video) => Judged(r)'
    BY <1>1, <2>1, Noticed
       DEF Judged, Entitled, Moves, Was, LoggedIn, AtVideo, TokenOf, PathOf, IsOwner, NamedById,
           ShareTokenAuthorizes
  <2> QED
    BY <1>1, <1>4, <2>1, <2>2 DEF AccessSteps, LoggedIn, Ended
<1>13. CASE CheckHeader(r)
  <2>1. PICK at \in {"refused", "passed"} :
           /\ Step(r, at) /\ req[r].at = "header" /\ UNCHANGED <<facts, cached>>
           /\ at # "refused" => ~req[r].ask.mismatch
    BY <1>13 DEF CheckHeader, At
  <2>2. Moves(at, req[r].video) => Judged(r)'
    BY <1>1, <2>1
       DEF Judged, Entitled, Moves, Was, LoggedIn, AtVideo, TokenOf, PathOf, IsOwner, NamedById
  <2> QED
    BY <1>1, <1>4, <2>1, <2>2 DEF AccessSteps, LoggedIn, Ended
<1>14. CASE ShareFallback(r)
  <2>1. PICK at \in {"refused", "passed", "sharefile"} :
           /\ Step(r, at) /\ req[r].at = "share" /\ UNCHANGED <<facts, cached>>
           /\ at # "refused" => req[r].ask.share \in shares
           /\ at = "passed" => /\ PathVideoId(PathOf(r)) # NoVideo
                              /\ PathVideoId(PathOf(r)) = req[r].ask.share
    BY <1>14 DEF ShareFallback, At
  <2>2. Moves(at, req[r].video) => Judged(r)'
    BY <1>1, <2>1, Noticed
       DEF Judged, Entitled, Moves, Was, LoggedIn, AtVideo, TokenOf, PathOf, NamedById, PathVideoId
  <2> QED
    BY <1>1, <1>4, <2>1, <2>2 DEF AccessSteps, LoggedIn, Ended
<1>15. CASE ShareFile(r)
  <2>1. PICK at \in {"refused", "passed"} :
           /\ Step(r, at) /\ req[r].at = "sharefile" /\ UNCHANGED <<facts, cached>>
           /\ at = "passed" => PathOf(r) \in FilesOfShared(req[r].ask.share)
    BY <1>15 DEF ShareFile, At
  <2>2. at = "passed" => /\ PathOf(r).kind \in {"stream", "still", "thumb", "cover"}
                         /\ PathOf(r).of = req[r].ask.share
    BY <2>1 DEF FilesOfShared
  <2>3. Moves(at, req[r].video) => Judged(r)'
    BY <1>1, <2>1, <2>2 DEF Judged, Entitled, Moves, Was, LoggedIn, AtVideo, TokenOf, PathOf
  <2> QED
    BY <1>1, <1>4, <2>1, <2>3 DEF AccessSteps, LoggedIn, Ended
<1>16. CASE HotlinkGuard(r)
  <2>1. PICK at \in {"refused", "served"} :
           /\ Step(r, at) /\ req[r].at = "passed" /\ UNCHANGED <<facts, cached>>
           /\ at = "served" => ~OffSite(req[r].ask)
    BY <1>16 DEF HotlinkGuard, At
  <2>2. Moves(at, req[r].video) /\ Entitled(r) => Entitled(r)'
    BY DEF Moves, Entitled, Was, PathOf, TokenOf
  <2>3. Moves(at, req[r].video) => Judged(r)'
    BY <1>1, <2>1, <2>2 DEF Judged, Moves, LoggedIn, AtVideo
  <2> QED
    BY <1>1, <1>4, <2>1, <2>3 DEF AccessSteps, LoggedIn, Ended
<1>17. CASE JudgeFails(r)
  <2>1. /\ Step(r, "refused") /\ UNCHANGED <<facts, cached>>
        /\ req[r].at \in {"resolve", "judge", "shareonly", "sharetoo", "share", "sharefile"}
    BY <1>17 DEF JudgeFails
  <2>2. Moves("refused", req[r].video) => Judged(r)'
    BY DEF Judged, Moves, LoggedIn, AtVideo
  <2> QED
    BY <1>1, <1>4, <2>1, <2>2 DEF AccessSteps, LoggedIn, Ended
<1> QED
  BY <1>5, <1>6, <1>7, <1>8, <1>9, <1>10, <1>11, <1>12, <1>13, <1>14, <1>15, <1>16, <1>17 DEF MediaAuth

\* What goes on around them.
LEMMA AroundKeeps ==
  ASSUME AccessInv,
         LoginEnds \/ VideoGoes \/ SessionChanges \/ ShareEnds \/ MessageChanges \/ EntriesExpire
  PROVE  AccessInv'
<1>1. req' = Remember(req)
  BY DEF LoginEnds, VideoGoes, SessionChanges, ShareEnds, MessageChanges, EntriesExpire, Around
<1>2. videoRows' \subseteq videoRows /\ details' \subseteq details
  BY DEF LoginEnds, VideoGoes, SessionChanges, ShareEnds, MessageChanges, EntriesExpire, Around,
         facts, cached
<1> QED
  BY <1>1, <1>2, ChangeKeeps DEF AccessInv

\* Nothing is served but what was allowed at some time since it was asked for
\* (middleware/auth/media.rs media_auth, hotlink_guard).
THEOREM OnlyAllowedIsServed == AccessInit /\ [][AccessNext]_accessVars => []ServedWasAllowed
<1>1. AccessInit => AccessInv
  <2> SUFFICES ASSUME AccessInit PROVE AccessInv
    OBVIOUS
  <2>1. PICK ask \in Asks :
           req = [r \in Requests |-> [at |-> "resolve", video |-> NoVideo, seen |-> {},
                                     ask |-> IF r = First THEN ask ELSE Warm(ask)]]
    BY DEF AccessInit
  <2>2. req \in [Requests -> RequestRecord]
    BY <2>1 DEF RequestRecord, AccessSteps, AskedFor
  <2>3. \A r \in Requests : req[r].at = "resolve"
    BY <2>1
  <2>4. \A r \in Requests : Judged(r)
    BY <2>3 DEF Judged, LoggedIn, AtVideo
  <2> QED
    BY <2>2, <2>4 DEF AccessInv, AccessInit
<1>2. AccessInv /\ [AccessNext]_accessVars => AccessInv'
  BY MediaAuthKeeps, AroundKeeps, WithoutChange DEF AccessNext
<1>3. AccessInv => ServedWasAllowed
  <2> SUFFICES ASSUME AccessInv, NEW r \in Requests, req[r].at = "served"
               PROVE  /\ Entitled(r)
                      /\ LET asker == {req[r].ask.referer, req[r].ask.origin} \ {Absent}
                         IN Malformed \notin asker /\ \A site \in asker : site.host = PublicSite.host
    BY DEF ServedWasAllowed, At, Entitled, Was
  <2>1. Entitled(r) /\ ~OffSite(req[r].ask)
    BY DEF AccessInv, Judged
  <2> QED
    BY <2>1 DEF OffSite
<1> QED
  BY <1>1, <1>2, <1>3, PTL

-----------------------------------------------------------------------------
(***************************************************************************)
(* The scores of the feeds, which age. A set of numbers has a least member, *)
(* and a score is a number.                                                *)
(***************************************************************************)
LEMMA LeastOf ==
  ASSUME NEW S, S \subseteq Nat, S # {}
  PROVE  \E x \in S : \A y \in S : x <= y
<1>1. PICK x \in S : \A y \in S : ~ (<<y, x>> \in OpToRel(<, Nat))
  BY WFMin, NatLessThanWellFounded, Zenon
<1>2. ASSUME NEW y \in S PROVE ~ (y < x) BY <1>1, Zenon DEF OpToRel
<1>3. ASSUME NEW y \in S PROVE x <= y
  <2>1. x \in Nat /\ y \in Nat OBVIOUS
  <2> QED BY <1>2, <2>1
<1> QED BY <1>3

LEMMA ScoreTyped == ASSUME NEW n \in Nat, NEW old \in BOOLEAN PROVE Score(n, old) \in Nat
BY DEF Score

ScoreRight(v) == catalog[v].score = Score(catalog[v].views, catalog[v].old)

\* Scores go wrong by age alone; what was out of date when the round began is old
\* since, and right again once the cursor passed it, if anyone viewed it.
Decayed(v) ==
  /\ catalog[v] # NoRow
  /\ v \in Rows => catalog[v].old /\ (catalog[v].views > 0 /\ v <= cursor => ScoreRight(v))
DecayInv ==
  /\ catalog \in [VideoIds -> CatalogRows \cup {NoRow, Gone}] /\ cursor \in Nat
  /\ \A v \in Rows : ~catalog[v].old => ScoreRight(v)
  /\ due \subseteq VideoIds /\ \A v \in due : Decayed(v)

\* The rows of the table do not change but by what is meant to change them.
LEMMA AnsweringKeeps == ASSUME NEW r \in Seekers, Answering(r) PROVE UNCHANGED <<feedRows, jobVars>>
BY DEF Answering, Lookup, InflightLock, AcquireLock, LookupAgain, CountVideos, VideoCategory, TrendingPage, RecentPage,
       SimilarPage, Page, InsertPage, ReadCategories, ReadPreferred, ReadFill, ProbeParser, SearchVideos, SearchSuggest,
       RememberSuggested, GiveUp

LEMMA RowTyped ==
  ASSUME DecayInv, NEW v \in Rows
  PROVE  /\ v \in VideoIds /\ v \in Nat \ {0} /\ catalog[v] \in CatalogRows
         /\ catalog[v].views \in Nat /\ catalog[v].old \in BOOLEAN /\ catalog[v].score \in Nat
BY DiscoveryAssumption DEF DecayInv, Rows, CatalogRows

\* One row changes: of a video that is there, or of one that comes.
LEMMA OneRow ==
  ASSUME DecayInv, NEW v \in VideoIds, NEW row \in CatalogRows \cup {Gone}, catalog' = [catalog EXCEPT ![v] = row],
         cursor' = cursor, due' = due,
         v \in Rows \/ catalog[v] = NoRow,
         row \in CatalogRows => \/ row.score = Score(row.views, row.old) /\ (v \in Rows => row.old = catalog[v].old)
                                \/ /\ v \in Rows /\ row.views = catalog[v].views /\ row.score = catalog[v].score
                                   /\ row.old = catalog[v].old
                                \/ v \in Rows /\ ~catalog[v].old /\ row.old
  PROVE  DecayInv'
<1>0. catalog' \in [VideoIds -> CatalogRows \cup {NoRow, Gone}] /\ cursor' \in Nat /\ due' \subseteq VideoIds
  BY DEF DecayInv
<1>1. catalog'[v] = row /\ \A w \in VideoIds \ {v} : catalog'[w] = catalog[w] BY DEF DecayInv
<1>2. Rows' \subseteq Rows \cup {v} /\ Rows' \subseteq VideoIds BY <1>1 DEF Rows
<1>3. row # NoRow /\ (row \in CatalogRows => row # Gone) /\ (v \in Rows' => row \in CatalogRows)
  BY <1>1, DiscoveryAssumption DEF Rows
<1>4. ASSUME NEW w \in Rows', ~catalog'[w].old PROVE ScoreRight(w)'
  <2>1. CASE w = v
    <3>1. row \in CatalogRows /\ ~row.old BY <1>1, <1>3, <1>4, <2>1
    <3>2. SUFFICES row.score = Score(row.views, row.old) BY <1>1, <2>1 DEF ScoreRight
    <3>3. v \in Rows /\ ~catalog[v].old => catalog[v].score = Score(catalog[v].views, catalog[v].old)
      BY DEF DecayInv, ScoreRight
    <3> QED BY <3>1, <3>3
  <2>2. CASE w # v
    <3>1. w \in Rows /\ catalog'[w] = catalog[w] BY <1>1, <1>2, <2>2 DEF Rows
    <3> QED BY <1>4, <3>1 DEF DecayInv, ScoreRight
  <2> QED BY <2>1, <2>2
<1>5. ASSUME NEW w \in due' PROVE Decayed(w)'
  <2>0. w \in due /\ w \in VideoIds /\ Decayed(w) BY <1>5 DEF DecayInv
  <2>1. CASE w = v
    <3>1. v \in Rows BY <2>0, <2>1 DEF Decayed
    <3>2. catalog[v].old /\ (catalog[v].views > 0 /\ v <= cursor => ScoreRight(v)) BY <2>0, <2>1, <3>1 DEF Decayed
    <3>3. v \in Rows' => row.old /\ (row.views > 0 /\ v <= cursor => row.score = Score(row.views, row.old))
      BY <1>3, <3>1, <3>2 DEF ScoreRight
    <3> QED BY <1>1, <1>3, <2>1, <3>3 DEF Decayed, ScoreRight
  <2>2. CASE w # v
    <3>1. catalog'[w] = catalog[w] /\ (w \in Rows' => w \in Rows) BY <1>1, <1>2, <2>0, <2>2
    <3> QED BY <2>0, <3>1 DEF Decayed, ScoreRight
  <2> QED BY <2>1, <2>2
<1> QED BY <1>0, <1>4, <1>5 DEF DecayInv

\* A step that leaves the rows as they are keeps what holds of them.
LEMMA SameRows == ASSUME DecayInv, UNCHANGED <<catalog, cursor, due>> PROVE DecayInv'
BY DEF DecayInv, Rows, ScoreRight, Decayed

LEMMA DecayView == ASSUME DecayInv, NEW v \in VideoIds, View(v) PROVE DecayInv'
<1> DEFINE row == [catalog[v] EXCEPT !.views = @ + 1, !.score = Score(catalog[v].views + 1, catalog[v].old)]
<1>1. v \in Rows /\ catalog' = [catalog EXCEPT ![v] = row] /\ cursor' = cursor /\ due' = due
  BY DEF View, Change, Meanwhile, jobVars
<1>2. catalog[v] \in CatalogRows /\ catalog[v].views + 1 \in Nat /\ Score(catalog[v].views + 1, catalog[v].old) \in Nat
  BY <1>1, RowTyped, ScoreTyped
<1>3. row \in CatalogRows /\ row.score = Score(row.views, row.old) /\ row.old = catalog[v].old
  BY <1>2 DEF CatalogRows
<1> HIDE DEF row
<1> QED BY <1>1, <1>3, OneRow

LEMMA DecayRecategorize ==
  ASSUME DecayInv, NEW v \in VideoIds, NEW c \in Categories, Recategorize(v, c) PROVE DecayInv'
<1> DEFINE row == [catalog[v] EXCEPT !.category = c]
<1>1. v \in Rows /\ catalog' = [catalog EXCEPT ![v] = row] /\ cursor' = cursor /\ due' = due
  BY DEF Recategorize, Change, Meanwhile, jobVars
<1>2. catalog[v] \in CatalogRows BY <1>1, RowTyped
<1>3. /\ row \in CatalogRows /\ row.views = catalog[v].views /\ row.score = catalog[v].score
      /\ row.old = catalog[v].old
  BY <1>2 DEF CatalogRows
<1> HIDE DEF row
<1> QED BY <1>1, <1>3, OneRow

LEMMA DecayGrowOld == ASSUME DecayInv, NEW v \in VideoIds, GrowOld(v) PROVE DecayInv'
<1> DEFINE row == [catalog[v] EXCEPT !.old = TRUE]
<1>1. v \in Rows /\ ~catalog[v].old /\ catalog' = [catalog EXCEPT ![v] = row] /\ cursor' = cursor /\ due' = due
  BY DEF GrowOld, Change, Meanwhile, jobVars
<1>2. catalog[v] \in CatalogRows BY <1>1, RowTyped
<1>3. row \in CatalogRows /\ row.old BY <1>2 DEF CatalogRows
<1> HIDE DEF row
<1> QED BY <1>1, <1>3, OneRow

LEMMA DecayUpload == ASSUME DecayInv, NEW v \in VideoIds, Upload(v) PROVE DecayInv'
<1>1. catalog[v] = NoRow /\ catalog' = [catalog EXCEPT ![v] = Uploaded] /\ cursor' = cursor /\ due' = due
  BY DEF Upload, Change, Meanwhile, jobVars
<1>2. v \notin Rows BY <1>1 DEF Rows
<1>3. Uploaded \in CatalogRows /\ Uploaded.old \in BOOLEAN /\ ~Uploaded.old /\ Uploaded.score = Score(Uploaded.views, FALSE)
  BY DiscoveryAssumption DEF CatalogRows
<1>4. Uploaded.score = Score(Uploaded.views, Uploaded.old)
  <2>1. Uploaded.old = FALSE BY <1>3
  <2> QED BY <1>3, <2>1
<1> QED BY <1>1, <1>2, <1>3, <1>4, OneRow

LEMMA DecayDelete == ASSUME DecayInv, NEW v \in VideoIds, Delete(v) PROVE DecayInv'
<1>1. v \in Rows /\ catalog' = [catalog EXCEPT ![v] = Gone] /\ cursor' = cursor /\ due' = due
  BY DEF Delete, Change, Meanwhile, jobVars
<1>2. Gone \notin CatalogRows BY DiscoveryAssumption
<1> QED BY <1>1, <1>2, OneRow

LEMMA GreatestOf ==
  ASSUME NEW S, S \subseteq Nat, IsFiniteSet(S), S # {}
  PROVE  Max(S) \in S /\ \A y \in S : y <= Max(S)
<1> DEFINE Over(x) == {w \in S : w > x}
           Sizes == {Cardinality(Over(x)) : x \in S}
<1>1. \A x \in S : IsFiniteSet(Over(x)) /\ Cardinality(Over(x)) \in Nat BY FS_Subset, FS_CardinalityType
<1>2. PICK x \in S : \A y \in S : Cardinality(Over(x)) <= Cardinality(Over(y))
  <2>1. Sizes \subseteq Nat /\ Sizes # {} BY <1>1
  <2>2. PICK n \in Sizes : \A m \in Sizes : n <= m BY <2>1, LeastOf
  <2> QED BY <2>2
<1>3. ASSUME NEW y \in S, x < y PROVE FALSE
  <2>0. x \in Nat /\ y \in Nat OBVIOUS
  <2>1. Over(y) \subseteq Over(x) /\ y \in Over(x) /\ y \notin Over(y)
    <3>1. ASSUME NEW w \in S, w > y PROVE w > x
      <4>1. w \in Nat OBVIOUS
      <4> QED BY <1>3, <2>0, <3>1, <4>1
    <3>2. y > x /\ ~(y > y) BY <1>3, <2>0
    <3> QED BY <3>1, <3>2
  <2>2. IsFiniteSet(Over(x)) /\ IsFiniteSet(Over(y)) BY <1>1
  <2>3. Cardinality(Over(y)) <= Cardinality(Over(x)) /\ Cardinality(Over(y)) # Cardinality(Over(x))
    <3> HIDE DEF Over
    <3> QED BY <2>1, <2>2, FS_Subset
  <2>4. Cardinality(Over(x)) \in Nat /\ Cardinality(Over(y)) \in Nat BY <1>1
  <2> QED BY <1>2, <2>3, <2>4
<1>4. \A y \in S : x >= y
  <2>1. x \in Nat /\ \A y \in S : y \in Nat OBVIOUS
  <2> QED BY <1>3, <2>1
<1>5. Max(S) \in S /\ \A y \in S : Max(S) >= y BY <1>4 DEF Max
<1>6. Max(S) \in Nat /\ \A y \in S : y \in Nat BY <1>5
<1> QED BY <1>5, <1>6

\* A batch gives the rows of its videos the score of their age, and the cursor passes
\* nothing that anyone viewed.
LEMMA BatchIs ==
  ASSUME DecayInv, NextBatch # {}
  PROVE  /\ NextBatch \subseteq Rows /\ Max(NextBatch) \in Nat
         /\ \A v \in Rows : catalog[v].views > 0 /\ cursor < v /\ v <= Max(NextBatch) => v \in NextBatch
<1> DEFINE Viewed(v) == {w \in Rows : catalog[w].views > 0 /\ cursor < w /\ w < v}
<1>1. NextBatch = {v \in Rows : catalog[v].views > 0 /\ v > cursor /\ Cardinality(Viewed(v)) < BatchSize}
  BY DEF NextBatch
<1>2. NextBatch \subseteq Rows BY <1>1
<1>3. Rows \subseteq VideoIds /\ Rows \subseteq Nat /\ IsFiniteSet(Rows)
  <2>1. Rows \subseteq VideoIds BY DEF Rows
  <2> QED BY <2>1, DiscoveryAssumption, FS_Subset
<1>4. NextBatch \subseteq Nat /\ IsFiniteSet(NextBatch) BY <1>2, <1>3, FS_Subset
<1>5. PICK m : m = Max(NextBatch) OBVIOUS
<1>6. m \in NextBatch BY <1>4, <1>5, GreatestOf
<1>7. ASSUME NEW v \in Rows, catalog[v].views > 0, cursor < v, v <= m PROVE v \in NextBatch
  <2>1. v \in Nat /\ m \in Nat /\ cursor \in Nat /\ \A w \in Rows : w \in Nat BY <1>3, <1>4, <1>6 DEF DecayInv
  <2>2. Viewed(v) \subseteq Viewed(m) /\ IsFiniteSet(Viewed(m)) /\ Viewed(v) \subseteq Rows
    <3>0. ASSUME NEW w \in Rows, w < v PROVE w < m
      <4>1. w \in Nat BY <2>1
      <4> QED BY <1>7, <2>1, <3>0, <4>1
    <3>1. Viewed(v) \subseteq Viewed(m) BY <3>0
    <3> QED BY <1>3, <3>1, FS_Subset
  <2>3. Cardinality(Viewed(m)) < BatchSize BY <1>1, <1>6
  <2>4. Cardinality(Viewed(v)) \in Nat /\ Cardinality(Viewed(m)) \in Nat /\ Cardinality(Viewed(v)) <= Cardinality(Viewed(m))
    <3>1. IsFiniteSet(Viewed(v)) BY <1>3, <2>2, FS_Subset
    <3> HIDE DEF Viewed
    <3> QED BY <2>2, <3>1, FS_Subset, FS_CardinalityType
  <2>5. Cardinality(Viewed(v)) < BatchSize BY <2>3, <2>4, DiscoveryAssumption
  <2> QED BY <1>1, <1>7, <2>1, <2>5
<1> QED BY <1>2, <1>4, <1>5, <1>6, <1>7

LEMMA DecayBatch == ASSUME DecayInv, RecomputeBatch PROVE DecayInv'
<1> DEFINE Rescored(v) == [catalog[v] EXCEPT !.score = Score(catalog[v].views, catalog[v].old)]
<1>0. /\ NextBatch # {} /\ cursor' = Max(NextBatch) /\ due' = due
      /\ catalog' = [v \in VideoIds |-> IF v \in NextBatch THEN Rescored(v) ELSE catalog[v]]
  BY DEF RecomputeBatch, LastId
<1>1. /\ NextBatch \subseteq Rows /\ cursor' \in Nat
      /\ \A v \in Rows : catalog[v].views > 0 /\ cursor < v /\ v <= cursor' => v \in NextBatch
  BY <1>0, BatchIs
<1>2. ASSUME NEW v \in NextBatch
      PROVE  /\ v \in Rows /\ catalog'[v] \in CatalogRows /\ catalog'[v].old = catalog[v].old
             /\ catalog'[v].score = Score(catalog'[v].views, catalog'[v].old)
  <2>1. v \in Rows /\ v \in VideoIds /\ catalog[v] \in CatalogRows /\ Score(catalog[v].views, catalog[v].old) \in Nat
    BY <1>1, RowTyped, ScoreTyped
  <2>2. catalog'[v] = Rescored(v) BY <1>0, <2>1
  <2>3. /\ Rescored(v) \in CatalogRows /\ Rescored(v).old = catalog[v].old
        /\ Rescored(v).score = Score(Rescored(v).views, Rescored(v).old)
    BY <2>1 DEF CatalogRows
  <2> QED BY <2>1, <2>2, <2>3
<1>3. \A v \in VideoIds \ NextBatch : catalog'[v] = catalog[v] BY <1>0
<1>4. catalog' \in [VideoIds -> CatalogRows \cup {NoRow, Gone}]
  <2>1. \A v \in VideoIds : catalog'[v] \in CatalogRows \cup {NoRow, Gone} BY <1>2, <1>3 DEF DecayInv
  <2> QED BY <1>0, <2>1
<1> HIDE DEF Rescored
<1>5. Rows' = Rows
  <2>1. CatalogRows \cap {NoRow, Gone} = {} BY DiscoveryAssumption
  <2>2. \A v \in VideoIds : catalog'[v] \in {NoRow, Gone} <=> catalog[v] \in {NoRow, Gone}
    BY <1>2, <1>3, <2>1 DEF Rows
  <2> QED BY <2>2 DEF Rows
<1>6. ASSUME NEW v \in Rows', ~catalog'[v].old PROVE ScoreRight(v)'
  <2>1. v \in Rows /\ v \in VideoIds BY <1>5 DEF Rows
  <2>2. CASE v \in NextBatch BY <1>2, <2>2 DEF ScoreRight
  <2>3. CASE v \notin NextBatch
    <3>1. catalog'[v] = catalog[v] BY <1>3, <2>1, <2>3
    <3> QED BY <1>6, <2>1, <3>1 DEF DecayInv, ScoreRight
  <2> QED BY <2>2, <2>3
<1>7. ASSUME NEW v \in due' PROVE Decayed(v)'
  <2>1. v \in VideoIds /\ Decayed(v) BY <1>0, <1>7 DEF DecayInv
  <2>2. CASE v \in NextBatch
    <3>1. v \in Rows /\ catalog[v].old /\ catalog'[v] # NoRow /\ catalog'[v].old BY <1>2, <2>1, <2>2, DiscoveryAssumption DEF Decayed
    <3>2. ScoreRight(v)' BY <1>2, <2>2 DEF ScoreRight
    <3> QED BY <3>1, <3>2 DEF Decayed
  <2>3. CASE v \notin NextBatch
    <3>1. catalog'[v] = catalog[v] /\ catalog[v] # NoRow BY <1>3, <2>1, <2>3 DEF Decayed
    <3>2. ASSUME v \in Rows PROVE catalog[v].old /\ (catalog[v].views > 0 /\ v <= cursor' => ScoreRight(v)')
      <4>1. v \in Nat /\ cursor \in Nat BY <3>2, RowTyped DEF DecayInv
      <4>2. catalog[v].old /\ (catalog[v].views > 0 /\ v <= cursor => ScoreRight(v)) BY <2>1, <3>2 DEF Decayed
      <4>3. catalog[v].views > 0 /\ v <= cursor' => v <= cursor BY <1>1, <2>3, <3>2, <4>1
      <4> QED BY <3>1, <4>2, <4>3 DEF ScoreRight
    <3> QED BY <1>5, <3>1, <3>2 DEF Decayed
  <2> QED BY <2>2, <2>3
<1> QED BY <1>0, <1>1, <1>4, <1>6, <1>7 DEF DecayInv

\* What is out of date when a round begins is old.
LEMMA DueIsOld ==
  ASSUME catalog \in [VideoIds -> CatalogRows \cup {NoRow, Gone}], \A v \in Rows : ~catalog[v].old => ScoreRight(v)
  PROVE  /\ Outdated \subseteq VideoIds
         /\ \A v \in Outdated : catalog[v] # NoRow /\ v \in Nat \ {0} /\ catalog[v].old
BY DiscoveryAssumption DEF Outdated, Rows, ScoreRight

LEMMA DecayEndRound == ASSUME DecayInv, EndRound PROVE DecayInv'
<1>1. catalog' = catalog /\ cursor' = 0 /\ due' = Outdated BY DEF EndRound, feedRows
<1>2. \A v \in Outdated : v \in VideoIds /\ catalog[v] # NoRow /\ v \in Nat \ {0} /\ catalog[v].old
  BY DueIsOld DEF DecayInv
<1> QED BY <1>1, <1>2 DEF DecayInv, Rows, ScoreRight, Decayed

LEMMA DecayInit == DiscoveryInit => DecayInv
<1> SUFFICES ASSUME DiscoveryInit PROVE DecayInv OBVIOUS
<1>1. catalog \in [VideoIds -> CatalogRows \cup {NoRow, Gone}] /\ cursor = 0 /\ due = Outdated
  BY DiscoveryAssumption DEF DiscoveryInit
<1>2. \A v \in Rows : ~catalog[v].old => ScoreRight(v)
  <2>1. \A v \in VideoIds : catalog[v] \in CatalogRows /\ ~catalog[v].old => catalog[v].score = Score(catalog[v].views, FALSE)
    BY DiscoveryAssumption DEF DiscoveryInit
  <2> SUFFICES ASSUME NEW v \in Rows, ~catalog[v].old PROVE ScoreRight(v) OBVIOUS
  <2>2. v \in VideoIds /\ catalog[v] \in CatalogRows BY <1>1 DEF Rows
  <2>3. catalog[v].old = FALSE BY <2>2 DEF CatalogRows
  <2> QED BY <2>1, <2>2, <2>3 DEF ScoreRight
<1>3. \A v \in Outdated : v \in VideoIds /\ catalog[v] # NoRow /\ v \in Nat \ {0} /\ catalog[v].old
  BY <1>1, <1>2, DueIsOld
<1> QED BY <1>1, <1>2, <1>3 DEF DecayInv, Decayed

LEMMA DecayStep == DecayInv /\ [DiscoveryNext]_discoveryVars => DecayInv'
<1> SUFFICES ASSUME DecayInv, [DiscoveryNext]_discoveryVars PROVE DecayInv' OBVIOUS
<1>1. ASSUME NEW r \in Seekers, Answering(r) PROVE DecayInv'
  BY <1>1, AnsweringKeeps, SameRows DEF feedRows, jobVars
<1>2. ASSUME NEW r \in Seekers, NEW v \in VideoIds, Watch(Ask(r).user, v) PROVE DecayInv'
  BY <1>2, SameRows DEF Watch, Meanwhile, jobVars
<1>3. ASSUME NEW keys, DropPages(keys) PROVE DecayInv' BY <1>3, SameRows DEF DropPages, feedRows, jobVars
<1>4. ASSUME NEW key, LockExpires(key) PROVE DecayInv' BY <1>4, SameRows DEF LockExpires, feedRows, jobVars
<1>5. CASE SuggestionsExpire BY <1>5, SameRows DEF SuggestionsExpire, feedRows, jobVars
<1>6. CASE UNCHANGED discoveryVars BY <1>6, SameRows DEF discoveryVars, feedRows, jobVars
<1> QED
  BY <1>1, <1>2, <1>3, <1>4, <1>5, <1>6, DecayView, DecayUpload, DecayDelete, DecayGrowOld, DecayRecategorize,
     DecayBatch, DecayEndRound DEF DiscoveryNext

\* Without a batch left nothing that anyone viewed is above the cursor.
LEMMA NoneLeft == ASSUME DecayInv, NextBatch = {}, NEW v \in Rows, catalog[v].views > 0 PROVE v <= cursor
<1> DEFINE Left == {w \in Rows : catalog[w].views > 0 /\ cursor < w}
<1>1. Rows \subseteq Nat /\ cursor \in Nat BY RowTyped DEF DecayInv
<1>2. SUFFICES ASSUME Left # {} PROVE FALSE BY <1>1
<1>3. PICK w \in Left : \A x \in Left : w <= x
  <2>1. Left \subseteq Nat BY <1>1
  <2> HIDE DEF Left
  <2> QED BY <1>2, <2>1, LeastOf
<1>4. {x \in Rows : catalog[x].views > 0 /\ cursor < x /\ x < w} = {}
  <2>1. ASSUME NEW x \in Rows, catalog[x].views > 0, cursor < x PROVE ~(x < w)
    <3>1. x \in Nat /\ w \in Nat BY <1>1
    <3>2. w <= x BY <1>3, <2>1
    <3> QED BY <3>1, <3>2
  <2> QED BY <2>1
<1>5. Cardinality({x \in Rows : catalog[x].views > 0 /\ cursor < x /\ x < w}) < BatchSize
  <2>1. Cardinality({}) = 0 BY FS_EmptySet
  <2>2. 0 < BatchSize BY DiscoveryAssumption
  <2> QED BY <1>4, <2>1, <2>2
<1>6. w \in NextBatch
  <2>1. w \in Nat BY <1>1
  <2> QED BY <1>1, <1>5, <2>1 DEF NextBatch
<1> QED BY <1>6

\* When a round has no batch left, every video that anyone viewed and whose score was
\* out of date when it began has the score of its age
\* (repositories/video_repo.rs recompute_trending_scores).
THEOREM ScoresAreDecayed == DiscoverySpec => []ScoresDecay
<1>1. DecayInv => ScoresDecay
  <2> SUFFICES ASSUME DecayInv, NextBatch = {}, NEW v \in due \cap Rows, catalog[v].views > 0 PROVE v \notin Outdated
    BY DEF ScoresDecay
  <2>1. v <= cursor BY NoneLeft
  <2>2. Decayed(v) BY DEF DecayInv
  <2> QED BY <2>1, <2>2 DEF Decayed, Outdated, ScoreRight
<1> QED BY <1>1, DecayInit, DecayStep, PTL DEF DiscoverySpec

-----------------------------------------------------------------------------
(***************************************************************************)
(* What the feeds and the searches show.                                   *)
(***************************************************************************)
SeekSteps == {"lookup", "lock", "wait", "again", "count", "category", "page", "insert", "categories", "preferred",
              "fill", "search", "fallback", "suggest", "remember", "found", "failed"}
SeekRecord == [at : SeekSteps, ask : AskSet, rows : Seq(FoundRows), cats : SUBSET (Categories \cup {NoCategory}),
               total : Nat, lock : Nat \cup {NoLock}]
SeekKeys == {KeyOf(Ask(r)) : r \in Seekers}

\* Rows that may be shown: not too many, each video once, of videos that are or were
\* there, and those that are still there are of one of the owners U.
Sound(rows, n, U) ==
  /\ rows \in Seq(FoundRows) /\ Len(rows) <= n
  /\ \A i, j \in DOMAIN rows : i < j => rows[i].id # rows[j].id
  /\ \A v \in Of(rows) : catalog[v] # NoRow /\ (v \in Rows => catalog[v].owner \in U)
Among(rows, cats) == \A i \in DOMAIN rows : rows[i].category \in cats
Ranked(rows, cats) == \A i, j \in DOMAIN rows : i < j /\ rows[j].category \in cats => rows[i].category \in cats
Audience(ask) == IF ask.admin THEN Owners ELSE {ask.user}

\* Which request is at which step, when it has a lock, and what it has found.
Stepping(q) ==
  /\ q.at \in {"lookup", "lock", "wait", "again", "category", "insert"} => q.ask.kind \in Cached
  /\ q.at \in {"count", "page"} => q.ask.kind \in Cached \cup {"foryou"}
  /\ q.at \in {"categories", "preferred", "fill"} => q.ask.kind = "foryou"
  /\ q.at \in {"search", "fallback"} => q.ask.kind = "search"
  /\ q.at \in {"suggest", "remember"} => q.ask.kind = "suggest"
  /\ q.at \in {"lookup", "lock"} => q.lock = NoLock
  /\ q.at \in Inside \cup {"wait"} /\ q.ask.kind \in Cached => q.lock # NoLock
FoundRight(q) ==
  /\ q.at \in {"insert", "found"} /\ q.ask.kind \in Cached => Sound(q.rows, LimitOf(q.ask), {q.ask.user})
  /\ q.at \in {"fill", "found"} /\ q.ask.kind = "foryou" => Sound(q.rows, LimitOf(q.ask), {q.ask.user})
  /\ q.at = "fill" => Among(q.rows, q.cats)
  /\ q.at \in {"count", "page"} /\ q.ask.kind = "foryou" => q.cats = {}
  /\ q.at = "found" /\ q.ask.kind = "foryou" => Ranked(q.rows, q.cats)
  /\ q.at = "found" /\ q.ask.kind \in {"search", "suggest"} => Sound(q.rows, MaxSize, Audience(q.ask))
  /\ q.at = "remember" => Sound(q.rows, ListLimit, Audience(q.ask))
RequestRight(q) == q \in SeekRecord /\ Stepping(q) /\ FoundRight(q)

PagesRight == \A r \in Seekers : \A a \in {Ask(r)} :
  a.kind \in Cached /\ pages[KeyOf(a)] # NoPage => Sound(pages[KeyOf(a)].rows, LimitOf(a), {a.user})
SuggestedRight == \A r \in Seekers : \A a \in {Ask(r)} : \A e \in suggested :
  e.key = SuggestKey(a) => Sound(e.rows, ListLimit, Audience(a))

FeedInv ==
  /\ catalog \in [VideoIds -> CatalogRows \cup {NoRow, Gone}]
  /\ seek \in [Seekers -> SeekRecord] /\ \A r \in Seekers : RequestRight(seek[r])
  /\ pages \in [SeekKeys -> [rows : Seq(FoundRows), total : Nat] \cup {NoPage}]
  /\ locks \in [SeekKeys -> Nat \cup {NoLock}]
  /\ PagesRight /\ SuggestedRight

\* The lesser and the greater of two numbers, and what the numbers of a request are.
LEMMA MinOfTwo == ASSUME NEW a \in Int, NEW b \in Int PROVE Min({a, b}) = IF a <= b THEN a ELSE b
<1>1. \E x \in {a, b} : \A y \in {a, b} : x <= y OBVIOUS
<1>2. Min({a, b}) \in {a, b} /\ \A y \in {a, b} : Min({a, b}) <= y BY <1>1 DEF Min
<1> QED BY <1>2

LEMMA MaxOfTwo == ASSUME NEW a \in Int, NEW b \in Int PROVE Max({a, b}) = IF a >= b THEN a ELSE b
<1>1. \E x \in {a, b} : \A y \in {a, b} : x >= y OBVIOUS
<1>2. Max({a, b}) \in {a, b} /\ \A y \in {a, b} : Max({a, b}) >= y BY <1>1 DEF Max
<1> QED BY <1>2

LEMMA AskNumbers ==
  ASSUME NEW ask \in AskSet
  PROVE  /\ SizeOf(ask) \in 1..MaxSize /\ OffsetOf(ask) \in Nat /\ LimitOf(ask) \in 0..MaxLimit
         /\ ask.kind = "similar" => LimitOf(ask) <= ListLimit
<1>0. ask.size \in Nat /\ ask.page \in Nat \ {0} /\ MaxSize \in Nat \ {0} /\ MaxLimit \in Nat \ {0}
      /\ FeedLimit \in Nat /\ ListLimit \in Nat
  BY DiscoveryAssumption DEF AskSet
<1>1. Max({ask.size, 1}) \in Nat \ {0}
  <2>1. ask.size \in Int /\ 1 \in Int BY <1>0
  <2>2. Max({ask.size, 1}) = IF ask.size >= 1 THEN ask.size ELSE 1 BY ONLY <2>1, MaxOfTwo
  <2> QED BY <1>0, <2>2
<1>2. SizeOf(ask) \in 1..MaxSize
  <2>1. PICK a : a = Max({ask.size, 1}) OBVIOUS
  <2>2. a \in Int /\ MaxSize \in Int BY <1>0, <1>1, <2>1
  <2>3. SizeOf(ask) = Min({a, MaxSize}) BY <2>1 DEF SizeOf
  <2>4. Min({a, MaxSize}) = IF a <= MaxSize THEN a ELSE MaxSize BY ONLY <2>2, MinOfTwo
  <2> QED BY <1>0, <1>1, <2>1, <2>3, <2>4
<1>3. OffsetOf(ask) \in Nat
  <2>1. ask.page - 1 \in Nat /\ SizeOf(ask) \in Nat BY <1>0, <1>2
  <2>2. \A a \in Nat, b \in Nat : a * b \in Nat OBVIOUS
  <2> QED BY ONLY <2>1, <2>2 DEF OffsetOf
<1>4. LimitOf(ask) \in 0..MaxLimit /\ (ask.kind = "similar" => LimitOf(ask) <= ListLimit)
  <2>1. PICK a : a = CASE ask.kind = "foryou" -> FeedLimit [] ask.kind = "similar" -> ListLimit
                       [] OTHER -> SizeOf(ask)
    OBVIOUS
  <2>2. a \in Nat /\ (ask.kind = "similar" => a = ListLimit)
    <3>1. SizeOf(ask) \in Nat BY <1>0, <1>2
    <3> QED BY <1>0, <2>1, <3>1
  <2>3. LimitOf(ask) = Min({a, MaxLimit}) BY <2>1 DEF LimitOf
  <2>4. a \in Int /\ MaxLimit \in Int BY <1>0, <2>2
  <2>5. Min({a, MaxLimit}) = IF a <= MaxLimit THEN a ELSE MaxLimit BY ONLY <2>4, MinOfTwo
  <2> QED BY <1>0, <2>2, <2>3, <2>5
<1> QED BY <1>2, <1>3, <1>4

\* A page of a set of videos shows some of them, each once.
LEMMA PageIs ==
  ASSUME catalog \in [VideoIds -> CatalogRows \cup {NoRow, Gone}], NEW S, S \subseteq Rows, NEW s \in SetToSeqs(S), NEW offset \in Nat, NEW limit \in Nat
  PROVE  LET page == PageOf(s, offset, limit)
         IN /\ page \in Seq(FoundRows) /\ Len(page) <= limit
            /\ \A i, j \in DOMAIN page : i < j => page[i].id # page[j].id
            /\ \A i \in DOMAIN page : /\ page[i].id \in S
                                      /\ page[i].category = catalog[page[i].id].category
<1> DEFINE n == Cardinality(S)
           m == Min({limit, Max({0, Len(s) - offset})})
           page == PageOf(s, offset, limit)
<1>1. n \in Nat
  <2>1. Rows \subseteq VideoIds BY DEF Rows
  <2>2. IsFiniteSet(S) BY <2>1, DiscoveryAssumption, FS_Subset
  <2> QED BY <2>2, FS_CardinalityType
<1>2. s \in [1..n -> S] /\ \A i, j \in 1..n : i # j => s[i] # s[j] BY DEF SetToSeqs
<1> HIDE DEF n
<1>3. Len(s) = n BY <1>1, <1>2
<1>4. m \in Nat /\ m <= limit /\ \A i \in 1..m : offset + i \in 1..n
  <2>1. Max({0, n - offset}) = IF n >= offset THEN n - offset ELSE 0 BY <1>1, MaxOfTwo
  <2>2. m = Min({limit, IF n >= offset THEN n - offset ELSE 0}) BY <1>3, <2>1
  <2>3. (IF n >= offset THEN n - offset ELSE 0) \in Nat BY <1>1
  <2>4. m = IF limit <= (IF n >= offset THEN n - offset ELSE 0) THEN limit ELSE (IF n >= offset THEN n - offset ELSE 0)
    BY <2>2, <2>3, MinOfTwo
  <2> HIDE DEF m
  <2> QED BY <1>1, <2>4
<1>5. page = [i \in 1..m |-> [id |-> s[offset + i], category |-> catalog[s[offset + i]].category]] BY DEF PageOf
<1> HIDE DEF m, page
<1>6. \A v \in S : v \in VideoIds /\ catalog[v].category \in Categories \cup {NoCategory}
  BY DEF Rows, CatalogRows
<1>7. ASSUME NEW i \in 1..m PROVE
        /\ s[offset + i] \in S /\ page[i] \in FoundRows
        /\ page[i].id = s[offset + i] /\ page[i].category = catalog[s[offset + i]].category
  <2>1. PICK v : v = s[offset + i] OBVIOUS
  <2>2. v \in S BY <1>2, <1>4, <2>1
  <2>3. page[i] = [id |-> v, category |-> catalog[v].category] BY <1>5, <2>1
  <2>4. page[i].id = v BY ONLY <2>3
  <2>5. page[i].category = catalog[v].category BY ONLY <2>3
  <2>6. page[i] \in FoundRows BY <1>6, <2>2, <2>3 DEF FoundRows
  <2> QED BY <2>1, <2>2, <2>4, <2>5, <2>6
<1>8. \A i \in 1..m : page[i] \in FoundRows BY <1>7
<1>9. page \in Seq(FoundRows) /\ Len(page) = m /\ DOMAIN page = 1..m
  <2>1. page \in [1..m -> FoundRows] BY <1>5, <1>8
  <2> QED BY <1>4, <2>1
<1>10. \A i, j \in 1..m : i < j => page[i].id # page[j].id
  <2> SUFFICES ASSUME NEW i \in 1..m, NEW j \in 1..m, i < j PROVE page[i].id # page[j].id OBVIOUS
  <2>0. i \in Nat /\ j \in Nat BY <1>4
  <2>1. offset + i \in 1..n /\ offset + j \in 1..n /\ offset + i # offset + j BY <1>4, <2>0
  <2>2. s[offset + i] # s[offset + j] BY <1>2, <2>1
  <2>3. page[i].id = s[offset + i] /\ page[j].id = s[offset + j] BY <1>7
  <2> QED BY <2>2, <2>3
<1> QED BY <1>4, <1>7, <1>9, <1>10 DEF page

\* A page of videos of U may be shown to U.
LEMMA PageSound ==
  ASSUME catalog \in [VideoIds -> CatalogRows \cup {NoRow, Gone}], NEW U, NEW S, S \subseteq Rows,
         \A v \in S : catalog[v].owner \in U, NEW s \in SetToSeqs(S), NEW offset \in Nat, NEW limit \in Nat
  PROVE  Sound(PageOf(s, offset, limit), limit, U)
<1>1. PICK page : page = PageOf(s, offset, limit) OBVIOUS
<1>2. /\ page \in Seq(FoundRows) /\ Len(page) <= limit
      /\ \A i, j \in DOMAIN page : i < j => page[i].id # page[j].id
      /\ \A i \in DOMAIN page : page[i].id \in S
  BY <1>1, PageIs
<1>3. \A v \in Of(page) : v \in S BY <1>2 DEF Of
<1>4. \A v \in Of(page) : catalog[v] # NoRow /\ catalog[v].owner \in U BY <1>3 DEF Rows
<1>5. Sound(page, limit, U) BY <1>2, <1>4 DEF Sound
<1> QED BY <1>1, <1>5

LEMMA EmptySound == ASSUME NEW n \in Nat, NEW U PROVE Sound(<<>>, n, U)
<1>1. <<>> \in Seq(FoundRows) /\ Len(<<>>) = 0 /\ DOMAIN <<>> = {} OBVIOUS
<1>2. Of(<<>>) = {} BY <1>1 DEF Of
<1> QED BY <1>1, <1>2 DEF Sound

LEMMA MoreSound ==
  ASSUME NEW rows, NEW n \in Nat, NEW m \in Nat, n <= m, NEW U, NEW W, U \subseteq W, Sound(rows, n, U)
  PROVE  Sound(rows, m, W)
<1>1. Len(rows) \in Nat BY DEF Sound
<1> QED BY <1>1 DEF Sound

\* The table moves on: a video that was there does not come back, nor change hands.
TableMoves ==
  /\ catalog' \in [VideoIds -> CatalogRows \cup {NoRow, Gone}]
  /\ \A v \in VideoIds : catalog[v] # NoRow =>
       catalog'[v] # NoRow /\ (v \in Rows' => v \in Rows /\ catalog'[v].owner = catalog[v].owner)

LEMMA SoundKept ==
  ASSUME TableMoves, NEW rows, NEW n, NEW U, Sound(rows, n, U)
  PROVE  Sound(rows, n, U)'
<1>1. \A v \in Of(rows) : v \in VideoIds
  <2>1. \A i \in DOMAIN rows : rows[i] \in FoundRows BY DEF Sound
  <2> QED BY <2>1 DEF Of, FoundRows
<1> QED BY <1>1 DEF Sound, TableMoves

\* Requests that have a page in common have what it holds in common.
LEMMA SameKey ==
  ASSUME NEW a \in AskSet, NEW b \in AskSet, a.kind \in Cached, b.kind \in Cached, KeyOf(a) = KeyOf(b)
  PROVE  a.kind = b.kind /\ a.user = b.user /\ LimitOf(a) = LimitOf(b)
<1>1. KeyOf(a)[1] = a.kind /\ KeyOf(a)[2] = a.user BY DEF KeyOf, PageKey, SimilarKey
<1>2. KeyOf(b)[1] = b.kind /\ KeyOf(b)[2] = b.user BY DEF KeyOf, PageKey, SimilarKey
<1>3. a.kind = b.kind /\ a.user = b.user BY <1>1, <1>2
<1>4. CASE a.kind \in Paged
  <2>1. KeyOf(a) = PageKey(a) /\ KeyOf(b) = PageKey(b) BY <1>3, <1>4 DEF KeyOf
  <2>2. PageKey(a)[4] = SizeOf(a) /\ PageKey(b)[4] = SizeOf(b) BY DEF PageKey
  <2>3. SizeOf(a) = SizeOf(b) BY <2>1, <2>2
  <2> QED BY <1>3, <2>3 DEF LimitOf
<1>5. CASE a.kind \notin Paged
  <2>1. a.kind = "similar" BY <1>5 DEF Cached
  <2> QED BY <1>3, <2>1 DEF LimitOf
<1> QED BY <1>3, <1>4, <1>5

LEMMA SameAudience ==
  ASSUME NEW a \in AskSet, NEW b \in AskSet, SuggestKey(a) = SuggestKey(b)
  PROVE  Audience(a) = Audience(b)
<1>1. (IF a.admin THEN "all" ELSE a.user) = (IF b.admin THEN "all" ELSE b.user)
  <2>1. SuggestKey(a)[1] = (IF a.admin THEN "all" ELSE a.user) BY DEF SuggestKey
  <2>2. SuggestKey(b)[1] = (IF b.admin THEN "all" ELSE b.user) BY DEF SuggestKey
  <2> QED BY <2>1, <2>2
<1>2. a.user \in Owners /\ b.user \in Owners /\ a.admin \in BOOLEAN /\ b.admin \in BOOLEAN BY DEF AskSet
<1>3. a.user # "all" /\ b.user # "all" BY <1>2, DiscoveryAssumption
<1>4. CASE a.admin BY <1>1, <1>3, <1>4 DEF Audience
<1>5. CASE ~a.admin BY <1>1, <1>3, <1>5 DEF Audience
<1> QED BY <1>4, <1>5

\* A request goes on, and nothing else changes.
LEMMA KeysSame == ASSUME \A r \in Seekers : seek'[r].ask = seek[r].ask PROVE SeekKeys' = SeekKeys
BY DEF SeekKeys, Ask

LEMMA RequestStep ==
  ASSUME FeedInv, NEW r \in Seekers, NEW x, RequestRight(x), x.ask = Ask(r), seek' = [seek EXCEPT ![r] = x],
         UNCHANGED <<catalog, pages, suggested, locks>>
  PROVE  FeedInv'
<1>1. seek \in [Seekers -> SeekRecord] /\ x \in SeekRecord BY DEF FeedInv, RequestRight
<1>2. seek' \in [Seekers -> SeekRecord] /\ seek'[r] = x /\ \A s \in Seekers \ {r} : seek'[s] = seek[s] BY <1>1
<1>3. \A s \in Seekers : Ask(s)' = Ask(s) BY <1>2 DEF Ask
<1>4. SeekKeys' = SeekKeys BY <1>3, KeysSame DEF Ask
<1>5. \A q : RequestRight(q)' <=> RequestRight(q) BY DEF RequestRight, FoundRight, Sound, Rows
<1>6. \A s \in Seekers : RequestRight(seek[s])'
  <2> SUFFICES ASSUME NEW s \in Seekers, NEW y, y = seek'[s] PROVE RequestRight(y)' OBVIOUS
  <2>1. RequestRight(y) BY <1>2 DEF FeedInv
  <2> QED BY <1>5, <2>1
<1>7. PagesRight' /\ SuggestedRight'
  <2>1. PagesRight /\ SuggestedRight BY DEF FeedInv
  <2>2. \A rows, n, U : Sound(rows, n, U)' <=> Sound(rows, n, U) BY DEF Sound, Rows
  <2>3. PagesRight' BY <1>3, <2>1, <2>2 DEF PagesRight
  <2>4. SuggestedRight' BY <1>3, <2>1, <2>2 DEF SuggestedRight
  <2> QED BY <2>3, <2>4
<1> QED BY <1>2, <1>4, <1>6, <1>7 DEF FeedInv

\* What is known of a request before its step.
LEMMA RequestNow ==
  ASSUME FeedInv, NEW r \in Seekers
  PROVE  /\ RequestRight(seek[r]) /\ seek[r] \in SeekRecord /\ seek \in [Seekers -> SeekRecord]
         /\ seek[r].ask \in AskSet /\ seek[r].ask = Ask(r) /\ Ask(r) \in AskSet
         /\ KeyOf(Ask(r)) \in SeekKeys
         /\ SizeOf(Ask(r)) \in 1..MaxSize /\ OffsetOf(Ask(r)) \in Nat /\ LimitOf(Ask(r)) \in 0..MaxLimit
         /\ MaxSize \in Nat /\ MaxLimit \in Nat
<1>1. RequestRight(seek[r]) /\ seek[r] \in SeekRecord /\ seek \in [Seekers -> SeekRecord] BY DEF FeedInv
<1>2. seek[r].ask \in AskSet /\ seek[r].ask = Ask(r) BY <1>1 DEF SeekRecord, Ask
<1>3. KeyOf(Ask(r)) \in SeekKeys BY DEF SeekKeys
<1> QED BY <1>1, <1>2, <1>3, AskNumbers, DiscoveryAssumption

\* Steps that say where the request goes, and what it takes with it.
LEMMA GoIs ==
  ASSUME FeedInv, NEW r \in Seekers, NEW at \in SeekSteps, Go(r, at), NEW x, x = seek'[r]
  PROVE  /\ x \in SeekRecord /\ x.at = at /\ x.ask = Ask(r) /\ x.rows = seek[r].rows /\ x.cats = seek[r].cats
         /\ x.total = seek[r].total /\ x.lock = seek[r].lock
         /\ seek' = [seek EXCEPT ![r] = x]
<1>1. seek[r] \in SeekRecord /\ seek \in [Seekers -> SeekRecord] /\ seek[r].ask = Ask(r) BY RequestNow
<1>2. x = [seek[r] EXCEPT !.at = at] /\ seek' = [seek EXCEPT ![r] = x] BY <1>1 DEF Go
<1> QED BY <1>1, <1>2 DEF SeekRecord

LEMMA GoWithIs ==
  ASSUME FeedInv, NEW r \in Seekers, NEW at \in SeekSteps, NEW rows \in Seq(FoundRows), GoWith(r, at, rows),
         NEW x, x = seek'[r]
  PROVE  /\ x \in SeekRecord /\ x.at = at /\ x.ask = Ask(r) /\ x.rows = rows /\ x.cats = seek[r].cats
         /\ x.total = seek[r].total /\ x.lock = seek[r].lock
         /\ seek' = [seek EXCEPT ![r] = x]
<1>1. seek[r] \in SeekRecord /\ seek \in [Seekers -> SeekRecord] /\ seek[r].ask = Ask(r) BY RequestNow
<1>2. x = [seek[r] EXCEPT !.at = at, !.rows = rows] /\ seek' = [seek EXCEPT ![r] = x] BY <1>1 DEF GoWith
<1> QED BY <1>1, <1>2 DEF SeekRecord

LEMMA Kinds == ASSUME NEW a \in AskSet
  PROVE /\ a.kind \in {"trending", "recent", "similar", "foryou", "search", "suggest"}
        /\ a.kind \in Cached <=> a.kind \in {"trending", "recent", "similar"}
        /\ a.user \in Owners /\ a.admin \in BOOLEAN /\ a.user \in Audience(a)
BY DEF AskSet, Cached, Paged, Audience

\* The page of a key in the cache.
LEMMA PageNow ==
  ASSUME FeedInv, NEW r \in Seekers, Ask(r).kind \in Cached, pages[KeyOf(Ask(r))] # NoPage
  PROVE  /\ pages[KeyOf(Ask(r))].rows \in Seq(FoundRows)
         /\ Sound(pages[KeyOf(Ask(r))].rows, LimitOf(Ask(r)), {Ask(r).user})
<1>1. Sound(pages[KeyOf(Ask(r))].rows, LimitOf(Ask(r)), {Ask(r).user}) BY DEF FeedInv, PagesRight
<1> QED BY <1>1 DEF Sound

LEMMA FeedLookup == ASSUME FeedInv, NEW r \in Seekers, Lookup(r) PROVE FeedInv'
<1>b. PICK q : q = seek[r] OBVIOUS
<1>k. PICK a : a = Ask(r) OBVIOUS
<1>p. PICK page : page = pages[KeyOf(Ask(r))] OBVIOUS
<1>0. /\ q \in SeekRecord /\ Stepping(q) /\ q.at = "lookup" /\ a \in AskSet /\ q.ask = a /\ a.kind \in Cached
      /\ q.lock = NoLock /\ UNCHANGED <<catalog, pages, suggested, locks>>
  BY <1>b, <1>k, RequestNow DEF RequestRight, Stepping, Lookup, Finding, feedRows
<1>1. CASE page = NoPage
  <2>1. Go(r, "lock") BY <1>1, <1>p DEF Lookup
  <2>2. PICK x : x = seek'[r] OBVIOUS
  <2>3. /\ x \in SeekRecord /\ x.at = "lock" /\ x.ask = a /\ x.lock = NoLock /\ seek' = [seek EXCEPT ![r] = x]
    BY <1>0, <1>b, <1>k, <2>1, <2>2, GoIs DEF SeekSteps
  <2>4. RequestRight(x) BY <1>0, <2>3, Kinds DEF RequestRight, Stepping, FoundRight, Inside
  <2> QED BY <1>0, <1>k, <2>3, <2>4, RequestStep
<1>2. CASE page # NoPage
  <2>0. page.rows \in Seq(FoundRows) /\ Sound(page.rows, LimitOf(a), {a.user}) BY <1>0, <1>2, <1>k, <1>p, PageNow
  <2>1. GoWith(r, "found", page.rows) BY <1>2, <1>p DEF Lookup
  <2>2. PICK x : x = seek'[r] OBVIOUS
  <2>3. /\ x \in SeekRecord /\ x.at = "found" /\ x.ask = a /\ x.rows = page.rows /\ seek' = [seek EXCEPT ![r] = x]
    BY <1>b, <1>k, <2>0, <2>1, <2>2, GoWithIs DEF SeekSteps
  <2>4. RequestRight(x) BY <1>0, <2>0, <2>3, Kinds DEF RequestRight, Stepping, FoundRight, Inside
  <2> QED BY <1>0, <1>k, <2>3, <2>4, RequestStep
<1> QED BY <1>1, <1>2

LEMMA FeedAcquire == ASSUME FeedInv, NEW r \in Seekers, AcquireLock(r) PROVE FeedInv'
<1>b. PICK q : q = seek[r] OBVIOUS
<1>k. PICK a : a = Ask(r) OBVIOUS
<1>0. /\ q \in SeekRecord /\ Stepping(q) /\ q.at = "wait" /\ a \in AskSet /\ q.ask = a /\ a.kind \in Cached
      /\ q.lock # NoLock /\ UNCHANGED <<catalog, pages, suggested, locks>>
  BY <1>b, <1>k, RequestNow DEF RequestRight, Stepping, AcquireLock, Finding, feedRows
<1>1. Go(r, "again") BY DEF AcquireLock
<1>2. PICK x : x = seek'[r] OBVIOUS
<1>3. /\ x \in SeekRecord /\ x.at = "again" /\ x.ask = a /\ x.lock = q.lock /\ seek' = [seek EXCEPT ![r] = x]
  BY <1>0, <1>b, <1>k, <1>1, <1>2, GoIs DEF SeekSteps
<1>4. RequestRight(x) BY <1>0, <1>3, Kinds DEF RequestRight, Stepping, FoundRight, Inside
<1> QED BY <1>0, <1>k, <1>3, <1>4, RequestStep

LEMMA FeedAgain == ASSUME FeedInv, NEW r \in Seekers, LookupAgain(r) PROVE FeedInv'
<1>b. PICK q : q = seek[r] OBVIOUS
<1>k. PICK a : a = Ask(r) OBVIOUS
<1>p. PICK page : page = pages[KeyOf(Ask(r))] OBVIOUS
<1>0. /\ q \in SeekRecord /\ Stepping(q) /\ q.at = "again" /\ a \in AskSet /\ q.ask = a /\ a.kind \in Cached
      /\ q.lock # NoLock /\ UNCHANGED <<catalog, pages, suggested, locks>>
  BY <1>b, <1>k, RequestNow DEF RequestRight, Stepping, LookupAgain, Finding, feedRows, Inside
<1>1. CASE page = NoPage
  <2>0. PICK at : at = IF a.kind = "similar" THEN "category" ELSE "count" OBVIOUS
  <2>1. Go(r, at) BY <1>1, <1>k, <1>p, <2>0 DEF LookupAgain, CachedNow
  <2>2. PICK x : x = seek'[r] OBVIOUS
  <2>3. /\ x \in SeekRecord /\ x.at = at /\ x.ask = a /\ x.lock # NoLock /\ seek' = [seek EXCEPT ![r] = x]
    BY <1>0, <1>b, <1>k, <2>0, <2>1, <2>2, GoIs DEF SeekSteps
  <2>4. RequestRight(x) BY <1>0, <2>0, <2>3, Kinds DEF RequestRight, Stepping, FoundRight, Inside
  <2> QED BY <1>0, <1>k, <2>3, <2>4, RequestStep
<1>2. CASE page # NoPage
  <2>0. page.rows \in Seq(FoundRows) /\ Sound(page.rows, LimitOf(a), {a.user}) BY <1>0, <1>2, <1>k, <1>p, PageNow
  <2>1. GoWith(r, "found", page.rows) BY <1>2, <1>p DEF LookupAgain, CachedNow
  <2>2. PICK x : x = seek'[r] OBVIOUS
  <2>3. /\ x \in SeekRecord /\ x.at = "found" /\ x.ask = a /\ x.rows = page.rows /\ seek' = [seek EXCEPT ![r] = x]
    BY <1>b, <1>k, <2>0, <2>1, <2>2, GoWithIs DEF SeekSteps
  <2>4. RequestRight(x) BY <1>0, <2>0, <2>3, Kinds DEF RequestRight, Stepping, FoundRight, Inside
  <2> QED BY <1>0, <1>k, <2>3, <2>4, RequestStep
<1> QED BY <1>1, <1>2

LEMMA FeedGiveUp == ASSUME FeedInv, NEW r \in Seekers, GiveUp(r) PROVE FeedInv'
<1>1. Go(r, "failed") /\ UNCHANGED <<catalog, pages, suggested, locks>> BY DEF GiveUp, feedRows
<1>2. PICK x : x = seek'[r] OBVIOUS
<1>3. x \in SeekRecord /\ x.at = "failed" /\ x.ask = Ask(r) /\ seek' = [seek EXCEPT ![r] = x]
  BY <1>1, <1>2, GoIs DEF SeekSteps
<1>4. RequestRight(x) BY <1>3 DEF RequestRight, Stepping, FoundRight, Inside
<1> QED BY <1>1, <1>3, <1>4, RequestStep

LEMMA FeedProbe == ASSUME FeedInv, NEW r \in Seekers, ProbeParser(r) PROVE FeedInv'
<1>1. CASE UNCHANGED seek
  <2>1. PICK x : x = seek[r] OBVIOUS
  <2>2. RequestRight(x) /\ x.ask = Ask(r) /\ seek' = [seek EXCEPT ![r] = x] BY <1>1, <2>1, RequestNow
  <2> QED BY <2>2, RequestStep DEF ProbeParser, feedRows
<1>2. CASE Go(r, "fallback")
  <2>1. UNCHANGED <<catalog, pages, suggested, locks>> /\ seek[r].at = "search"
    BY DEF ProbeParser, feedRows, Finding
  <2>2. PICK x : x = seek'[r] OBVIOUS
  <2>3. x \in SeekRecord /\ x.at = "fallback" /\ x.ask = Ask(r) /\ seek' = [seek EXCEPT ![r] = x]
    BY <1>2, <2>2, GoIs DEF SeekSteps
  <2>4. x.ask.kind = "search" BY <2>1, <2>3, RequestNow DEF RequestRight, Stepping
  <2>5. RequestRight(x) BY <2>3, <2>4 DEF RequestRight, Stepping, FoundRight, Inside
  <2> QED BY <2>1, <2>3, <2>5, RequestStep
<1> QED BY <1>1, <1>2 DEF ProbeParser

\* The number of a finite set of rows is a number.
LEMMA CountTyped == ASSUME FeedInv, NEW u PROVE RecentCount(u) \in Nat /\ TrendingCount(u) \in Nat
<1>1. Rows \subseteq VideoIds BY DEF Rows
<1>2. IsFiniteSet(Local(OwnedBy(u))) /\ IsFiniteSet(TrendingOf(u))
  <2>1. Local(OwnedBy(u)) \subseteq VideoIds /\ TrendingOf(u) \subseteq VideoIds BY <1>1 DEF Local, OwnedBy, TrendingOf
  <2> QED BY <2>1, DiscoveryAssumption, FS_Subset
<1> QED BY <1>2, FS_CardinalityType DEF RecentCount, TrendingCount

LEMMA FeedCount == ASSUME FeedInv, NEW r \in Seekers, CountVideos(r) PROVE FeedInv'
<1>b. PICK q : q = seek[r] OBVIOUS
<1>k. PICK a : a = Ask(r) OBVIOUS
<1>n. PICK n : n = IF Ask(r).kind = "recent" THEN RecentCount(Ask(r).user) ELSE TrendingCount(Ask(r).user) OBVIOUS
<1>0. /\ q \in SeekRecord /\ RequestRight(q) /\ q.at = "count" /\ a \in AskSet /\ q.ask = a
      /\ UNCHANGED <<catalog, pages, suggested, locks>> /\ seek \in [Seekers -> SeekRecord]
  BY <1>b, <1>k, RequestNow DEF CountVideos, Finding, feedRows
<1>1. n \in Nat BY <1>n, CountTyped
<1>2. PICK x : x = seek'[r] OBVIOUS
<1>3. x = [q EXCEPT !.at = "page", !.total = n] /\ seek' = [seek EXCEPT ![r] = x]
  BY <1>0, <1>2, <1>b, <1>n DEF CountVideos
<1>4. /\ x \in SeekRecord /\ x.at = "page" /\ x.ask = a /\ x.lock = q.lock /\ x.cats = q.cats
  BY <1>0, <1>1, <1>3 DEF SeekRecord, SeekSteps
<1>5. RequestRight(x) BY <1>0, <1>4, Kinds DEF RequestRight, Stepping, FoundRight, Inside
<1> QED BY <1>0, <1>k, <1>3, <1>4, <1>5, RequestStep

LEMMA FeedCategory == ASSUME FeedInv, NEW r \in Seekers, VideoCategory(r) PROVE FeedInv'
<1>b. PICK q : q = seek[r] OBVIOUS
<1>k. PICK a : a = Ask(r) OBVIOUS
<1>2. PICK x : x = seek'[r] OBVIOUS
<1>0. /\ q \in SeekRecord /\ RequestRight(q) /\ q.at = "category" /\ a \in AskSet /\ q.ask = a
      /\ UNCHANGED <<catalog, pages, suggested, locks>> /\ seek \in [Seekers -> SeekRecord]
  BY <1>b, <1>k, RequestNow DEF VideoCategory, Finding, feedRows
<1>1. CASE Ask(r).video \notin Rows
  <2>1. Go(r, "failed") BY <1>1 DEF VideoCategory
  <2>2. x \in SeekRecord /\ x.at = "failed" /\ x.ask = a /\ seek' = [seek EXCEPT ![r] = x]
    BY <1>k, <1>2, <2>1, GoIs DEF SeekSteps
  <2>3. RequestRight(x) BY <2>2 DEF RequestRight, Stepping, FoundRight, Inside
  <2> QED BY <1>0, <1>k, <2>2, <2>3, RequestStep
<1>3. CASE Ask(r).video \in Rows
  <2>0. PICK c : c = catalog[Ask(r).video].category OBVIOUS
  <2>1. c \in Categories \cup {NoCategory} BY <1>3, <2>0 DEF FeedInv, Rows, CatalogRows
  <2>2. x = [q EXCEPT !.at = "page", !.cats = {c}] /\ seek' = [seek EXCEPT ![r] = x]
    BY <1>0, <1>2, <1>3, <1>b, <2>0 DEF VideoCategory
  <2>3. x \in SeekRecord /\ x.at = "page" /\ x.ask = a /\ x.lock = q.lock
    BY <1>0, <2>1, <2>2 DEF SeekRecord, SeekSteps
  <2>4. RequestRight(x) BY <1>0, <2>3, Kinds DEF RequestRight, Stepping, FoundRight, Inside, Cached, Paged
  <2> QED BY <1>0, <1>k, <2>2, <2>3, <2>4, RequestStep
<1> QED BY <1>1, <1>3

\* Every page shows videos of whom it is for.
LEMMA OwnedIs == ASSUME NEW u PROVE OwnedBy(u) \subseteq Rows /\ \A v \in OwnedBy(u) : catalog[v].owner \in {u}
BY DEF OwnedBy

LEMMA FeedPage ==
  ASSUME FeedInv, NEW r \in Seekers, NEW S, S \subseteq OwnedBy(Ask(r).user),
         NEW orders, \A s \in orders : s \in SetToSeqs(S), NEW offset \in Nat, NEW then,
         <<then, Ask(r).kind>> \in ({"insert"} \X Cached) \cup {<<"found", "foryou">>},
         Page(r, orders, offset, then)
  PROVE  FeedInv'
<1>b. PICK q : q = seek[r] OBVIOUS
<1>k. PICK a : a = Ask(r) OBVIOUS
<1>0. /\ q \in SeekRecord /\ RequestRight(q) /\ q.at = "page" /\ a \in AskSet /\ q.ask = a
      /\ UNCHANGED <<catalog, pages, suggested, locks>> /\ LimitOf(a) \in Nat
      /\ catalog \in [VideoIds -> CatalogRows \cup {NoRow, Gone}]
  BY <1>b, <1>k, RequestNow DEF Page, Finding, feedRows, FeedInv
<1>1. PICK s \in orders : GoWith(r, then, PageOf(s, offset, LimitOf(a))) BY <1>k DEF Page
<1>2. PICK rows : rows = PageOf(s, offset, LimitOf(a)) OBVIOUS
<1>3. Sound(rows, LimitOf(a), {a.user})
  <2>1. S \subseteq Rows /\ \A v \in S : catalog[v].owner \in {a.user} BY <1>k, OwnedIs
  <2>2. s \in SetToSeqs(S) BY <1>1
  <2> QED BY <1>0, <1>2, <2>1, <2>2, PageSound
<1>4. PICK x : x = seek'[r] OBVIOUS
<1>5. /\ x \in SeekRecord /\ x.at = then /\ x.ask = a /\ x.rows = rows /\ x.cats = q.cats /\ x.lock = q.lock
      /\ seek' = [seek EXCEPT ![r] = x]
  <2>1. rows \in Seq(FoundRows) BY <1>3 DEF Sound
  <2>2. then \in SeekSteps BY DEF SeekSteps
  <2> QED BY <1>1, <1>2, <1>4, <1>b, <1>k, <2>1, <2>2, GoWithIs
<1>6. RequestRight(x)
  <2>1. CASE then = "insert" /\ a.kind \in Cached
    <3>1. q.lock # NoLock BY <1>0, <2>1 DEF RequestRight, Stepping, Inside
    <3> QED BY <1>0, <1>3, <1>5, <2>1, <3>1, Kinds DEF RequestRight, Stepping, FoundRight, Inside
  <2>2. CASE then = "found" /\ a.kind = "foryou"
    <3>1. q.cats = {} BY <1>0, <2>2 DEF RequestRight, FoundRight
    <3>2. Ranked(rows, {}) BY DEF Ranked
    <3> QED BY <1>0, <1>3, <1>5, <2>2, <3>1, <3>2, Kinds DEF RequestRight, Stepping, FoundRight, Inside
  <2> QED BY <1>k, <2>1, <2>2
<1> QED BY <1>0, <1>k, <1>5, <1>6, RequestStep

LEMMA FeedPages == ASSUME FeedInv, NEW r \in Seekers, TrendingPage(r) \/ RecentPage(r) \/ SimilarPage(r) PROVE FeedInv'
<1>k. PICK u : u = Ask(r).user OBVIOUS
<1>o. PICK offset \in Nat : offset = OffsetOf(Ask(r)) BY RequestNow
<1>0. 0 \in Nat OBVIOUS
<1>1. CASE Ask(r).kind = "trending" /\ Page(r, TrendingVideos(Ask(r).user), OffsetOf(Ask(r)), "insert")
  <2>1. PICK S, orders : S = TrendingOf(u) /\ orders = TrendingVideos(u) OBVIOUS
  <2>2. S \subseteq OwnedBy(Ask(r).user) BY <1>k, <2>1 DEF TrendingOf, Local
  <2>3. \A s \in orders : s \in SetToSeqs(S) BY <2>1 DEF TrendingVideos, OrdersBy
  <2>4. Page(r, orders, offset, "insert") BY <1>1, <1>k, <1>o, <2>1
  <2>5. <<"insert", Ask(r).kind>> \in ({"insert"} \X Cached) \cup {<<"found", "foryou">>} BY <1>1 DEF Cached, Paged
  <2> QED BY <2>2, <2>3, <2>4, <2>5, FeedPage
<1>2. CASE Ask(r).kind = "foryou" /\ Page(r, TrendingVideos(Ask(r).user), 0, "found")
  <2>1. PICK S, orders : S = TrendingOf(u) /\ orders = TrendingVideos(u) OBVIOUS
  <2>2. S \subseteq OwnedBy(Ask(r).user) BY <1>k, <2>1 DEF TrendingOf, Local
  <2>3. \A s \in orders : s \in SetToSeqs(S) BY <2>1 DEF TrendingVideos, OrdersBy
  <2>4. Page(r, orders, 0, "found") BY <1>2, <1>k, <2>1
  <2>5. <<"found", Ask(r).kind>> \in ({"insert"} \X Cached) \cup {<<"found", "foryou">>} BY <1>2
  <2> QED BY <1>0, <2>2, <2>3, <2>4, <2>5, FeedPage
<1>3. CASE Ask(r).kind = "recent" /\ Page(r, RecentVideos(Ask(r).user), OffsetOf(Ask(r)), "insert")
  <2>1. PICK S, orders : S = Local(OwnedBy(u)) /\ orders = RecentVideos(u) OBVIOUS
  <2>2. S \subseteq OwnedBy(Ask(r).user) BY <1>k, <2>1 DEF Local
  <2>3. \A s \in orders : s \in SetToSeqs(S) BY <2>1 DEF RecentVideos, OrdersBy
  <2>4. Page(r, orders, offset, "insert") BY <1>3, <1>k, <1>o, <2>1
  <2>5. <<"insert", Ask(r).kind>> \in ({"insert"} \X Cached) \cup {<<"found", "foryou">>} BY <1>3 DEF Cached, Paged
  <2> QED BY <2>2, <2>3, <2>4, <2>5, FeedPage
<1>4. CASE SimilarPage(r)
  <2>1. PICK category \in seek[r].cats : Page(r, SimilarVideos(Ask(r).user, Ask(r).video, category), 0, "insert")
    BY <1>4 DEF SimilarPage
  <2>2. PICK S, orders : /\ S = {v \in OwnedBy(Ask(r).user) \ {Ask(r).video} : category \in {NoCategory, catalog[v].category}}
                         /\ orders = SimilarVideos(Ask(r).user, Ask(r).video, category)
    OBVIOUS
  <2>3. S \subseteq OwnedBy(Ask(r).user) BY <2>2
  <2>4. \A s \in orders : s \in SetToSeqs(S) BY <2>2 DEF SimilarVideos, OrdersBy
  <2>5. Page(r, orders, 0, "insert") BY <2>1, <2>2
  <2>6. <<"insert", Ask(r).kind>> \in ({"insert"} \X Cached) \cup {<<"found", "foryou">>} BY <1>4 DEF SimilarPage, Cached, Paged
  <2> QED BY <1>0, <2>3, <2>4, <2>5, <2>6, FeedPage
<1> QED BY <1>1, <1>2, <1>3, <1>4 DEF TrendingPage, RecentPage

\* A request writes a page: for all that have its key.
LEMMA FeedInsert == ASSUME FeedInv, NEW r \in Seekers, InsertPage(r) PROVE FeedInv'
<1>b. PICK q : q = seek[r] OBVIOUS
<1>k. PICK a : a = Ask(r) OBVIOUS
<1>x. PICK x : x = seek'[r] OBVIOUS
<1>p. PICK page : page = [rows |-> q.rows, total |-> q.total] OBVIOUS
<1>0. /\ q \in SeekRecord /\ RequestRight(q) /\ q.at = "insert" /\ a \in AskSet /\ q.ask = a
      /\ UNCHANGED <<catalog, suggested, locks>> /\ seek \in [Seekers -> SeekRecord] /\ KeyOf(a) \in SeekKeys
      /\ pages' = [pages EXCEPT ![KeyOf(a)] = page] /\ Go(r, "found")
  BY <1>b, <1>k, <1>p, RequestNow DEF InsertPage, Finding, feedRows
<1>1. a.kind \in Cached /\ Sound(q.rows, LimitOf(a), {a.user}) BY <1>0 DEF RequestRight, Stepping, FoundRight
<1>2. /\ x \in SeekRecord /\ x.at = "found" /\ x.ask = a /\ x.rows = q.rows /\ seek' = [seek EXCEPT ![r] = x]
  BY <1>0, <1>b, <1>k, <1>x, GoIs DEF SeekSteps
<1>3. RequestRight(x) BY <1>0, <1>1, <1>2, Kinds DEF RequestRight, Stepping, FoundRight, Inside
<1>4. seek' \in [Seekers -> SeekRecord] /\ \A s \in Seekers \ {r} : seek'[s] = seek[s] BY <1>0, <1>2
<1>5. \A s \in Seekers : Ask(s)' = Ask(s) BY <1>2, <1>4, <1>x, <1>k DEF Ask
<1>6. SeekKeys' = SeekKeys BY <1>5, KeysSame DEF Ask
<1>7. \A q0 : RequestRight(q0)' <=> RequestRight(q0) BY <1>0 DEF RequestRight, FoundRight, Sound, Rows
<1>8. \A rows, n, U : Sound(rows, n, U)' <=> Sound(rows, n, U) BY <1>0 DEF Sound, Rows
<1>9. \A s \in Seekers : RequestRight(seek[s])'
  <2> SUFFICES ASSUME NEW s \in Seekers, NEW y, y = seek'[s] PROVE RequestRight(y)' OBVIOUS
  <2>1. RequestRight(y) BY <1>2, <1>3, <1>4, <1>x DEF FeedInv
  <2> QED BY <1>7, <2>1
<1>10. page \in [rows : Seq(FoundRows), total : Nat] /\ page.rows = q.rows
  <2>1. q.rows \in Seq(FoundRows) /\ q.total \in Nat BY <1>0 DEF SeekRecord
  <2> QED BY <1>p, <2>1
<1>11. pages' \in [SeekKeys' -> [rows : Seq(FoundRows), total : Nat] \cup {NoPage}]
  BY <1>0, <1>6, <1>10 DEF FeedInv
<1>12. pages'[KeyOf(a)] = page /\ \A k \in SeekKeys \ {KeyOf(a)} : pages'[k] = pages[k] BY <1>0 DEF FeedInv
<1>13. PagesRight'
  <2> SUFFICES ASSUME NEW s \in Seekers, NEW b, b = Ask(s), b.kind \in Cached, pages'[KeyOf(b)] # NoPage
               PROVE  Sound(pages'[KeyOf(b)].rows, LimitOf(b), {b.user})
    BY <1>5, <1>8 DEF PagesRight
  <2>1. b \in AskSet /\ KeyOf(b) \in SeekKeys BY RequestNow
  <2>2. CASE KeyOf(b) = KeyOf(a)
    <3>1. LimitOf(b) = LimitOf(a) /\ b.user = a.user BY <1>0, <1>1, <2>1, <2>2, SameKey
    <3> QED BY <1>1, <1>10, <1>12, <2>2, <3>1
  <2>3. CASE KeyOf(b) # KeyOf(a)
    <3>1. pages'[KeyOf(b)] = pages[KeyOf(b)] BY <1>12, <2>1, <2>3
    <3> QED BY <3>1 DEF FeedInv, PagesRight
  <2> QED BY <2>2, <2>3
<1>14. SuggestedRight'
  <2>1. SuggestedRight BY DEF FeedInv
  <2> QED BY <1>0, <1>5, <1>8, <2>1 DEF SuggestedRight
<1>15. locks' \in [SeekKeys' -> Nat \cup {NoLock}] /\ catalog' \in [VideoIds -> CatalogRows \cup {NoRow, Gone}]
  BY <1>0, <1>6 DEF FeedInv
<1> QED BY <1>4, <1>9, <1>11, <1>13, <1>14, <1>15 DEF FeedInv

LEMMA FeedRemember == ASSUME FeedInv, NEW r \in Seekers, RememberSuggested(r) PROVE FeedInv'
<1>b. PICK q : q = seek[r] OBVIOUS
<1>k. PICK a : a = Ask(r) OBVIOUS
<1>x. PICK x : x = seek'[r] OBVIOUS
<1>p. PICK e : e = [key |-> SuggestKey(a), rows |-> q.rows] OBVIOUS
<1>0. /\ q \in SeekRecord /\ RequestRight(q) /\ q.at = "remember" /\ a \in AskSet /\ q.ask = a
      /\ UNCHANGED <<catalog, pages, locks>> /\ seek \in [Seekers -> SeekRecord]
      /\ suggested' \subseteq suggested \cup {e} /\ Go(r, "found")
  BY <1>b, <1>k, <1>p, RequestNow DEF RememberSuggested, Finding, feedRows
<1>1. a.kind = "suggest" /\ Sound(q.rows, ListLimit, Audience(a)) BY <1>0 DEF RequestRight, Stepping, FoundRight
<1>2. /\ x \in SeekRecord /\ x.at = "found" /\ x.ask = a /\ x.rows = q.rows /\ seek' = [seek EXCEPT ![r] = x]
  BY <1>0, <1>b, <1>k, <1>x, GoIs DEF SeekSteps
<1>3. RequestRight(x)
  <2>1. ListLimit \in Nat /\ MaxSize \in Nat /\ ListLimit <= MaxSize BY DiscoveryAssumption
  <2>2. Sound(q.rows, MaxSize, Audience(a)) BY <1>1, <2>1, MoreSound
  <2> QED BY <1>0, <1>1, <1>2, <2>2, Kinds DEF RequestRight, Stepping, FoundRight, Inside
<1>4. seek' \in [Seekers -> SeekRecord] /\ \A s \in Seekers \ {r} : seek'[s] = seek[s] BY <1>0, <1>2
<1>5. \A s \in Seekers : Ask(s)' = Ask(s) BY <1>2, <1>4, <1>x, <1>k DEF Ask
<1>6. SeekKeys' = SeekKeys BY <1>5, KeysSame DEF Ask
<1>7. \A q0 : RequestRight(q0)' <=> RequestRight(q0) BY <1>0 DEF RequestRight, FoundRight, Sound, Rows
<1>8. \A rows, n, U : Sound(rows, n, U)' <=> Sound(rows, n, U) BY <1>0 DEF Sound, Rows
<1>9. \A s \in Seekers : RequestRight(seek[s])'
  <2> SUFFICES ASSUME NEW s \in Seekers, NEW y, y = seek'[s] PROVE RequestRight(y)' OBVIOUS
  <2>1. RequestRight(y) BY <1>2, <1>3, <1>4, <1>x DEF FeedInv
  <2> QED BY <1>7, <2>1
<1>10. PagesRight'
  <2>1. PagesRight BY DEF FeedInv
  <2> QED BY <1>0, <1>5, <1>8, <2>1 DEF PagesRight
<1>11. SuggestedRight'
  <2> SUFFICES ASSUME NEW s \in Seekers, NEW b, b = Ask(s), NEW f \in suggested', f.key = SuggestKey(b)
               PROVE  Sound(f.rows, ListLimit, Audience(b))
    BY <1>5, <1>8 DEF SuggestedRight
  <2>1. b \in AskSet BY RequestNow
  <2>2. CASE f \in suggested BY <2>2 DEF FeedInv, SuggestedRight
  <2>3. CASE f = e
    <3>1. f.key = SuggestKey(a) /\ f.rows = q.rows BY <1>p, <2>3
    <3>2. Audience(b) = Audience(a) BY <1>0, <2>1, <3>1, SameAudience
    <3> QED BY <1>1, <3>1, <3>2
  <2> QED BY <1>0, <2>2, <2>3
<1>12. /\ locks' \in [SeekKeys' -> Nat \cup {NoLock}] /\ catalog' \in [VideoIds -> CatalogRows \cup {NoRow, Gone}]
       /\ pages' \in [SeekKeys' -> [rows : Seq(FoundRows), total : Nat] \cup {NoPage}]
  BY <1>0, <1>6 DEF FeedInv
<1> QED BY <1>4, <1>9, <1>10, <1>11, <1>12 DEF FeedInv

LEMMA FeedSuggest == ASSUME FeedInv, NEW r \in Seekers, SearchSuggest(r) PROVE FeedInv'
<1>b. PICK q : q = seek[r] OBVIOUS
<1>k. PICK a : a = Ask(r) OBVIOUS
<1>x. PICK x : x = seek'[r] OBVIOUS
<1>0. /\ q \in SeekRecord /\ RequestRight(q) /\ q.at = "suggest" /\ a \in AskSet /\ q.ask = a /\ a.kind = "suggest"
      /\ UNCHANGED <<catalog, pages, suggested, locks>> /\ ListLimit \in Nat /\ MaxSize \in Nat /\ ListLimit <= MaxSize
  BY <1>b, <1>k, RequestNow, DiscoveryAssumption DEF SearchSuggest, Finding, feedRows, RequestRight, Stepping
<1>1. ASSUME NEW rows, GoWith(r, "found", rows), Sound(rows, ListLimit, Audience(a)) PROVE FeedInv'
  <2>1. rows \in Seq(FoundRows) BY <1>1 DEF Sound
  <2>2. Sound(rows, MaxSize, Audience(a)) BY <1>0, <1>1, MoreSound
  <2>3. /\ x \in SeekRecord /\ x.at = "found" /\ x.ask = a /\ x.rows = rows /\ seek' = [seek EXCEPT ![r] = x]
    BY <1>1, <1>k, <1>x, <2>1, GoWithIs DEF SeekSteps
  <2>4. RequestRight(x) BY <1>0, <2>2, <2>3, Kinds DEF RequestRight, Stepping, FoundRight, Inside
  <2> QED BY <1>0, <1>k, <2>3, <2>4, RequestStep
<1>2. CASE GoWith(r, "found", <<>>)
  <2>1. Sound(<<>>, ListLimit, Audience(a)) BY <1>0, EmptySound
  <2> QED BY <1>1, <1>2, <2>1
<1>3. ASSUME NEW e \in suggested, e.key = SuggestKey(Ask(r)), GoWith(r, "found", e.rows) PROVE FeedInv'
  <2>1. Sound(e.rows, ListLimit, Audience(a)) BY <1>3, <1>k DEF FeedInv, SuggestedRight
  <2> QED BY <1>1, <1>3, <2>1
<1>4. ASSUME NEW s \in SetToSeqs(SuggestTitles(Ask(r))), GoWith(r, "remember", PageOf(s, 0, ListLimit)) PROVE FeedInv'
  <2>1. PICK S : S = SuggestTitles(a) OBVIOUS
  <2>2. S \subseteq Rows /\ \A v \in S : catalog[v].owner \in Audience(a)
    <3>1. S \subseteq Searchable(a) BY <2>1 DEF SuggestTitles, Matching
    <3>2. Searchable(a) \subseteq Rows /\ \A v \in Searchable(a) : catalog[v].owner \in Audience(a)
      BY DEF Searchable, OwnedBy, Audience, FeedInv, Rows, CatalogRows
    <3> QED BY <3>1, <3>2
  <2>3. PICK rows : rows = PageOf(s, 0, ListLimit) OBVIOUS
  <2>4. Sound(rows, ListLimit, Audience(a))
    <3>1. s \in SetToSeqs(S) /\ 0 \in Nat /\ catalog \in [VideoIds -> CatalogRows \cup {NoRow, Gone}]
      BY <1>4, <1>k, <2>1 DEF FeedInv
    <3> QED BY <1>0, <2>2, <2>3, <3>1, PageSound
  <2>5. rows \in Seq(FoundRows) BY <2>4 DEF Sound
  <2>6. /\ x \in SeekRecord /\ x.at = "remember" /\ x.ask = a /\ x.rows = rows /\ seek' = [seek EXCEPT ![r] = x]
    BY <1>4, <1>k, <1>x, <2>3, <2>5, GoWithIs DEF SeekSteps
  <2>7. RequestRight(x) BY <1>0, <2>4, <2>6, Kinds DEF RequestRight, Stepping, FoundRight, Inside
  <2> QED BY <1>0, <1>k, <2>6, <2>7, RequestStep
<1>5. \/ GoWith(r, "found", <<>>)
      \/ \E e \in {f \in suggested : f.key = SuggestKey(Ask(r))} : GoWith(r, "found", e.rows)
      \/ \E s \in SetToSeqs(SuggestTitles(Ask(r))) : GoWith(r, "remember", PageOf(s, 0, ListLimit))
  BY DEF SearchSuggest
<1> QED BY <1>2, <1>3, <1>4, <1>5

LEMMA FeedSearch == ASSUME FeedInv, NEW r \in Seekers, SearchVideos(r) PROVE FeedInv'
<1>b. PICK q : q = seek[r] OBVIOUS
<1>k. PICK a : a = Ask(r) OBVIOUS
<1>x. PICK x : x = seek'[r] OBVIOUS
<1>0. /\ q \in SeekRecord /\ seek \in [Seekers -> SeekRecord] /\ RequestRight(q) /\ q.at \in {"search", "fallback"}
      /\ a \in AskSet /\ q.ask = a /\ a.kind = "search"
      /\ UNCHANGED <<catalog, pages, suggested, locks>> /\ SizeOf(a) \in 1..MaxSize /\ OffsetOf(a) \in Nat
      /\ SizeOf(a) \in Nat /\ MaxSize \in Nat /\ SizeOf(a) <= MaxSize
  BY <1>b, <1>k, RequestNow DEF SearchVideos, Finding, feedRows, RequestRight, Stepping
<1>1. PICK hits : hits = FullTextSearch(Ask(r), Finding(r, "search") /\ probed = TRUE) OBVIOUS
<1>2. hits \subseteq Rows /\ IsFiniteSet(hits) /\ \A v \in hits : catalog[v].owner \in Audience(a)
  <2>1. hits \subseteq Searchable(a)
    BY <1>1, <1>k DEF FullTextSearch, SearchSimple, SearchChinese, SearchTrigram, Matching
  <2>2. Searchable(a) \subseteq Rows /\ \A v \in Searchable(a) : catalog[v].owner \in Audience(a)
    BY DEF Searchable, OwnedBy, Audience, FeedInv, Rows, CatalogRows
  <2>3. Rows \subseteq VideoIds BY DEF Rows
  <2>4. hits \subseteq VideoIds BY <2>1, <2>2, <2>3
  <2>5. IsFiniteSet(hits) BY <2>4, DiscoveryAssumption, FS_Subset
  <2> QED BY <2>1, <2>2, <2>5
<1>3. PICK s \in SetToSeqs(hits) :
        LET rows == PageOf(s, OffsetOf(Ask(r)), SizeOf(Ask(r)))
        IN seek' = [seek EXCEPT ![r].at = "found", ![r].rows = rows, ![r].total = IF rows = <<>> THEN 0 ELSE Cardinality(hits)]
  BY <1>1 DEF SearchVideos
<1>4. PICK rows : rows = PageOf(s, OffsetOf(a), SizeOf(a)) OBVIOUS
<1>5. PICK n : n = IF rows = <<>> THEN 0 ELSE Cardinality(hits) OBVIOUS
<1>6. n \in Nat BY <1>2, <1>5, FS_CardinalityType
<1>7. Sound(rows, MaxSize, Audience(a))
  <2>1. catalog \in [VideoIds -> CatalogRows \cup {NoRow, Gone}] BY DEF FeedInv
  <2>2. PICK o, m : o = OffsetOf(a) /\ m = SizeOf(a) OBVIOUS
  <2>3. Sound(PageOf(s, o, m), m, Audience(a)) BY <1>0, <1>2, <2>1, <2>2, PageSound
  <2>4. Sound(rows, m, Audience(a)) BY <1>4, <2>2, <2>3
  <2> QED BY <1>0, <2>2, <2>4, MoreSound
<1>8. x = [q EXCEPT !.at = "found", !.rows = rows, !.total = n] /\ seek' = [seek EXCEPT ![r] = x]
  BY <1>0, <1>3, <1>4, <1>5, <1>b, <1>k, <1>x
<1>9. x \in SeekRecord /\ x.at = "found" /\ x.ask = a /\ x.rows = rows
  <2>1. rows \in Seq(FoundRows) BY <1>7 DEF Sound
  <2> QED BY <1>0, <1>6, <1>8, <2>1 DEF SeekRecord, SeekSteps
<1>10. RequestRight(x) BY <1>0, <1>7, <1>9, Kinds DEF RequestRight, Stepping, FoundRight, Inside
<1> QED BY <1>0, <1>k, <1>8, <1>9, <1>10, RequestStep

LEMMA FeedCategories == ASSUME FeedInv, NEW r \in Seekers, ReadCategories(r) PROVE FeedInv'
<1>b. PICK q : q = seek[r] OBVIOUS
<1>k. PICK a : a = Ask(r) OBVIOUS
<1>x. PICK x : x = seek'[r] OBVIOUS
<1>c. PICK cats \in WatchedCategories(Ask(r).user) :
        seek' = [seek EXCEPT ![r].cats = cats, ![r].at = IF cats = {} THEN "count" ELSE "preferred"]
  BY DEF ReadCategories
<1>0. /\ q \in SeekRecord /\ seek \in [Seekers -> SeekRecord] /\ RequestRight(q) /\ q.at = "categories"
      /\ a \in AskSet /\ q.ask = a /\ a.kind = "foryou" /\ UNCHANGED <<catalog, pages, suggested, locks>>
  BY <1>b, <1>k, RequestNow DEF ReadCategories, Finding, feedRows, RequestRight, Stepping
<1>1. cats \subseteq Categories \cup {NoCategory}
  <2>1. \A v \in Rows : catalog[v].category \in Categories \cup {NoCategory} BY DEF FeedInv, Rows, CatalogRows
  <2> QED BY <1>c, <2>1 DEF WatchedCategories, AllWatched, OwnedBy
<1>2. PICK at : at = IF cats = {} THEN "count" ELSE "preferred" OBVIOUS
<1>3. x = [q EXCEPT !.cats = cats, !.at = at] /\ seek' = [seek EXCEPT ![r] = x]
  BY <1>0, <1>2, <1>b, <1>c, <1>x
<1>4. x \in SeekRecord /\ x.at = at /\ x.ask = a /\ x.cats = cats BY <1>0, <1>1, <1>2, <1>3 DEF SeekRecord, SeekSteps
<1>5. RequestRight(x) BY <1>0, <1>2, <1>4, Kinds DEF RequestRight, Stepping, FoundRight, Inside
<1> QED BY <1>0, <1>k, <1>3, <1>4, <1>5, RequestStep

\* The rows of a page are as the table says of them.
LEMMA PageCategories ==
  ASSUME FeedInv, NEW S, S \subseteq Rows, NEW s \in SetToSeqs(S), NEW limit \in Nat, NEW page, page = PageOf(s, 0, limit)
  PROVE  \A i \in DOMAIN page : page[i].id \in S /\ page[i].category = catalog[page[i].id].category
<1>1. 0 \in Nat /\ catalog \in [VideoIds -> CatalogRows \cup {NoRow, Gone}] BY DEF FeedInv
<1>2. \A i \in DOMAIN PageOf(s, 0, limit) :
        PageOf(s, 0, limit)[i].id \in S /\ PageOf(s, 0, limit)[i].category = catalog[PageOf(s, 0, limit)[i].id].category
  BY ONLY <1>1, S \subseteq Rows, s \in SetToSeqs(S), limit \in Nat, PageIs
<1> QED BY ONLY <1>2, page = PageOf(s, 0, limit)

LEMMA FeedPreferred == ASSUME FeedInv, NEW r \in Seekers, ReadPreferred(r) PROVE FeedInv'
<1>b. PICK q : q = seek[r] OBVIOUS
<1>k. PICK a : a = Ask(r) OBVIOUS
<1>x. PICK x : x = seek'[r] OBVIOUS
<1>0. /\ q \in SeekRecord /\ seek \in [Seekers -> SeekRecord] /\ RequestRight(q) /\ q.at = "preferred"
      /\ a \in AskSet /\ q.ask = a /\ a.kind = "foryou" /\ UNCHANGED <<catalog, pages, suggested, locks>>
      /\ catalog \in [VideoIds -> CatalogRows \cup {NoRow, Gone}] /\ 0 \in Nat
  BY <1>b, <1>k, RequestNow DEF ReadPreferred, Finding, feedRows, RequestRight, Stepping, FeedInv
<1>n. PICK n \in Nat : n = LimitOf(Ask(r)) BY RequestNow
<1>1. PICK s \in PreferredVideos(Ask(r).user, seek[r].cats) :
        LET rows == PageOf(s, 0, LimitOf(Ask(r)))
        IN IF rows = <<>> THEN seek' = [seek EXCEPT ![r].at = "count", ![r].cats = {}]
           ELSE GoWith(r, IF Len(rows) < LimitOf(Ask(r)) THEN "fill" ELSE "found", rows)
  BY DEF ReadPreferred
<1>2. PICK rows : rows = PageOf(s, 0, n) OBVIOUS
<1>3. PICK S : S = {v \in Unwatched(a.user) : catalog[v].category \in q.cats} OBVIOUS
<1>4. s \in SetToSeqs(S) BY <1>1, <1>3, <1>b, <1>k DEF PreferredVideos, MostViewed
<1>5. S \subseteq Rows /\ \A v \in S : catalog[v].owner \in {a.user} /\ catalog[v].category \in q.cats
  BY <1>3 DEF Unwatched, Local, OwnedBy
<1>6. Sound(rows, n, {a.user}) BY <1>0, <1>2, <1>4, <1>5, PageSound
<1>7. Among(rows, q.cats)
  <2>1. \A i \in DOMAIN rows : rows[i].id \in S /\ rows[i].category = catalog[rows[i].id].category
    BY <1>2, <1>4, <1>5, PageCategories
  <2> QED BY <1>5, <2>1 DEF Among
<1>8. CASE rows = <<>>
  <2>1. x = [q EXCEPT !.at = "count", !.cats = {}] /\ seek' = [seek EXCEPT ![r] = x]
    BY <1>0, <1>1, <1>2, <1>8, <1>b, <1>n, <1>x
  <2>2. x \in SeekRecord /\ x.at = "count" /\ x.ask = a /\ x.cats = {} BY <1>0, <2>1 DEF SeekRecord, SeekSteps
  <2>3. RequestRight(x) BY <1>0, <2>2, Kinds DEF RequestRight, Stepping, FoundRight, Inside
  <2> QED BY <1>0, <1>k, <2>1, <2>2, <2>3, RequestStep
<1>9. CASE rows # <<>>
  <2>1. PICK at : at = IF Len(rows) < n THEN "fill" ELSE "found" OBVIOUS
  <2>2. GoWith(r, at, rows) BY <1>1, <1>2, <1>9, <1>n, <2>1
  <2>3. rows \in Seq(FoundRows) BY <1>6 DEF Sound
  <2>4. at \in SeekSteps BY <2>1 DEF SeekSteps
  <2>5. /\ x \in SeekRecord /\ x.at = at /\ x.ask = a /\ x.rows = rows /\ x.cats = q.cats /\ seek' = [seek EXCEPT ![r] = x]
    BY <1>b, <1>k, <1>x, <2>2, <2>3, <2>4, GoWithIs
  <2>6. Ranked(rows, q.cats) BY <1>7 DEF Ranked, Among
  <2>7. RequestRight(x) BY <1>0, <1>6, <1>7, <1>k, <1>n, <2>1, <2>5, <2>6, Kinds DEF RequestRight, Stepping, FoundRight, Inside
  <2> QED BY <1>0, <1>k, <2>5, <2>7, RequestStep
<1> QED BY <1>8, <1>9

\* What fills a feed is none of what it holds, nor of the categories that come first.
LEMMA JoinSound ==
  ASSUME NEW a, NEW b, NEW n \in Nat, NEW m \in Nat, NEW U, NEW cats, Sound(a, n, U), Sound(b, m, U), m = n - Len(a),
         Among(a, cats), \A i \in DOMAIN b : b[i].category \notin cats /\ b[i].id \notin Of(a)
  PROVE  Sound(a \o b, n, U) /\ Ranked(a \o b, cats)
<1>0. a \in Seq(FoundRows) /\ b \in Seq(FoundRows) BY DEF Sound
<1>k. PICK k \in Nat : k = Len(a) BY <1>0
<1>l. PICK l \in Nat : l = Len(b) BY <1>0
<1>c. PICK c : c = a \o b OBVIOUS
<1>1. /\ c \in Seq(FoundRows) /\ Len(c) = k + l /\ DOMAIN c = 1..(k + l) /\ DOMAIN a = 1..k /\ DOMAIN b = 1..l
  BY <1>0, <1>k, <1>l, <1>c
<1>2. \A i \in 1..k : c[i] = a[i] BY <1>0, <1>k, <1>c
<1>3. \A i \in 1..(k + l) : i \notin 1..k => i - k \in 1..l /\ c[i] = b[i - k] BY <1>0, <1>k, <1>l, <1>c
<1>4. Len(c) <= n BY <1>1, <1>k, <1>l DEF Sound
<1>5. Of(c) \subseteq Of(a) \cup Of(b)
  <2> SUFFICES ASSUME NEW i \in DOMAIN c PROVE c[i].id \in Of(a) \cup Of(b) BY DEF Of
  <2>1. CASE i \in 1..k BY <1>1, <1>2, <2>1 DEF Of
  <2>2. CASE i \notin 1..k
    <3>1. i - k \in DOMAIN b /\ c[i] = b[i - k] BY <1>1, <1>3, <2>2
    <3> QED BY <3>1 DEF Of
  <2> QED BY <2>1, <2>2
<1>6. ASSUME NEW i \in DOMAIN c, NEW j \in DOMAIN c, i < j
      PROVE  c[i].id # c[j].id /\ (c[j].category \in cats => c[i].category \in cats)
  <2>0. i \in 1..(k + l) /\ j \in 1..(k + l) BY <1>1
  <2>1. CASE j \in 1..k
    <3>1. i \in 1..k BY <1>6, <2>0, <2>1
    <3>2. c[i] = a[i] /\ c[j] = a[j] /\ i \in DOMAIN a /\ j \in DOMAIN a BY <1>1, <1>2, <2>1, <3>1
    <3> QED BY <1>6, <3>2 DEF Sound, Among
  <2>2. CASE i \in 1..k /\ j \notin 1..k
    <3>1. c[i] = a[i] /\ i \in DOMAIN a BY <1>1, <1>2, <2>2
    <3>2. c[j] = b[j - k] /\ j - k \in DOMAIN b BY <1>1, <1>3, <2>0, <2>2
    <3>3. a[i].id \in Of(a) BY <3>1 DEF Of
    <3> QED BY <3>1, <3>2, <3>3
  <2>3. CASE i \notin 1..k /\ j \notin 1..k
    <3>1. PICK v, w : v = i - k /\ w = j - k OBVIOUS
    <3>2. c[i] = b[v] /\ v \in DOMAIN b /\ c[j] = b[w] /\ w \in DOMAIN b BY <1>1, <1>3, <2>0, <2>3, <3>1
    <3>3. v < w BY <1>6, <2>0, <3>1
    <3> QED BY <3>2, <3>3 DEF Sound
  <2> QED BY <2>1, <2>2, <2>3
<1>7. Sound(c, n, U) BY <1>1, <1>4, <1>5, <1>6 DEF Sound
<1>8. Ranked(c, cats) BY <1>6 DEF Ranked
<1> QED BY <1>7, <1>8, <1>c

LEMMA FeedFill == ASSUME FeedInv, NEW r \in Seekers, ReadFill(r) PROVE FeedInv'
<1>b. PICK q : q = seek[r] OBVIOUS
<1>k. PICK a : a = Ask(r) OBVIOUS
<1>x. PICK x : x = seek'[r] OBVIOUS
<1>n. PICK n \in Nat : n = LimitOf(Ask(r)) BY RequestNow
<1>p. PICK preferred : preferred = q.rows OBVIOUS
<1>0. /\ q \in SeekRecord /\ RequestRight(q) /\ q.at = "fill" /\ a \in AskSet /\ q.ask = a /\ a.kind = "foryou"
      /\ UNCHANGED <<catalog, pages, suggested, locks>>
  BY <1>b, <1>k, RequestNow DEF ReadFill, Finding, feedRows, RequestRight, Stepping
<1>1. Sound(preferred, n, {a.user}) /\ Among(preferred, q.cats) BY <1>0, <1>k, <1>n, <1>p DEF RequestRight, FoundRight
<1>2. PICK m \in Nat : m = n - Len(preferred)
  <2>1. Len(preferred) \in Nat /\ Len(preferred) <= n BY <1>1 DEF Sound
  <2> QED BY <2>1
<1>3. PICK s \in FillVideos(Ask(r).user, q.cats, preferred) : GoWith(r, "found", preferred \o PageOf(s, 0, m))
  BY <1>2, <1>b, <1>n, <1>p DEF ReadFill
<1>4. PICK S : S = {v \in Unwatched(a.user) : catalog[v].category \notin q.cats \cup {NoCategory} /\ v \notin Of(preferred)}
  OBVIOUS
<1>5. s \in SetToSeqs(S) BY <1>3, <1>4, <1>k DEF FillVideos, MostViewed
<1>6. /\ S \subseteq Rows /\ \A v \in S : catalog[v].owner \in {a.user}
      /\ \A v \in S : catalog[v].category \notin q.cats /\ v \notin Of(preferred)
  BY <1>4 DEF Unwatched, Local, OwnedBy
<1>7. PICK rest : rest = PageOf(s, 0, m) OBVIOUS
<1>8. Sound(rest, m, {a.user})
  <2>1. 0 \in Nat /\ catalog \in [VideoIds -> CatalogRows \cup {NoRow, Gone}] BY DEF FeedInv
  <2> QED BY <1>5, <1>6, <1>7, <2>1, PageSound
<1>9. \A i \in DOMAIN rest : rest[i].category \notin q.cats /\ rest[i].id \notin Of(preferred)
  <2>1. \A i \in DOMAIN rest : rest[i].id \in S /\ rest[i].category = catalog[rest[i].id].category
    BY <1>5, <1>6, <1>7, PageCategories
  <2> QED BY <1>6, <2>1
<1>10. PICK rows : rows = preferred \o rest OBVIOUS
<1>11. Sound(rows, n, {a.user}) /\ Ranked(rows, q.cats) BY <1>1, <1>2, <1>8, <1>9, <1>10, JoinSound
<1>12. /\ x \in SeekRecord /\ x.at = "found" /\ x.ask = a /\ x.rows = rows /\ x.cats = q.cats /\ seek' = [seek EXCEPT ![r] = x]
  <2>1. rows \in Seq(FoundRows) BY <1>11 DEF Sound
  <2>2. GoWith(r, "found", rows) BY <1>3, <1>7, <1>10
  <2> QED BY <1>b, <1>k, <1>x, <2>1, <2>2, GoWithIs DEF SeekSteps
<1>13. RequestRight(x) BY <1>0, <1>11, <1>12, <1>k, <1>n, Kinds DEF RequestRight, Stepping, FoundRight, Inside
<1> QED BY <1>0, <1>k, <1>12, <1>13, RequestStep

\* There is always a lock that no request has.
LEMMA LockLeft ==
  ASSUME FeedInv, NEW r \in Seekers, seek[r].lock = NoLock
  PROVE  Min(1..Cardinality(Seekers) \ {seek[s].lock : s \in Seekers}) \in Nat
<1>n. PICK n : n = Cardinality(Seekers) OBVIOUS
<1>1. n \in Nat /\ IsFiniteSet(Seekers) BY <1>n, DiscoveryAssumption, FS_CardinalityType
<1>2. PICK free : free = 1..n \ {seek[s].lock : s \in Seekers} OBVIOUS
<1>3. free \subseteq Nat BY <1>1, <1>2
<1>4. ASSUME free = {} PROVE FALSE
  <2>1. \A i \in 1..n : \E s \in Seekers \ {r} : seek[s].lock = i
    <3> SUFFICES ASSUME NEW i \in 1..n PROVE \E s \in Seekers \ {r} : seek[s].lock = i OBVIOUS
    <3>1. PICK s \in Seekers : seek[s].lock = i BY <1>2, <1>4
    <3>2. i \in Nat /\ NoLock \notin Nat BY <1>1, DiscoveryAssumption
    <3> QED BY <3>1, <3>2
  <2>2. PICK f : f = [i \in 1..n |-> CHOOSE s \in Seekers \ {r} : seek[s].lock = i] OBVIOUS
  <2>3. f \in [1..n -> Seekers \ {r}] /\ \A i \in 1..n : seek[f[i]].lock = i BY <2>1, <2>2
  <2>4. PICK T : T = Seekers \ {r} OBVIOUS
  <2>5. IsFiniteSet(T) /\ Cardinality(T) = n - 1 BY <1>1, <1>n, <2>4, FS_RemoveElement
  <2>6. IsFiniteSet(1..n) /\ Cardinality(1..n) = n
    <3>1. 1 \in Int /\ n \in Int BY <1>1
    <3>2. IsFiniteSet(1..n) /\ Cardinality(1..n) = IF 1 > n THEN 0 ELSE n - 1 + 1 BY <3>1, FS_Interval
    <3> QED BY <1>1, <3>2
  <2>7. PICK S : S = 1..n OBVIOUS
  <2>8. Cardinality(T) < Cardinality(S) /\ IsFiniteSet(S) /\ f \in [S -> T] BY <1>1, <2>3, <2>4, <2>5, <2>6, <2>7
  <2>9. \E x, y \in S : x # y /\ f[x] = f[y] BY <2>5, <2>8, FS_PigeonHole
  <2> QED BY <2>3, <2>7, <2>9
<1>5. PICK x \in free : \A y \in free : x <= y
  <2>1. free # {} BY <1>4
  <2> QED BY <1>3, <2>1, LeastOf
<1>6. Min(free) \in free BY <1>5 DEF Min
<1> QED BY <1>2, <1>3, <1>6, <1>n

LEMMA FeedLock == ASSUME FeedInv, NEW r \in Seekers, InflightLock(r) PROVE FeedInv'
<1>b. PICK q : q = seek[r] OBVIOUS
<1>k. PICK a : a = Ask(r) OBVIOUS
<1>x. PICK x : x = seek'[r] OBVIOUS
<1>l. PICK mutex : mutex = IF locks[KeyOf(Ask(r))] = NoLock THEN Min(1..Cardinality(Seekers) \ {seek[s].lock : s \in Seekers})
                         ELSE locks[KeyOf(Ask(r))]
  OBVIOUS
<1>0. /\ q \in SeekRecord /\ seek \in [Seekers -> SeekRecord] /\ RequestRight(q) /\ q.at = "lock" /\ KeyOf(a) \in SeekKeys
      /\ a \in AskSet /\ q.ask = a /\ a.kind \in Cached /\ q.lock = NoLock /\ UNCHANGED <<catalog, pages, suggested>>
  BY <1>b, <1>k, RequestNow DEF InflightLock, Finding, feedRows, RequestRight, Stepping
<1>1. mutex \in Nat
  <2>1. locks[KeyOf(a)] \in Nat \cup {NoLock} BY <1>0 DEF FeedInv
  <2>2. CASE locks[KeyOf(a)] = NoLock BY <1>0, <1>b, <1>k, <1>l, <2>2, LockLeft
  <2>3. CASE locks[KeyOf(a)] # NoLock BY <1>k, <1>l, <2>1, <2>3
  <2> QED BY <2>2, <2>3
<1>2. mutex # NoLock BY <1>1, DiscoveryAssumption
<1>3. /\ locks' = [locks EXCEPT ![KeyOf(a)] = mutex]
      /\ seek' = [seek EXCEPT ![r].at = "wait", ![r].lock = mutex]
  BY <1>k, <1>l DEF InflightLock
<1>4. x = [q EXCEPT !.at = "wait", !.lock = mutex] /\ seek' = [seek EXCEPT ![r] = x] BY <1>0, <1>3, <1>b, <1>x
<1>5. x \in SeekRecord /\ x.at = "wait" /\ x.ask = a /\ x.lock = mutex BY <1>0, <1>1, <1>4 DEF SeekRecord, SeekSteps
<1>6. RequestRight(x) BY <1>0, <1>2, <1>5, Kinds DEF RequestRight, Stepping, FoundRight, Inside
<1>7. seek' \in [Seekers -> SeekRecord] /\ \A s \in Seekers \ {r} : seek'[s] = seek[s] BY <1>0, <1>4, <1>5
<1>8. \A s \in Seekers : Ask(s)' = Ask(s) BY <1>4, <1>5, <1>7, <1>x, <1>k DEF Ask
<1>9. SeekKeys' = SeekKeys BY <1>8, KeysSame DEF Ask
<1>10. locks' \in [SeekKeys' -> Nat \cup {NoLock}] BY <1>0, <1>1, <1>3, <1>9 DEF FeedInv
<1>11. \A q0 : RequestRight(q0)' <=> RequestRight(q0) BY <1>0 DEF RequestRight, FoundRight, Sound, Rows
<1>12. \A rows, n, U : Sound(rows, n, U)' <=> Sound(rows, n, U) BY <1>0 DEF Sound, Rows
<1>13. \A s \in Seekers : RequestRight(seek[s])'
  <2> SUFFICES ASSUME NEW s \in Seekers, NEW y, y = seek'[s] PROVE RequestRight(y)' OBVIOUS
  <2>1. RequestRight(y) BY <1>6, <1>7, <1>x DEF FeedInv
  <2> QED BY <1>11, <2>1
<1>14. PagesRight' /\ SuggestedRight'
  <2>1. PagesRight /\ SuggestedRight BY DEF FeedInv
  <2>2. PagesRight' BY <1>0, <1>8, <1>12, <2>1 DEF PagesRight
  <2>3. SuggestedRight' BY <1>0, <1>8, <1>12, <2>1 DEF SuggestedRight
  <2> QED BY <2>2, <2>3
<1>15. pages' \in [SeekKeys' -> [rows : Seq(FoundRows), total : Nat] \cup {NoPage}] BY <1>0, <1>9 DEF FeedInv
<1> QED BY <1>0, <1>7, <1>10, <1>13, <1>14, <1>15 DEF FeedInv

\* The requests stand still while the table moves on.
LEMMA TableStep ==
  ASSUME FeedInv, TableMoves, UNCHANGED <<seek, pages, suggested, locks>>
  PROVE  FeedInv'
<1>1. \A s \in Seekers : Ask(s)' = Ask(s) BY DEF Ask
<1>2. SeekKeys' = SeekKeys BY <1>1, KeysSame DEF Ask
<1>3. \A rows, n, U : Sound(rows, n, U) => Sound(rows, n, U)' BY SoundKept
<1>4. \A q : RequestRight(q) => RequestRight(q)' BY <1>3 DEF RequestRight, FoundRight
<1>5. \A s \in Seekers : RequestRight(seek[s])'
  <2> SUFFICES ASSUME NEW s \in Seekers, NEW y, y = seek'[s] PROVE RequestRight(y)' OBVIOUS
  <2>1. RequestRight(y) BY DEF FeedInv
  <2> QED BY <1>4, <2>1
<1>6. PagesRight' /\ SuggestedRight'
  <2>1. PagesRight /\ SuggestedRight BY DEF FeedInv
  <2>2. PagesRight' BY <1>1, <1>3, <2>1 DEF PagesRight
  <2>3. SuggestedRight' BY <1>1, <1>3, <2>1 DEF SuggestedRight
  <2> QED BY <2>2, <2>3
<1> QED BY <1>2, <1>5, <1>6 DEF FeedInv, TableMoves

LEMMA SameTable == ASSUME FeedInv, catalog' = catalog PROVE TableMoves
BY DEF FeedInv, TableMoves, Rows

\* A page is dropped, a lock or a suggestion runs out.
LEMMA FewerPages ==
  ASSUME FeedInv, UNCHANGED <<seek, catalog>>, suggested' \subseteq suggested,
         pages' \in [SeekKeys -> [rows : Seq(FoundRows), total : Nat] \cup {NoPage}],
         \A k \in SeekKeys : pages'[k] \in {NoPage, pages[k]},
         locks' \in [SeekKeys -> Nat \cup {NoLock}]
  PROVE  FeedInv'
<1>1. \A s \in Seekers : Ask(s)' = Ask(s) /\ KeyOf(Ask(s)) \in SeekKeys BY DEF Ask, SeekKeys
<1>2. SeekKeys' = SeekKeys BY KeysSame
<1>3. \A rows, n, U : Sound(rows, n, U) <=> Sound(rows, n, U)' BY DEF Sound, Rows
<1>4. \A q : RequestRight(q) => RequestRight(q)' BY <1>3 DEF RequestRight, FoundRight
<1>5. \A s \in Seekers : RequestRight(seek[s])'
  <2> SUFFICES ASSUME NEW s \in Seekers, NEW y, y = seek'[s] PROVE RequestRight(y)' OBVIOUS
  <2>1. RequestRight(y) BY DEF FeedInv
  <2> QED BY <1>4, <2>1
<1>6. PagesRight' /\ SuggestedRight'
  <2>1. PagesRight /\ SuggestedRight BY DEF FeedInv
  <2>2. PagesRight'
    <3> SUFFICES ASSUME NEW s \in Seekers, NEW b, b = Ask(s), b.kind \in Cached, pages'[KeyOf(b)] # NoPage
                 PROVE  Sound(pages'[KeyOf(b)].rows, LimitOf(b), {b.user})
      BY <1>1, <1>3 DEF PagesRight
    <3>1. KeyOf(b) \in SeekKeys BY <1>1
    <3>2. pages'[KeyOf(b)] = pages[KeyOf(b)] BY <3>1
    <3> QED BY <2>1, <3>2 DEF PagesRight
  <2>3. SuggestedRight' BY <1>1, <1>3, <2>1 DEF SuggestedRight
  <2> QED BY <2>2, <2>3
<1> QED BY <1>2, <1>5, <1>6 DEF FeedInv

LEMMA FeedDrop == ASSUME FeedInv, NEW keys, DropPages(keys) PROVE FeedInv'
<1>1. UNCHANGED <<seek, catalog, suggested, locks>> /\ pages' = [k \in DOMAIN pages |-> IF k \in keys THEN NoPage ELSE pages[k]]
  BY DEF DropPages, feedRows
<1>2. DOMAIN pages = SeekKeys /\ \A k \in SeekKeys : pages[k] \in [rows : Seq(FoundRows), total : Nat] \cup {NoPage}
  BY DEF FeedInv
<1>3. /\ pages' \in [SeekKeys -> [rows : Seq(FoundRows), total : Nat] \cup {NoPage}]
      /\ \A k \in SeekKeys : pages'[k] \in {NoPage, pages[k]}
  BY <1>1, <1>2
<1>4. locks' \in [SeekKeys -> Nat \cup {NoLock}] BY <1>1 DEF FeedInv
<1> QED BY <1>1, <1>3, <1>4, FewerPages

LEMMA FeedExpire == ASSUME FeedInv, NEW key, LockExpires(key) \/ SuggestionsExpire PROVE FeedInv'
<1>1. UNCHANGED <<seek, catalog, pages>> /\ suggested' \subseteq suggested
  BY DEF LockExpires, SuggestionsExpire, feedRows
<1>2. locks' \in [SeekKeys -> Nat \cup {NoLock}]
  <2>1. locks' = locks \/ locks' = [locks EXCEPT ![key] = NoLock] BY DEF LockExpires, SuggestionsExpire
  <2> QED BY <2>1 DEF FeedInv
<1>3. /\ pages' \in [SeekKeys -> [rows : Seq(FoundRows), total : Nat] \cup {NoPage}]
      /\ \A k \in SeekKeys : pages'[k] \in {NoPage, pages[k]}
  BY <1>1 DEF FeedInv
<1> QED BY <1>1, <1>2, <1>3, FewerPages

\* One row of the table changes, but not its owner; or is new; or goes.
LEMMA ChangeMoves ==
  ASSUME FeedInv, NEW v \in VideoIds, NEW row \in CatalogRows \cup {Gone}, catalog' = [catalog EXCEPT ![v] = row],
         row \in CatalogRows => catalog[v] = NoRow \/ (v \in Rows /\ row.owner = catalog[v].owner)
  PROVE  TableMoves
<1>1. catalog \in [VideoIds -> CatalogRows \cup {NoRow, Gone}] BY DEF FeedInv
<1>2. row # NoRow /\ (row \in CatalogRows => row # Gone) BY DiscoveryAssumption
<1>3. catalog' \in [VideoIds -> CatalogRows \cup {NoRow, Gone}] /\ catalog'[v] = row
      /\ \A w \in VideoIds \ {v} : catalog'[w] = catalog[w]
  BY <1>1
<1>4. ASSUME NEW w \in VideoIds, catalog[w] # NoRow
      PROVE  catalog'[w] # NoRow /\ (w \in Rows' => w \in Rows /\ catalog'[w].owner = catalog[w].owner)
  <2>1. CASE w = v
    <3>1. w \in Rows' => row \in CatalogRows BY <1>3, <2>1 DEF Rows
    <3> QED BY <1>2, <1>3, <1>4, <2>1, <3>1
  <2>2. CASE w # v
    <3>1. catalog'[w] = catalog[w] BY <1>3, <2>2
    <3> QED BY <1>4, <3>1 DEF Rows
  <2> QED BY <2>1, <2>2
<1> QED BY <1>3, <1>4 DEF TableMoves

LEMMA RowIs ==
  ASSUME FeedInv, NEW v \in Rows
  PROVE  v \in VideoIds /\ catalog[v] \in CatalogRows /\ catalog[v].views \in Nat /\ catalog[v].old \in BOOLEAN
BY DEF FeedInv, Rows, CatalogRows

LEMMA FeedEdits ==
  ASSUME FeedInv, NEW v \in VideoIds,
         View(v) \/ Upload(v) \/ Delete(v) \/ GrowOld(v) \/ \E c \in Categories : Recategorize(v, c)
  PROVE  FeedInv'
<1>0. UNCHANGED <<seek, pages, suggested, locks>>
  BY DEF View, Upload, Delete, GrowOld, Recategorize, Meanwhile
<1>1. CASE View(v)
  <2>1. PICK row : row = [catalog[v] EXCEPT !.views = @ + 1, !.score = Score(catalog[v].views + 1, catalog[v].old)] OBVIOUS
  <2>2. v \in Rows /\ catalog' = [catalog EXCEPT ![v] = row] BY <1>1, <2>1 DEF View, Change
  <2>3. catalog[v] \in CatalogRows /\ catalog[v].views + 1 \in Nat /\ Score(catalog[v].views + 1, catalog[v].old) \in Nat
    BY <2>2, RowIs, ScoreTyped
  <2>4. row \in CatalogRows /\ row.owner = catalog[v].owner BY <2>1, <2>3 DEF CatalogRows
  <2> QED BY <1>0, <2>2, <2>4, ChangeMoves, TableStep
<1>2. CASE Upload(v)
  <2>1. catalog[v] = NoRow /\ catalog' = [catalog EXCEPT ![v] = Uploaded] /\ Uploaded \in CatalogRows
    BY <1>2, DiscoveryAssumption DEF Upload, Change
  <2> QED BY <1>0, <2>1, ChangeMoves, TableStep
<1>3. CASE Delete(v)
  <2>1. catalog' = [catalog EXCEPT ![v] = Gone] /\ Gone \notin CatalogRows BY <1>3, DiscoveryAssumption DEF Delete, Change
  <2> QED BY <1>0, <2>1, ChangeMoves, TableStep
<1>4. CASE GrowOld(v)
  <2>1. PICK row : row = [catalog[v] EXCEPT !.old = TRUE] OBVIOUS
  <2>2. v \in Rows /\ catalog' = [catalog EXCEPT ![v] = row] BY <1>4, <2>1 DEF GrowOld, Change
  <2>3. catalog[v] \in CatalogRows BY <2>2, RowIs
  <2>4. row \in CatalogRows /\ row.owner = catalog[v].owner BY <2>1, <2>3 DEF CatalogRows
  <2> QED BY <1>0, <2>2, <2>4, ChangeMoves, TableStep
<1>5. ASSUME NEW c \in Categories, Recategorize(v, c) PROVE FeedInv'
  <2>1. PICK row : row = [catalog[v] EXCEPT !.category = c] OBVIOUS
  <2>2. v \in Rows /\ catalog' = [catalog EXCEPT ![v] = row] BY <1>5, <2>1 DEF Recategorize, Change
  <2>3. catalog[v] \in CatalogRows BY <2>2, RowIs
  <2>4. row \in CatalogRows /\ row.owner = catalog[v].owner BY <2>1, <2>3 DEF CatalogRows
  <2> QED BY <1>0, <2>2, <2>4, ChangeMoves, TableStep
<1> QED BY <1>1, <1>2, <1>3, <1>4, <1>5

LEMMA FeedBatch == ASSUME FeedInv, RecomputeBatch PROVE FeedInv'
<1> DEFINE Rescored(v) == [catalog[v] EXCEPT !.score = Score(catalog[v].views, catalog[v].old)]
<1>0. UNCHANGED <<seek, pages, suggested, locks>> /\ NextBatch \subseteq Rows
      /\ catalog' = [v \in VideoIds |-> IF v \in NextBatch THEN Rescored(v) ELSE catalog[v]]
  BY DEF RecomputeBatch, NextBatch
<1>1. \A v \in Rows : Rescored(v) \in CatalogRows /\ Rescored(v).owner = catalog[v].owner
  <2> SUFFICES ASSUME NEW v \in Rows PROVE Rescored(v) \in CatalogRows /\ Rescored(v).owner = catalog[v].owner OBVIOUS
  <2>1. catalog[v] \in CatalogRows /\ Score(catalog[v].views, catalog[v].old) \in Nat BY RowIs, ScoreTyped
  <2> QED BY <2>1 DEF CatalogRows
<1> HIDE DEF Rescored
<1>2. catalog \in [VideoIds -> CatalogRows \cup {NoRow, Gone}] /\ Rows \subseteq VideoIds BY DEF FeedInv, Rows
<1>3. catalog' \in [VideoIds -> CatalogRows \cup {NoRow, Gone}] BY <1>0, <1>1, <1>2
<1>4. CatalogRows \cap {NoRow, Gone} = {} BY DiscoveryAssumption
<1>5. ASSUME NEW v \in VideoIds, catalog[v] # NoRow
      PROVE  catalog'[v] # NoRow /\ (v \in Rows' => v \in Rows /\ catalog'[v].owner = catalog[v].owner)
  <2>1. CASE v \in NextBatch
    <3>1. catalog'[v] = Rescored(v) /\ v \in Rows BY <1>0, <2>1
    <3> QED BY <1>1, <1>4, <3>1
  <2>2. CASE v \notin NextBatch
    <3>1. catalog'[v] = catalog[v] BY <1>0, <2>2
    <3> QED BY <1>5, <3>1 DEF Rows
  <2> QED BY <2>1, <2>2
<1>6. TableMoves BY <1>3, <1>5 DEF TableMoves
<1> QED BY <1>0, <1>6, TableStep

LEMMA FeedInit == DiscoveryInit => FeedInv
<1> SUFFICES ASSUME DiscoveryInit PROVE FeedInv OBVIOUS
<1>1. PICK asks \in Searches :
        seek = [r \in Seekers |-> [at |-> FirstStep(asks[r]), ask |-> asks[r], rows |-> <<>>, cats |-> {},
                                   total |-> 0, lock |-> NoLock]]
  BY DEF DiscoveryInit
<1>2. asks \in [Seekers -> AskSet] BY DiscoveryAssumption
<1>3. ASSUME NEW r \in Seekers, NEW a, a = asks[r], NEW q, q = seek[r] PROVE RequestRight(q)
  <2>1. a \in AskSet BY <1>2, <1>3
  <2>2. q = [at |-> FirstStep(a), ask |-> a, rows |-> <<>>, cats |-> {}, total |-> 0, lock |-> NoLock] BY <1>1, <1>3
  <2>3. PICK at : at = FirstStep(a) OBVIOUS
  <2>4. /\ a.kind \in Cached => at = "lookup"
        /\ a.kind = "foryou" => at = "categories"
        /\ a.kind \notin Cached \cup {"foryou"} => at = a.kind
    BY <2>3 DEF FirstStep, Cached, Paged
  <2>5. a.kind \in {"trending", "recent", "similar", "foryou", "search", "suggest"}
        /\ (a.kind \in Cached <=> a.kind \in {"trending", "recent", "similar"})
    BY <2>1, Kinds
  <2>6. at \in {"lookup", "categories", "search", "suggest"} /\ at \in SeekSteps BY <2>4, <2>5 DEF SeekSteps
  <2>7. q.at = at /\ q.ask = a /\ q.rows = <<>> /\ q.cats = {} /\ q.total = 0 /\ q.lock = NoLock BY <2>2, <2>3
  <2>8. q \in SeekRecord
    <3>1. <<>> \in Seq(FoundRows) OBVIOUS
    <3> QED BY <2>1, <2>2, <2>3, <2>6, <3>1 DEF SeekRecord
  <2>9. Stepping(q) BY <2>4, <2>5, <2>6, <2>7 DEF Stepping, Inside
  <2>10. FoundRight(q) BY <2>6, <2>7 DEF FoundRight
  <2> QED BY <2>8, <2>9, <2>10 DEF RequestRight
<1>4. seek \in [Seekers -> SeekRecord] /\ \A r \in Seekers : RequestRight(seek[r])
  <2>1. \A r \in Seekers : RequestRight(seek[r]) BY <1>3
  <2>2. \A r \in Seekers : seek[r] \in SeekRecord BY <2>1 DEF RequestRight
  <2>3. seek = [r \in Seekers |-> seek[r]] BY <1>1
  <2> QED BY <2>1, <2>2, <2>3
<1>5. pages = [k \in SeekKeys |-> NoPage] /\ locks = [k \in SeekKeys |-> NoLock] /\ suggested = {}
  BY DEF DiscoveryInit, SeekKeys
<1>6. PagesRight /\ SuggestedRight
  <2>1. \A r \in Seekers : KeyOf(Ask(r)) \in SeekKeys BY DEF SeekKeys
  <2> QED BY <1>5, <2>1 DEF PagesRight, SuggestedRight
<1>7. catalog \in [VideoIds -> CatalogRows \cup {NoRow, Gone}] BY DiscoveryAssumption DEF DiscoveryInit
<1> QED BY <1>4, <1>5, <1>6, <1>7 DEF FeedInv

LEMMA FeedStep == FeedInv /\ [DiscoveryNext]_discoveryVars => FeedInv'
<1> SUFFICES ASSUME FeedInv, [DiscoveryNext]_discoveryVars PROVE FeedInv' OBVIOUS
<1>1. ASSUME NEW r \in Seekers, Answering(r) PROVE FeedInv'
  BY <1>1, FeedLookup, FeedLock, FeedAcquire, FeedAgain, FeedCount, FeedCategory, FeedPages, FeedInsert, FeedCategories,
     FeedPreferred, FeedFill, FeedProbe, FeedSearch, FeedSuggest, FeedRemember, FeedGiveUp DEF Answering
<1>2. ASSUME NEW r \in Seekers, NEW v \in VideoIds, Watch(Ask(r).user, v) PROVE FeedInv'
  BY <1>2, SameTable, TableStep DEF Watch, Meanwhile
<1>3. ASSUME NEW keys, DropPages(keys) PROVE FeedInv' BY <1>3, FeedDrop
<1>4. ASSUME NEW key, LockExpires(key) PROVE FeedInv' BY <1>4, FeedExpire
<1>5. CASE SuggestionsExpire BY <1>5, FeedExpire
<1>6. CASE EndRound BY <1>6, SameTable, TableStep DEF EndRound, feedRows
<1>7. CASE UNCHANGED discoveryVars BY <1>7, SameTable, TableStep DEF discoveryVars, feedRows
<1> QED BY <1>1, <1>2, <1>3, <1>4, <1>5, <1>6, <1>7, FeedEdits, FeedBatch DEF DiscoveryNext

LEMMA FeedIsRight == FeedInv => FeedRight
<1> SUFFICES ASSUME FeedInv, NEW r \in Seekers, Finding(r, "found"), NEW rows, rows = seek[r].rows
             PROVE  /\ Len(rows) <= IF Ask(r).kind \in Paged \cup {"foryou", "similar"} THEN LimitOf(Ask(r)) ELSE MaxSize
                    /\ \A i, j \in DOMAIN rows : i < j =>
                         /\ rows[i].id # rows[j].id
                         /\ Ask(r).kind = "foryou" => FeedScore(r, rows[i]) >= FeedScore(r, rows[j])
                    /\ \A v \in Of(rows) \cap Rows : Ask(r).admin \/ catalog[v].owner = Ask(r).user
  BY DEF FeedRight
<1>k. PICK a : a = Ask(r) OBVIOUS
<1>q. PICK q : q = seek[r] OBVIOUS
<1>0. RequestRight(q) /\ q.at = "found" /\ q.ask = a /\ a \in AskSet /\ q.rows = rows
  BY <1>k, <1>q, RequestNow DEF Finding
<1>1. a.kind \in {"trending", "recent", "similar", "foryou", "search", "suggest"}
      /\ (a.kind \in Cached <=> a.kind \in {"trending", "recent", "similar"}) /\ a.admin \in BOOLEAN
  BY <1>0, Kinds
<1>2. CASE a.kind \in Cached \cup {"foryou"}
  <2>1. Sound(rows, LimitOf(a), {a.user}) BY <1>0, <1>2 DEF RequestRight, FoundRight
  <2>2. a.kind \in Paged \cup {"foryou", "similar"} BY <1>2 DEF Cached
  <2>3. \A v \in Of(rows) \cap Rows : catalog[v].owner = a.user BY <2>1 DEF Sound
  <2>4. ASSUME a.kind = "foryou", NEW i \in DOMAIN rows, NEW j \in DOMAIN rows, i < j
        PROVE  FeedScore(r, rows[i]) >= FeedScore(r, rows[j])
    <3>1. rows[j].category \in q.cats => rows[i].category \in q.cats
      BY <1>0, <2>4 DEF RequestRight, FoundRight, Ranked
    <3> QED BY <1>q, <3>1 DEF FeedScore
  <2> QED BY <1>k, <2>1, <2>2, <2>3, <2>4 DEF Sound
<1>3. CASE a.kind \in {"search", "suggest"}
  <2>1. Sound(rows, MaxSize, Audience(a)) BY <1>0, <1>3 DEF RequestRight, FoundRight
  <2>2. a.kind \notin Paged \cup {"foryou", "similar"} /\ a.kind # "foryou" BY <1>3 DEF Paged
  <2>3. \A v \in Of(rows) \cap Rows : a.admin \/ catalog[v].owner = a.user BY <2>1 DEF Sound, Audience
  <2> QED BY <1>k, <2>1, <2>2, <2>3 DEF Sound
<1> QED BY <1>1, <1>2, <1>3

\* A feed or a search shows no more rows than its page holds, no video twice, no video
\* of somebody else but to an administrator's search, and the preferred categories first
\* (handlers/recommendations.rs, services/recommendation_service.rs, handlers/videos.rs
\* search_videos, search_suggest).
THEOREM FeedsAreRight == DiscoverySpec => []FeedRight
BY FeedInit, FeedStep, FeedIsRight, PTL DEF DiscoverySpec

-----------------------------------------------------------------------------
(***************************************************************************)
(* The loads of one page, which one request makes for all.                 *)
(***************************************************************************)
\* Who is under the lock of a key, and who loads its page there.
UnderLock(q) == q.at \in Inside /\ q.ask.kind \in Cached
Loading(q, k, l) ==
  /\ q.at \in Inside \ {"again"} /\ q.ask.kind \in Cached
  /\ KeyOf(q.ask) = k /\ q.lock = l /\ l # NoLock

\* One request at a time is under a lock; and what was loaded under the lock of its
\* key is in the cache, or on the way there under that lock.
LoadsInv ==
  /\ loads \in [SeekKeys -> {0, 1}]
  /\ \A r, s \in Seekers : r # s /\ UnderLock(seek[r]) /\ UnderLock(seek[s]) => seek[r].lock # seek[s].lock
  /\ \A k \in SeekKeys : loads[k] = 1 => pages[k] # NoPage \/ \E s \in Seekers : Loading(seek[s], k, locks[k])

\* A request goes on under its lock, or enters one that is free.
LEMMA LoadsGo ==
  ASSUME FeedInv, LoadsInv, NEW r \in Seekers, NEW q, q = seek[r], NEW x, x.ask = q.ask, seek' = [seek EXCEPT ![r] = x],
         locks' = locks, loads' \in [SeekKeys -> {0, 1}],
         UnderLock(x) => \A s \in Seekers \ {r} : UnderLock(seek[s]) => seek[s].lock # x.lock,
         \A k \in SeekKeys : pages[k] # NoPage => pages'[k] # NoPage,
         \A k \in SeekKeys : loads'[k] = 1 =>
           \/ pages'[k] # NoPage \/ Loading(x, k, locks[k])
           \/ loads[k] = 1 /\ (Loading(q, k, locks[k]) => Loading(x, k, locks[k]))
  PROVE  LoadsInv'
<1>0. seek \in [Seekers -> SeekRecord] BY DEF FeedInv
<1>1. seek'[r] = x /\ \A s \in Seekers \ {r} : seek'[s] = seek[s] BY <1>0
<1>2. \A s \in Seekers : seek'[s].ask = seek[s].ask BY <1>1
<1>3. SeekKeys' = SeekKeys BY <1>2, KeysSame
<1>4. ASSUME NEW s \in Seekers, NEW t \in Seekers, s # t, UnderLock(seek'[s]), UnderLock(seek'[t])
      PROVE  seek'[s].lock # seek'[t].lock
  <2>1. CASE s = r
    <3>1. t # r /\ seek'[t] = seek[t] /\ seek'[s] = x BY <1>1, <1>4, <2>1
    <3> QED BY <1>4, <3>1
  <2>2. CASE t = r
    <3>1. s # r /\ seek'[s] = seek[s] /\ seek'[t] = x BY <1>1, <1>4, <2>2
    <3> QED BY <1>4, <3>1
  <2>3. CASE s # r /\ t # r
    <3>1. seek'[s] = seek[s] /\ seek'[t] = seek[t] BY <1>1, <2>3
    <3> QED BY <1>4, <3>1 DEF LoadsInv
  <2> QED BY <2>1, <2>2, <2>3
<1>5. ASSUME NEW k \in SeekKeys, loads'[k] = 1
      PROVE  pages'[k] # NoPage \/ \E s \in Seekers : Loading(seek'[s], k, locks'[k])
  <2>1. CASE pages'[k] # NoPage BY <2>1
  <2>2. CASE Loading(x, k, locks[k]) BY <1>1, <2>2
  <2>3. CASE loads[k] = 1 /\ (Loading(q, k, locks[k]) => Loading(x, k, locks[k])) /\ pages'[k] = NoPage
    <3>1. PICK s \in Seekers : Loading(seek[s], k, locks[k]) BY <2>3 DEF LoadsInv
    <3>2. CASE s = r BY <1>1, <2>3, <3>1, <3>2
    <3>3. CASE s # r
      <4>1. seek'[s] = seek[s] BY <1>1, <3>3
      <4> QED BY <3>1, <4>1
    <3> QED BY <3>2, <3>3
  <2> QED BY <1>5, <2>1, <2>2, <2>3
<1>6. \A q0 : UnderLock(q0)' <=> UnderLock(q0) BY DEF UnderLock
<1>7. \A s, t \in Seekers : s # t /\ UnderLock(seek'[s]) /\ UnderLock(seek'[t]) => seek'[s].lock # seek'[t].lock BY <1>4
<1> QED BY <1>3, <1>5, <1>7 DEF LoadsInv, UnderLock, Loading

\* Most steps load nothing, and leave the lock only with the page.
LEMMA LoadsKept ==
  ASSUME FeedInv, LoadsInv, NEW r \in Seekers, NEW q, q = seek[r], NEW x, x.ask = q.ask, seek' = [seek EXCEPT ![r] = x],
         locks' = locks, loads' = loads,
         UnderLock(x) => UnderLock(q) /\ x.lock = q.lock,
         \A k \in SeekKeys : pages[k] # NoPage => pages'[k] # NoPage,
         \A k \in SeekKeys : Loading(q, k, locks[k]) => Loading(x, k, locks[k]) \/ pages'[k] # NoPage
  PROVE  LoadsInv'
<1>1. loads' \in [SeekKeys -> {0, 1}] BY DEF LoadsInv
<1>2. UnderLock(x) => \A s \in Seekers \ {r} : UnderLock(seek[s]) => seek[s].lock # x.lock BY DEF LoadsInv
<1>3. \A k \in SeekKeys : loads'[k] = 1 =>
        \/ pages'[k] # NoPage \/ Loading(x, k, locks[k])
        \/ loads[k] = 1 /\ (Loading(q, k, locks[k]) => Loading(x, k, locks[k]))
  OBVIOUS
<1> QED BY <1>1, <1>2, <1>3, LoadsGo

\* A load that fails is forgotten.
LEMMA LoadsFail ==
  ASSUME FeedInv, LoadsInv, NEW r \in Seekers, NEW x, seek' = [seek EXCEPT ![r] = x], x.ask = seek[r].ask, x.at = "failed",
         locks' = locks, pages' = pages, loads' = [loads EXCEPT ![KeyOf(Ask(r))] = 0]
  PROVE  LoadsInv'
<1>q. PICK q : q = seek[r] OBVIOUS
<1>0. loads \in [SeekKeys -> {0, 1}] BY DEF LoadsInv
<1>1. loads' \in [SeekKeys -> {0, 1}] /\ \A k \in SeekKeys : loads'[k] = IF k = KeyOf(Ask(r)) THEN 0 ELSE loads[k] BY <1>0
<1>2. ~UnderLock(x) BY DEF UnderLock, Inside
<1>3. ASSUME NEW k \in SeekKeys, loads'[k] = 1 PROVE loads[k] = 1 /\ ~Loading(q, k, locks[k])
  <2>1. k # KeyOf(q.ask) BY <1>1, <1>3, <1>q DEF Ask
  <2> QED BY <1>1, <1>3, <2>1 DEF Loading
<1> QED BY <1>1, <1>2, <1>3, <1>q, LoadsGo

LEMMA Unmoved ==
  ASSUME FeedInv, LoadsInv, UNCHANGED <<seek, pages, locks, loads>>
  PROVE  LoadsInv'
<1>1. SeekKeys' = SeekKeys BY KeysSame
<1> QED BY <1>1 DEF LoadsInv, UnderLock, Loading

LEMMA LoadsLookup == ASSUME FeedInv, LoadsInv, NEW r \in Seekers, Lookup(r) PROVE LoadsInv'
<1>b. PICK q : q = seek[r] OBVIOUS
<1>x. PICK x : x = seek'[r] OBVIOUS
<1>0. q.at = "lookup" /\ UNCHANGED <<pages, locks, loads>> /\ q.ask = Ask(r) BY <1>b, RequestNow DEF Lookup, Finding
<1>1. x.at \notin Inside /\ x.ask = q.ask /\ seek' = [seek EXCEPT ![r] = x]
  <2>1. CASE Go(r, "lock") BY <1>0, <1>x, <2>1, GoIs DEF SeekSteps, Inside
  <2>2. CASE pages[KeyOf(Ask(r))] # NoPage /\ GoWith(r, "found", pages[KeyOf(Ask(r))].rows)
    <3>1. PICK rows : rows = pages[KeyOf(Ask(r))].rows OBVIOUS
    <3>2. rows \in Seq(FoundRows)
      <4>1. Ask(r).kind \in Cached BY <1>0, <1>b, RequestNow DEF RequestRight, Stepping
      <4> QED BY <2>2, <3>1, <4>1, PageNow
    <3> QED BY <1>0, <1>x, <2>2, <3>1, <3>2, GoWithIs DEF SeekSteps, Inside
  <2> QED BY <2>1, <2>2 DEF Lookup
<1>2. ~UnderLock(x) /\ \A k \in SeekKeys : ~Loading(q, k, locks[k]) BY <1>0, <1>1 DEF UnderLock, Loading, Inside
<1> QED BY <1>0, <1>1, <1>2, <1>b, LoadsKept

LEMMA LoadsAcquire == ASSUME FeedInv, LoadsInv, NEW r \in Seekers, AcquireLock(r) PROVE LoadsInv'
<1>b. PICK q : q = seek[r] OBVIOUS
<1>x. PICK x : x = seek'[r] OBVIOUS
<1>0. q.at = "wait" /\ UNCHANGED <<pages, locks, loads>> /\ q.ask = Ask(r) /\ KeyFree(r) /\ Go(r, "again")
  BY <1>b, RequestNow DEF AcquireLock, Finding
<1>1. x.at = "again" /\ x.ask = q.ask /\ x.lock = q.lock /\ seek' = [seek EXCEPT ![r] = x]
  BY <1>0, <1>b, <1>x, GoIs DEF SeekSteps
<1>2. \A s \in Seekers \ {r} : UnderLock(seek[s]) => seek[s].lock # x.lock BY <1>0, <1>1, <1>b DEF KeyFree, UnderLock
<1>3. \A k \in SeekKeys : ~Loading(q, k, locks[k]) BY <1>0 DEF Loading, Inside
<1>4. loads' \in [SeekKeys -> {0, 1}] BY <1>0 DEF LoadsInv
<1> QED BY <1>0, <1>1, <1>2, <1>3, <1>4, <1>b, LoadsGo

\* Who looks again and finds nothing loads, if nobody else did under this lock.
LEMMA LoadsAgain == ASSUME FeedInv, LoadsInv, NEW r \in Seekers, LookupAgain(r) PROVE LoadsInv'
<1>b. PICK q : q = seek[r] OBVIOUS
<1>x. PICK x : x = seek'[r] OBVIOUS
<1>c. PICK c : c = KeyOf(Ask(r)) OBVIOUS
<1>0. /\ q.at = "again" /\ UNCHANGED <<pages, locks>> /\ q.ask = Ask(r) /\ q.ask.kind \in Cached /\ q.lock # NoLock
      /\ c \in SeekKeys /\ KeyOf(q.ask) = c /\ UnderLock(q)
  BY <1>b, <1>c, RequestNow DEF LookupAgain, Finding, RequestRight, Stepping, Inside, UnderLock
<1>1. \A k \in SeekKeys : ~Loading(q, k, locks[k]) BY <1>0 DEF Loading
<1>2. CASE pages[c] # NoPage
  <2>1. GoWith(r, "found", pages[c].rows) /\ loads' = loads BY <1>2, <1>c DEF LookupAgain, CachedNow
  <2>2. PICK rows : rows = pages[c].rows OBVIOUS
  <2>3. rows \in Seq(FoundRows) BY <1>0, <1>2, <1>c, <2>2, PageNow
  <2>4. x.at = "found" /\ x.ask = q.ask /\ seek' = [seek EXCEPT ![r] = x]
    BY <1>0, <1>x, <2>1, <2>2, <2>3, GoWithIs DEF SeekSteps
  <2>5. ~UnderLock(x) BY <2>4 DEF UnderLock, Inside
  <2> QED BY <1>0, <1>1, <1>b, <2>1, <2>4, <2>5, LoadsKept
<1>3. CASE pages[c] = NoPage
  <2>0. PICK at : at = IF Ask(r).kind = "similar" THEN "category" ELSE "count" OBVIOUS
  <2>1. /\ Go(r, at)
        /\ loads' = IF locks[c] = q.lock THEN [loads EXCEPT ![c] = @ + 1] ELSE loads
    BY <1>3, <1>b, <1>c, <2>0 DEF LookupAgain, CachedNow
  <2>2. at \in SeekSteps /\ at \in Inside \ {"again"} BY <2>0 DEF SeekSteps, Inside
  <2>3. x.at = at /\ x.ask = q.ask /\ x.lock = q.lock /\ seek' = [seek EXCEPT ![r] = x]
    BY <1>0, <1>b, <1>x, <2>1, <2>2, GoIs
  <2>4. \A s \in Seekers \ {r} : UnderLock(seek[s]) => seek[s].lock # x.lock BY <1>0, <1>b, <2>3 DEF LoadsInv
  <2>5. CASE locks[c] # q.lock
    <3>1. loads' = loads /\ loads \in [SeekKeys -> {0, 1}] BY <2>1, <2>5 DEF LoadsInv
    <3> QED BY <1>0, <1>1, <1>b, <2>3, <2>4, <3>1, LoadsGo
  <2>6. CASE locks[c] = q.lock
    <3>1. loads \in [SeekKeys -> {0, 1}] BY DEF LoadsInv
    <3>2. loads[c] = 0
      <4>1. ASSUME loads[c] = 1 PROVE FALSE
        <5>1. PICK s \in Seekers : Loading(seek[s], c, locks[c]) BY <1>0, <1>3, <4>1 DEF LoadsInv
        <5>2. s # r /\ UnderLock(seek[s]) /\ seek[s].lock = q.lock BY <1>0, <1>1, <1>b, <2>6, <5>1 DEF Loading, UnderLock
        <5> QED BY <1>0, <1>b, <5>2 DEF LoadsInv
      <4> QED BY <1>0, <3>1, <4>1
    <3>3. loads' = [loads EXCEPT ![c] = 1] BY <1>0, <2>1, <2>6, <3>1, <3>2
    <3>4. loads' \in [SeekKeys -> {0, 1}] /\ \A k \in SeekKeys \ {c} : loads'[k] = loads[k] BY <3>1, <3>3
    <3>5. Loading(x, c, locks[c]) BY <1>0, <2>2, <2>3, <2>6 DEF Loading
    <3>6. \A k \in SeekKeys : loads'[k] = 1 => Loading(x, k, locks[k]) \/ loads[k] = 1 BY <3>4, <3>5
    <3> QED BY <1>0, <1>1, <1>b, <2>3, <2>4, <3>4, <3>6, LoadsGo
  <2> QED BY <2>5, <2>6
<1> QED BY <1>2, <1>3

LEMMA LoadsCount == ASSUME FeedInv, LoadsInv, NEW r \in Seekers, CountVideos(r) PROVE LoadsInv'
<1>b. PICK q : q = seek[r] OBVIOUS
<1>x. PICK x : x = seek'[r] OBVIOUS
<1>n. PICK n : n = IF Ask(r).kind = "recent" THEN RecentCount(Ask(r).user) ELSE TrendingCount(Ask(r).user) OBVIOUS
<1>0. q \in SeekRecord /\ seek \in [Seekers -> SeekRecord] /\ q.at = "count" /\ UNCHANGED <<pages, locks, loads>>
  BY <1>b, RequestNow DEF CountVideos, Finding
<1>1. x = [q EXCEPT !.at = "page", !.total = n] /\ seek' = [seek EXCEPT ![r] = x]
  BY <1>0, <1>b, <1>n, <1>x DEF CountVideos
<1>2. x.at = "page" /\ x.ask = q.ask /\ x.lock = q.lock BY <1>0, <1>1 DEF SeekRecord
<1>3. UnderLock(x) => UnderLock(q) BY <1>0, <1>2 DEF UnderLock, Inside
<1>4. \A k \in SeekKeys : Loading(q, k, locks[k]) => Loading(x, k, locks[k]) BY <1>2 DEF Loading, Inside
<1> QED BY <1>0, <1>1, <1>2, <1>3, <1>4, <1>b, LoadsKept

LEMMA LoadsCategory == ASSUME FeedInv, LoadsInv, NEW r \in Seekers, VideoCategory(r) PROVE LoadsInv'
<1>b. PICK q : q = seek[r] OBVIOUS
<1>x. PICK x : x = seek'[r] OBVIOUS
<1>0. q \in SeekRecord /\ seek \in [Seekers -> SeekRecord] /\ q.at = "category" /\ UNCHANGED <<pages, locks>>
      /\ q.ask = Ask(r)
  BY <1>b, RequestNow DEF VideoCategory, Finding
<1>1. CASE Ask(r).video \notin Rows
  <2>1. Go(r, "failed") /\ loads' = [loads EXCEPT ![KeyOf(Ask(r))] = 0] BY <1>1 DEF VideoCategory
  <2>2. x.at = "failed" /\ x.ask = seek[r].ask /\ seek' = [seek EXCEPT ![r] = x]
    BY <1>0, <1>b, <1>x, <2>1, GoIs DEF SeekSteps
  <2> QED BY <1>0, <2>1, <2>2, LoadsFail
<1>2. CASE Ask(r).video \in Rows
  <2>0. PICK cats : cats = {catalog[Ask(r).video].category} OBVIOUS
  <2>1. x = [q EXCEPT !.at = "page", !.cats = cats] /\ seek' = [seek EXCEPT ![r] = x] /\ loads' = loads
    BY <1>0, <1>2, <1>b, <1>x, <2>0 DEF VideoCategory
  <2>2. x.at = "page" /\ x.ask = q.ask /\ x.lock = q.lock BY <1>0, <2>1 DEF SeekRecord
  <2>3. UnderLock(x) => UnderLock(q) BY <1>0, <2>2 DEF UnderLock, Inside
  <2>4. \A k \in SeekKeys : Loading(q, k, locks[k]) => Loading(x, k, locks[k]) BY <2>2 DEF Loading, Inside
  <2> QED BY <1>0, <1>b, <2>1, <2>2, <2>3, <2>4, LoadsKept
<1> QED BY <1>1, <1>2

LEMMA LoadsPage ==
  ASSUME FeedInv, LoadsInv, NEW r \in Seekers, NEW orders, NEW offset, NEW then,
         <<then, Ask(r).kind>> \in ({"insert"} \X Cached) \cup {<<"found", "foryou">>},
         Page(r, orders, offset, then)
  PROVE  LoadsInv'
<1>b. PICK q : q = seek[r] OBVIOUS
<1>x. PICK x : x = seek'[r] OBVIOUS
<1>0. /\ q \in SeekRecord /\ seek \in [Seekers -> SeekRecord] /\ q.at = "page" /\ UNCHANGED <<pages, locks, loads>>
      /\ q.ask = Ask(r)
  BY <1>b, RequestNow DEF Page, Finding
<1>1. PICK s \in orders : GoWith(r, then, PageOf(s, offset, LimitOf(Ask(r)))) BY DEF Page
<1>2. PICK rows : rows = PageOf(s, offset, LimitOf(Ask(r))) OBVIOUS
<1>3. x = [q EXCEPT !.at = then, !.rows = rows] /\ seek' = [seek EXCEPT ![r] = x]
  BY <1>0, <1>1, <1>2, <1>b, <1>x DEF GoWith
<1>4. x.at = then /\ x.ask = q.ask /\ x.lock = q.lock BY <1>0, <1>3 DEF SeekRecord
<1>5. then = "insert" \/ Ask(r).kind \notin Cached BY DEF Cached, Paged
<1>6. UnderLock(x) => UnderLock(q) BY <1>0, <1>4, <1>5 DEF UnderLock, Inside
<1>7. \A k \in SeekKeys : Loading(q, k, locks[k]) => Loading(x, k, locks[k]) BY <1>0, <1>4, <1>5 DEF Loading, Inside
<1> QED BY <1>0, <1>3, <1>4, <1>6, <1>7, <1>b, LoadsKept

LEMMA LoadsPages ==
  ASSUME FeedInv, LoadsInv, NEW r \in Seekers, TrendingPage(r) \/ RecentPage(r) \/ SimilarPage(r) PROVE LoadsInv'
<1>1. PICK then, orders, offset : /\ <<then, Ask(r).kind>> \in ({"insert"} \X Cached) \cup {<<"found", "foryou">>}
                                  /\ Page(r, orders, offset, then)
  BY DEF TrendingPage, RecentPage, SimilarPage, Cached, Paged
<1> QED BY <1>1, LoadsPage

LEMMA LoadsInsert == ASSUME FeedInv, LoadsInv, NEW r \in Seekers, InsertPage(r) PROVE LoadsInv'
<1>b. PICK q : q = seek[r] OBVIOUS
<1>x. PICK x : x = seek'[r] OBVIOUS
<1>c. PICK c : c = KeyOf(Ask(r)) OBVIOUS
<1>0. /\ q \in SeekRecord /\ q.at = "insert" /\ UNCHANGED <<locks, loads>> /\ q.ask = Ask(r) /\ c \in SeekKeys
      /\ KeyOf(q.ask) = c /\ pages' = [pages EXCEPT ![c] = [rows |-> q.rows, total |-> q.total]] /\ Go(r, "found")
  BY <1>b, <1>c, RequestNow DEF InsertPage, Finding
<1>1. x.at = "found" /\ x.ask = q.ask /\ seek' = [seek EXCEPT ![r] = x] BY <1>0, <1>x, GoIs DEF SeekSteps
<1>2. ~UnderLock(x) BY <1>1 DEF UnderLock, Inside
<1>3. pages'[c] # NoPage /\ \A k \in SeekKeys \ {c} : pages'[k] = pages[k]
  <2>1. PICK page : page = [rows |-> q.rows, total |-> q.total] OBVIOUS
  <2>2. page \in [rows : Seq(FoundRows), total : Nat] BY <1>0, <2>1 DEF SeekRecord
  <2>3. page # NoPage BY <2>2, DiscoveryAssumption
  <2>4. DOMAIN pages = SeekKeys /\ pages = [k \in SeekKeys |-> pages[k]] BY DEF FeedInv
  <2> QED BY <1>0, <2>1, <2>3, <2>4
<1>4. \A k \in SeekKeys : pages[k] # NoPage => pages'[k] # NoPage BY <1>3
<1>5. \A k \in SeekKeys : Loading(q, k, locks[k]) => pages'[k] # NoPage BY <1>0, <1>3 DEF Loading
<1> QED BY <1>0, <1>1, <1>2, <1>4, <1>5, <1>b, LoadsKept

\* A lock for the key, where it has none: nothing was loaded under it yet.
LEMMA LoadsLock == ASSUME FeedInv, LoadsInv, NEW r \in Seekers, InflightLock(r) PROVE LoadsInv'
<1>b. PICK q : q = seek[r] OBVIOUS
<1>x. PICK x : x = seek'[r] OBVIOUS
<1>c. PICK c : c = KeyOf(Ask(r)) OBVIOUS
<1>l. PICK mutex : mutex = IF locks[KeyOf(Ask(r))] = NoLock THEN Min(1..Cardinality(Seekers) \ {seek[s].lock : s \in Seekers})
                         ELSE locks[KeyOf(Ask(r))]
  OBVIOUS
<1>0. /\ q \in SeekRecord /\ q.at = "lock" /\ UNCHANGED <<pages, loads>> /\ q.ask = Ask(r) /\ c \in SeekKeys
      /\ seek \in [Seekers -> SeekRecord] /\ KeyOf(q.ask) = c
      /\ locks' = [locks EXCEPT ![c] = mutex] /\ seek' = [seek EXCEPT ![r].at = "wait", ![r].lock = mutex]
  BY <1>b, <1>c, <1>l, RequestNow DEF InflightLock, Finding
<1>1. x = [q EXCEPT !.at = "wait", !.lock = mutex] /\ seek' = [seek EXCEPT ![r] = x] BY <1>0, <1>b, <1>x
<1>2. x.at = "wait" /\ x.ask = q.ask BY <1>0, <1>1 DEF SeekRecord
<1>3. ~UnderLock(x) /\ \A k \in SeekKeys : \A l : ~Loading(q, k, l) BY <1>0, <1>2 DEF UnderLock, Loading, Inside
<1>4. seek'[r] = x /\ \A s \in Seekers \ {r} : seek'[s] = seek[s] BY <1>0, <1>1
<1>5. \A s \in Seekers : seek'[s].ask = seek[s].ask BY <1>2, <1>4, <1>b
<1>6. SeekKeys' = SeekKeys BY <1>5, KeysSame
<1>7. \A k \in SeekKeys : locks[k] # NoLock => locks'[k] = locks[k]
  <2>1. DOMAIN locks = SeekKeys /\ locks = [k \in SeekKeys |-> locks[k]] BY DEF FeedInv
  <2>2. locks[c] # NoLock => mutex = locks[c] BY <1>c, <1>l
  <2> QED BY <1>0, <2>1, <2>2
<1>8. ASSUME NEW k \in SeekKeys, loads'[k] = 1, pages'[k] = NoPage PROVE \E s \in Seekers : Loading(seek'[s], k, locks'[k])
  <2>1. PICK s \in Seekers : Loading(seek[s], k, locks[k]) BY <1>0, <1>8 DEF LoadsInv
  <2>2. s # r BY <1>3, <1>b, <2>1
  <2>3. locks'[k] = locks[k] BY <1>7, <2>1 DEF Loading
  <2> QED BY <1>4, <2>1, <2>2, <2>3
<1>9. \A s, t \in Seekers : s # t /\ UnderLock(seek'[s]) /\ UnderLock(seek'[t]) => seek'[s].lock # seek'[t].lock
  <2> SUFFICES ASSUME NEW s \in Seekers, NEW t \in Seekers, s # t, UnderLock(seek'[s]), UnderLock(seek'[t])
               PROVE  seek'[s].lock # seek'[t].lock
    OBVIOUS
  <2>1. s # r /\ t # r BY <1>3, <1>4
  <2>2. seek'[s] = seek[s] /\ seek'[t] = seek[t] BY <1>4, <2>1
  <2> QED BY <2>2 DEF LoadsInv
<1>10. loads' \in [SeekKeys' -> {0, 1}] BY <1>0, <1>6 DEF LoadsInv
<1> QED BY <1>6, <1>8, <1>9, <1>10 DEF LoadsInv, UnderLock, Loading

LEMMA LoadsGiveUp == ASSUME FeedInv, LoadsInv, NEW r \in Seekers, GiveUp(r) PROVE LoadsInv'
<1>b. PICK q : q = seek[r] OBVIOUS
<1>x. PICK x : x = seek'[r] OBVIOUS
<1>0. UNCHANGED <<pages, locks>> /\ Go(r, "failed") /\ q.ask = Ask(r) BY <1>b, RequestNow DEF GiveUp
<1>1. x.at = "failed" /\ x.ask = seek[r].ask /\ seek' = [seek EXCEPT ![r] = x]
  BY <1>0, <1>b, <1>x, GoIs DEF SeekSteps
<1>2. CASE Ask(r).kind \in Cached /\ seek[r].at \in Inside \ {"again"}
  <2>1. loads' = [loads EXCEPT ![KeyOf(Ask(r))] = 0] BY <1>2 DEF GiveUp
  <2> QED BY <1>0, <1>1, <2>1, LoadsFail
<1>3. CASE ~(Ask(r).kind \in Cached /\ seek[r].at \in Inside \ {"again"})
  <2>1. loads' = loads BY <1>3 DEF GiveUp
  <2>2. ~UnderLock(x) BY <1>1 DEF UnderLock, Inside
  <2>3. \A k \in SeekKeys : ~Loading(q, k, locks[k]) BY <1>0, <1>3, <1>b DEF Loading
  <2> QED BY <1>0, <1>1, <1>b, <2>1, <2>2, <2>3, LoadsKept
<1> QED BY <1>2, <1>3

\* Requests of the other kinds come to no lock.
LEMMA LoadsOther ==
  ASSUME FeedInv, LoadsInv, NEW r \in Seekers,
         \/ ReadCategories(r) \/ ReadPreferred(r) \/ ReadFill(r) \/ ProbeParser(r) \/ SearchVideos(r) \/ SearchSuggest(r)
         \/ RememberSuggested(r)
  PROVE  LoadsInv'
<1>b. PICK q : q = seek[r] OBVIOUS
<1>x. PICK x : x = seek'[r] OBVIOUS
<1>0. /\ q \in SeekRecord /\ seek \in [Seekers -> SeekRecord] /\ UNCHANGED <<pages, locks, loads>>
      /\ q.at \in {"categories", "preferred", "fill", "search", "fallback", "suggest", "remember"} /\ RequestRight(q)
  BY <1>b, RequestNow DEF ReadCategories, ReadPreferred, ReadFill, ProbeParser, SearchVideos, SearchSuggest,
     RememberSuggested, Finding
<1>1. q.ask.kind \notin Cached BY <1>0 DEF RequestRight, Stepping, Cached, Paged
<1>2. seek' = [seek EXCEPT ![r] = x] /\ x.ask = q.ask
  <2>1. CASE ReadCategories(r)
    <3>1. PICK cats, at : seek' = [seek EXCEPT ![r].cats = cats, ![r].at = at] BY <2>1 DEF ReadCategories
    <3>2. x = [q EXCEPT !.cats = cats, !.at = at] /\ seek' = [seek EXCEPT ![r] = x] BY <1>0, <1>b, <1>x, <3>1
    <3> QED BY <1>0, <3>2 DEF SeekRecord
  <2>2. CASE ReadPreferred(r)
    <3>1. CASE seek' = [seek EXCEPT ![r].at = "count", ![r].cats = {}] BY <1>0, <1>b, <1>x, <3>1 DEF SeekRecord
    <3>2. ASSUME NEW at, NEW rows, GoWith(r, at, rows) PROVE seek' = [seek EXCEPT ![r] = x] /\ x.ask = q.ask
      BY <1>0, <1>b, <1>x, <3>2 DEF GoWith, SeekRecord
    <3>3. PICK s \in PreferredVideos(Ask(r).user, seek[r].cats) :
            LET rows == PageOf(s, 0, LimitOf(Ask(r)))
            IN IF rows = <<>> THEN seek' = [seek EXCEPT ![r].at = "count", ![r].cats = {}]
               ELSE GoWith(r, IF Len(rows) < LimitOf(Ask(r)) THEN "fill" ELSE "found", rows)
      BY <2>2 DEF ReadPreferred
    <3>4. CASE GoWith(r, IF Len(PageOf(s, 0, LimitOf(Ask(r)))) < LimitOf(Ask(r)) THEN "fill" ELSE "found",
                      PageOf(s, 0, LimitOf(Ask(r))))
      BY <3>2, <3>4
    <3> QED BY <3>1, <3>3, <3>4
  <2>3. CASE ReadFill(r) BY <1>0, <1>b, <1>x, <2>3 DEF ReadFill, GoWith, SeekRecord
  <2>4. CASE ProbeParser(r) BY <1>0, <1>b, <1>x, <2>4 DEF ProbeParser, Go, SeekRecord
  <2>5. CASE SearchVideos(r)
    <3>1. PICK rows, n : seek' = [seek EXCEPT ![r].at = "found", ![r].rows = rows, ![r].total = n] BY <2>5 DEF SearchVideos
    <3>2. x = [q EXCEPT !.at = "found", !.rows = rows, !.total = n] /\ seek' = [seek EXCEPT ![r] = x]
      BY <1>0, <1>b, <1>x, <3>1
    <3> QED BY <1>0, <3>2 DEF SeekRecord
  <2>6. CASE SearchSuggest(r) BY <1>0, <1>b, <1>x, <2>6 DEF SearchSuggest, GoWith, SeekRecord
  <2>7. CASE RememberSuggested(r) BY <1>0, <1>b, <1>x, <2>7 DEF RememberSuggested, Go, SeekRecord
  <2> QED BY <2>1, <2>2, <2>3, <2>4, <2>5, <2>6, <2>7
<1>3. ~UnderLock(x) /\ \A k \in SeekKeys : ~Loading(q, k, locks[k]) BY <1>1, <1>2 DEF UnderLock, Loading
<1> QED BY <1>0, <1>2, <1>3, <1>b, LoadsKept

\* Pages are dropped, and locks expire: a load has a reason again.
LEMMA LoadsDrop == ASSUME FeedInv, LoadsInv, NEW keys, DropPages(keys) PROVE LoadsInv'
<1>0. /\ UNCHANGED <<seek, locks>> /\ pages' = [k \in DOMAIN pages |-> IF k \in keys THEN NoPage ELSE pages[k]]
      /\ loads' = [k \in DOMAIN loads |-> IF k \in keys THEN 0 ELSE loads[k]]
      /\ DOMAIN pages = SeekKeys /\ DOMAIN loads = SeekKeys
  BY DEF DropPages, FeedInv, LoadsInv
<1>1. SeekKeys' = SeekKeys BY <1>0, KeysSame
<1>2. \A k \in SeekKeys : loads'[k] \in {0, 1} BY <1>0 DEF LoadsInv
<1>3. \A k \in SeekKeys : loads'[k] = 1 => loads[k] = 1 /\ pages'[k] = pages[k] BY <1>0
<1> QED BY <1>0, <1>1, <1>2, <1>3 DEF LoadsInv, UnderLock, Loading

LEMMA LoadsExpire == ASSUME FeedInv, LoadsInv, NEW key, LockExpires(key) PROVE LoadsInv'
<1>0. /\ UNCHANGED <<seek, pages>> /\ locks' = [locks EXCEPT ![key] = NoLock] /\ loads' = [loads EXCEPT ![key] = 0]
      /\ DOMAIN locks = SeekKeys /\ DOMAIN loads = SeekKeys
  BY DEF LockExpires, FeedInv, LoadsInv
<1>1. SeekKeys' = SeekKeys BY <1>0, KeysSame
<1>2. loads' \in [SeekKeys -> {0, 1}] BY <1>0 DEF LoadsInv
<1>3. \A k \in SeekKeys : loads'[k] = 1 => loads[k] = 1 /\ locks'[k] = locks[k] BY <1>0 DEF FeedInv, LoadsInv
<1> QED BY <1>0, <1>1, <1>2, <1>3 DEF LoadsInv, UnderLock, Loading

LEMMA LoadsInit == DiscoveryInit => LoadsInv
<1> SUFFICES ASSUME DiscoveryInit PROVE LoadsInv OBVIOUS
<1>1. loads = [k \in SeekKeys |-> 0] BY DEF DiscoveryInit, SeekKeys
<1>2. \A r \in Seekers : ~UnderLock(seek[r])
  <2>1. PICK asks \in Searches :
          seek = [r \in Seekers |-> [at |-> FirstStep(asks[r]), ask |-> asks[r], rows |-> <<>>, cats |-> {},
                                     total |-> 0, lock |-> NoLock]]
    BY DEF DiscoveryInit
  <2> SUFFICES ASSUME NEW r \in Seekers, NEW a, a = asks[r], NEW q, q = seek[r] PROVE ~UnderLock(q) OBVIOUS
  <2>2. q.at = FirstStep(a) /\ q.ask = a BY <2>1
  <2> QED BY <2>2 DEF UnderLock, FirstStep, Inside
<1> QED BY <1>1, <1>2 DEF LoadsInv

LEMMA LoadsStep == FeedInv /\ LoadsInv /\ [DiscoveryNext]_discoveryVars => LoadsInv'
<1> SUFFICES ASSUME FeedInv, LoadsInv, [DiscoveryNext]_discoveryVars PROVE LoadsInv' OBVIOUS
<1>1. ASSUME NEW r \in Seekers, Answering(r) PROVE LoadsInv'
  BY <1>1, LoadsLookup, LoadsLock, LoadsAcquire, LoadsAgain, LoadsCount, LoadsCategory, LoadsPages, LoadsInsert, LoadsGiveUp,
     LoadsOther DEF Answering
<1>2. ASSUME NEW r \in Seekers, NEW v \in VideoIds, Watch(Ask(r).user, v) PROVE LoadsInv'
  BY <1>2, Unmoved DEF Watch, Meanwhile
<1>3. ASSUME NEW v \in VideoIds, View(v) \/ Upload(v) \/ Delete(v) \/ GrowOld(v) \/ \E c \in Categories : Recategorize(v, c)
      PROVE  LoadsInv'
  BY <1>3, Unmoved DEF View, Upload, Delete, GrowOld, Recategorize, Meanwhile
<1>4. CASE RecomputeBatch BY <1>4, Unmoved DEF RecomputeBatch
<1>5. CASE EndRound BY <1>5, Unmoved DEF EndRound
<1>6. CASE SuggestionsExpire BY <1>6, Unmoved DEF SuggestionsExpire
<1>7. CASE UNCHANGED discoveryVars BY <1>7, Unmoved DEF discoveryVars
<1> QED BY <1>1, <1>2, <1>3, <1>4, <1>5, <1>6, <1>7, LoadsDrop, LoadsExpire DEF DiscoveryNext

\* However many requests miss the cache of a page at once, one of them loads it from the
\* database (handlers/recommendations.rs inflight_locks and the caches around it).
THEOREM LoadsAreCoalesced == DiscoverySpec => []Coalesced
<1>1. LoadsInv => Coalesced
  <2> SUFFICES ASSUME LoadsInv, NEW k \in DOMAIN loads PROVE loads[k] <= 1 BY DEF Coalesced
  <2>1. loads[k] \in {0, 1} BY DEF LoadsInv
  <2> QED BY <2>1
<1> QED BY <1>1, FeedInit, FeedStep, LoadsInit, LoadsStep, PTL DEF DiscoverySpec

-----------------------------------------------------------------------------
(***************************************************************************)
(* The limits.                                                             *)
(***************************************************************************)
Answers == [was : {"passed", "blocked", "limited"}, time : Nat, bytes : Nat]
PassedIn(s, t, span) == {k \in Within(s, t, span) : s[k].was = "passed"}
RefusedIn(s, t, span) == Within(s, t, span) \ PassedIn(s, t, span)
ChargedIn(s, t, span) == UNION {{k} \X (1..s[k].bytes) : k \in PassedIn(s, t, span)}

\* One more answer, now: the spans that are open get it.
LEMMA OneMore ==
  ASSUME NEW s \in Seq(Answers), NEW a \in Answers, NEW t \in Nat, NEW span \in Nat,
         NEW z, z = Append(s, a)
  PROVE  /\ z \in Seq(Answers) /\ Len(z) = Len(s) + 1 /\ z[Len(s) + 1] = a /\ DOMAIN z = DOMAIN s \cup {Len(s) + 1}
         /\ \A k \in DOMAIN s : z[k] = s[k]
         /\ Len(s) + 1 \notin DOMAIN s
         /\ \A k : k \in Within(z, t, span) <=>
                   k \in Within(s, t, span) \/ (k = Len(s) + 1 /\ a.time \in t .. t + span - 1)
<1>1. /\ z \in Seq(Answers) /\ Len(z) = Len(s) + 1 /\ z[Len(s) + 1] = a /\ DOMAIN z = 1..Len(s) + 1
      /\ DOMAIN s = 1..Len(s) /\ Len(s) \in Nat
      /\ \A k \in 1..Len(s) : z[k] = s[k]
  BY AppendProperties
<1>2. 1..Len(s) + 1 = 1..Len(s) \cup {Len(s) + 1} /\ Len(s) + 1 \notin 1..Len(s) BY <1>1
<1>3. ASSUME NEW k
      PROVE  k \in Within(z, t, span) <=>
               k \in Within(s, t, span) \/ (k = Len(s) + 1 /\ a.time \in t .. t + span - 1)
  <2>1. k \in Within(z, t, span) <=> k \in 1..Len(s) \cup {Len(s) + 1} /\ z[k].time \in t .. t + span - 1
    BY <1>1, <1>2 DEF Within
  <2>2. k \in Within(s, t, span) <=> k \in 1..Len(s) /\ s[k].time \in t .. t + span - 1 BY <1>1 DEF Within
  <2>3. CASE k \in 1..Len(s) BY <1>1, <1>2, <2>1, <2>2, <2>3
  <2>4. CASE k = Len(s) + 1 BY <1>1, <1>2, <2>1, <2>2, <2>4
  <2> QED BY <2>1, <2>2, <2>3, <2>4
<1> QED BY <1>1, <1>2, <1>3

\* The answers in a span are finitely many.
LEMMA FewAnswers ==
  ASSUME NEW s \in Seq(Answers), NEW t, NEW span
  PROVE  /\ IsFiniteSet(Within(s, t, span)) /\ IsFiniteSet(PassedIn(s, t, span)) /\ IsFiniteSet(RefusedIn(s, t, span))
         /\ Cardinality(PassedIn(s, t, span)) \in Nat /\ Cardinality(RefusedIn(s, t, span)) \in Nat
         /\ PassedIn(s, t, span) \subseteq DOMAIN s /\ RefusedIn(s, t, span) \subseteq DOMAIN s
<1>1. DOMAIN s = 1..Len(s) /\ Len(s) \in Nat OBVIOUS
<1>2. IsFiniteSet(1..Len(s)) BY <1>1, FS_Interval
<1>3. Within(s, t, span) \subseteq DOMAIN s BY DEF Within
<1>4. PassedIn(s, t, span) \subseteq DOMAIN s /\ RefusedIn(s, t, span) \subseteq DOMAIN s
  BY <1>3 DEF PassedIn, RefusedIn
<1>5. IsFiniteSet(Within(s, t, span)) /\ IsFiniteSet(PassedIn(s, t, span)) /\ IsFiniteSet(RefusedIn(s, t, span))
  BY <1>1, <1>2, <1>3, <1>4, FS_Subset
<1> QED BY <1>4, <1>5, FS_CardinalityType

\* How many passed and were refused, with one more.
LEMMA OneCounts ==
  ASSUME NEW s \in Seq(Answers), NEW a \in Answers, NEW t \in Nat, NEW span \in Nat
  PROVE  /\ t <= a.time /\ a.time < t + span /\ a.was = "passed" =>
              /\ Cardinality(PassedIn(Append(s, a), t, span)) = Cardinality(PassedIn(s, t, span)) + 1
              /\ Cardinality(RefusedIn(Append(s, a), t, span)) = Cardinality(RefusedIn(s, t, span))
         /\ t <= a.time /\ a.time < t + span /\ a.was # "passed" =>
              /\ Cardinality(PassedIn(Append(s, a), t, span)) = Cardinality(PassedIn(s, t, span))
              /\ Cardinality(RefusedIn(Append(s, a), t, span)) = Cardinality(RefusedIn(s, t, span)) + 1
         /\ ~(t <= a.time /\ a.time < t + span) =>
              /\ Cardinality(PassedIn(Append(s, a), t, span)) = Cardinality(PassedIn(s, t, span))
              /\ Cardinality(RefusedIn(Append(s, a), t, span)) = Cardinality(RefusedIn(s, t, span))
<1>z. PICK z : z = Append(s, a) OBVIOUS
<1>0. PICK n : n = Len(s) + 1 OBVIOUS
<1>1. z[n] = a /\ n \notin DOMAIN s /\ \A k \in DOMAIN s : z[k] = s[k] BY <1>0, <1>z, OneMore
<1>2. \A k : k \in Within(z, t, span) <=> k \in Within(s, t, span) \/ (k = n /\ a.time \in t .. t + span - 1)
  BY <1>0, <1>z, OneMore
<1>3. \A k \in Within(s, t, span) : k # n /\ z[k] = s[k] BY <1>1 DEF Within
<1>4. \A k : k \in PassedIn(z, t, span) <=>
               k \in PassedIn(s, t, span) \/ (k = n /\ a.time \in t .. t + span - 1 /\ a.was = "passed")
  <2> SUFFICES ASSUME NEW k
               PROVE  k \in PassedIn(z, t, span) <=>
                        k \in PassedIn(s, t, span) \/ (k = n /\ a.time \in t .. t + span - 1 /\ a.was = "passed")
    OBVIOUS
  <2>1. CASE k = n BY <1>1, <1>2, <1>3, <2>1 DEF PassedIn
  <2>2. CASE k # n BY <1>1, <1>2, <1>3, <2>2 DEF PassedIn
  <2> QED BY <2>1, <2>2
<1>5. \A k : k \in RefusedIn(z, t, span) <=>
               k \in RefusedIn(s, t, span) \/ (k = n /\ a.time \in t .. t + span - 1 /\ a.was # "passed")
  BY <1>1, <1>2, <1>3 DEF PassedIn, RefusedIn
<1>6. /\ IsFiniteSet(PassedIn(s, t, span)) /\ IsFiniteSet(RefusedIn(s, t, span))
      /\ n \notin PassedIn(s, t, span) /\ n \notin RefusedIn(s, t, span)
      /\ Cardinality(PassedIn(s, t, span)) \in Nat /\ Cardinality(RefusedIn(s, t, span)) \in Nat
  BY <1>1, FewAnswers
<1>7. /\ Cardinality(PassedIn(s, t, span) \cup {n}) = Cardinality(PassedIn(s, t, span)) + 1
      /\ Cardinality(RefusedIn(s, t, span) \cup {n}) = Cardinality(RefusedIn(s, t, span)) + 1
  BY <1>6, FS_AddElement
<1> DEFINE P == PassedIn(s, t, span)
           Q == PassedIn(z, t, span)
           R == RefusedIn(s, t, span)
           S == RefusedIn(z, t, span)
<1> HIDE DEF P, Q, R, S
<1>8. CASE a.time \in t .. t + span - 1 /\ a.was = "passed"
  <2>1. Q = P \cup {n} /\ S = R BY <1>4, <1>5, <1>8 DEF P, Q, R, S
  <2>2. t <= a.time /\ a.time < t + span BY <1>8 DEF Answers
  <2> QED BY <1>6, <1>7, <1>8, <1>z, <2>1, <2>2 DEF P, Q, R, S
<1>9. CASE a.time \in t .. t + span - 1 /\ a.was # "passed"
  <2>1. Q = P /\ S = R \cup {n} BY <1>4, <1>5, <1>9 DEF P, Q, R, S
  <2>2. t <= a.time /\ a.time < t + span BY <1>9 DEF Answers
  <2> QED BY <1>6, <1>7, <1>9, <1>z, <2>1, <2>2 DEF P, Q, R, S
<1>10. CASE ~(a.time \in t .. t + span - 1)
  <2>1. Q = P /\ S = R BY <1>4, <1>5, <1>10 DEF P, Q, R, S
  <2>2. ~(t <= a.time /\ a.time < t + span) BY <1>10 DEF Answers
  <2> QED BY <1>6, <1>z, <2>1, <2>2 DEF P, Q, R, S
<1> QED BY <1>8, <1>9, <1>10, <1>z DEF Answers

\* With no answers nothing passed.
LEMMA NoneCounts ==
  ASSUME NEW t, NEW span
  PROVE  /\ Cardinality(PassedIn(<<>>, t, span)) = 0 /\ Cardinality(RefusedIn(<<>>, t, span)) = 0
         /\ Cardinality(ChargedIn(<<>>, t, span)) = 0
<1>1. PassedIn(<<>>, t, span) = {} /\ RefusedIn(<<>>, t, span) = {} BY DEF PassedIn, RefusedIn, Within
<1>2. ChargedIn(<<>>, t, span) = {} BY <1>1 DEF ChargedIn
<1> QED BY <1>1, <1>2, FS_EmptySet

\* What a backend measures by: whether an entry counts, how far, until when, and
\* until when it refuses.
Gates == [on : BOOLEAN, count : Nat, ends : Nat, until : Nat]

\* Of the window of p that opens at t, passes P and refusals R that fit: while it is
\* open, an entry from before it has counted all that passed and none was refused, and an
\* entry from within it has counted what passed since the last refusal.
Fits(p, time, t, P, R, g) ==
  /\ P <= (p.max - 1) * (1 + R) + (p.max - 1)
  /\ time < t => P = 0 /\ R = 0
  /\ time < t + p.window =>
       /\ ~g.on => P <= (p.max - 1) * (1 + R)
       /\ g.on /\ g.ends < t + p.window => R = 0 /\ P <= g.count
       /\ g.on /\ g.ends >= t + p.window => P <= (p.max - 1) * (1 + R) + g.count
Metered(p, time, s, g) == \A t \in Nat :
  Fits(p, time, t, Cardinality(PassedIn(s, t, p.window)), Cardinality(RefusedIn(s, t, p.window)), g)

\* What was refused at the limit is refused until its block is over.
Waits(p, time, s, g) ==
  /\ \A j \in DOMAIN s : s[j].time <= time
  /\ \A j \in DOMAIN s : s[j].was = "limited" => s[j].time + p.block <= time \/ s[j].time + p.block <= g.until
  /\ \A j, k \in DOMAIN s : j < k /\ s[j].was = "limited" /\ s[k].was = "passed" => s[k].time >= s[j].time + p.block

GateRight(p, time, s, g) ==
  /\ s \in Seq(Answers) /\ g \in Gates
  /\ g.until <= time + p.block
  /\ g.on => g.count <= p.max - 1 /\ g.ends <= time + p.window /\ g.until <= time
  /\ Metered(p, time, s, g) /\ Waits(p, time, s, g)

LEMMA Times == ASSUME NEW m \in Nat, NEW n \in Nat PROVE m * n \in Nat /\ m * (n + 1) = m * n + m /\ (m > 0 => m <= m * (1 + n))
<1>1. m * n \in Nat OBVIOUS
<1>2. m * (n + 1) = m * n + m OBVIOUS
<1>3. m * (1 + n) = m * n + m OBVIOUS
<1> QED BY <1>1, <1>2, <1>3

\* An attempt that the entry g lets pass: h is the entry after it.
LEMMA FitsPass ==
  ASSUME NEW p, p.max \in Nat \ {0, 1}, p.window \in Nat, NEW time \in Nat, NEW t \in Nat, NEW P \in Nat, NEW R \in Nat,
         NEW g \in Gates, NEW h \in Gates, NEW Q, Q = P + (IF time \in t .. t + p.window - 1 THEN 1 ELSE 0),
         g.on => g.count <= p.max - 1, h.on, h.count <= p.max - 1,
         h.count = IF g.on /\ time < g.ends THEN g.count + 1 ELSE 1,
         h.ends = IF g.on /\ time < g.ends THEN g.ends ELSE time + p.window,
         Fits(p, time, t, P, R, g)
  PROVE  Fits(p, time, t, Q, R, h)
<1>1. PICK m \in Nat : m = p.max - 1 /\ m > 0 OBVIOUS
<1>2. PICK x \in Nat : x = m * (1 + R) /\ m <= x BY <1>1, Times
<1>3. PICK w \in Nat : w = p.window OBVIOUS
<1>4. PICK c \in Nat : c = g.count BY DEF Gates
<1>5. PICK e \in Nat : e = g.ends BY DEF Gates
<1>6. PICK d \in Nat : d = h.count BY DEF Gates
<1>7. PICK f \in Nat : f = h.ends BY DEF Gates
<1>a. /\ P <= x + m
      /\ time < t => P = 0 /\ R = 0
      /\ time < t + w => /\ ~g.on => P <= x
                         /\ g.on /\ e < t + w => R = 0 /\ P <= c
                         /\ g.on /\ e >= t + w => P <= x + c
  BY <1>1, <1>2, <1>3, <1>4, <1>5 DEF Fits
<1>b. /\ Q \in Nat /\ (t <= time /\ time < t + w => Q = P + 1) /\ (~(t <= time /\ time < t + w) => Q = P)
  BY <1>3
<1>c. /\ g.on => c <= m
      /\ d <= m
      /\ g.on /\ time < e => d = c + 1 /\ f = e
      /\ ~(g.on /\ time < e) => d = 1 /\ f = time + w
  BY <1>1, <1>3, <1>4, <1>5, <1>6, <1>7
<1>d. /\ Q <= x + m
      /\ time < t => Q = 0 /\ R = 0
      /\ time < t + w => /\ f < t + w => R = 0 /\ Q <= d
                         /\ f >= t + w => Q <= x + d
  <2>1. CASE time < t BY <1>a, <1>b, <1>c, <2>1
  <2>2. CASE time >= t /\ time < t + w
    <3>1. Q = P + 1 BY <1>b, <2>2
    <3>2. CASE g.on /\ time < e BY <1>1, <1>2, <1>a, <1>c, <2>2, <3>1, <3>2
    <3>3. CASE ~(g.on /\ time < e) BY <1>1, <1>2, <1>a, <1>c, <2>2, <3>1, <3>3
    <3> QED BY <3>2, <3>3
  <2>3. CASE time >= t + w BY <1>a, <1>b, <2>3
  <2> QED BY <2>1, <2>2, <2>3
<1> QED BY <1>1, <1>2, <1>3, <1>6, <1>7, <1>d DEF Fits

\* An attempt that is refused, at the limit or because of a block.
LEMMA FitsRefusal ==
  ASSUME NEW p, p.max \in Nat \ {0, 1}, p.window \in Nat, NEW time \in Nat, NEW t \in Nat, NEW P \in Nat, NEW R \in Nat,
         NEW g \in Gates, NEW h \in Gates, NEW S, S = R + (IF time \in t .. t + p.window - 1 THEN 1 ELSE 0),
         g.on => g.count <= p.max - 1, ~h.on,
         Fits(p, time, t, P, R, g)
  PROVE  Fits(p, time, t, P, S, h)
<1>1. PICK m \in Nat : m = p.max - 1 /\ m > 0 OBVIOUS
<1>2. PICK x \in Nat : x = m * (1 + R) /\ m <= x BY <1>1, Times
<1>3. PICK w \in Nat : w = p.window OBVIOUS
<1>4. S = R \/ S = R + 1 OBVIOUS
<1>5. PICK y \in Nat : y = m * (1 + S) /\ y = IF S = R THEN x ELSE x + m
  <2>1. CASE S = R BY <1>2, <2>1
  <2>2. CASE S = R + 1
    <3>1. m * (1 + S) = m * (1 + R) + m
      <4>1. 1 + R \in Nat /\ 1 + S = (1 + R) + 1 BY <2>2
      <4> QED BY <4>1, Times
    <3> QED BY <1>2, <2>2, <3>1
  <2> QED BY <1>4, <2>1, <2>2
<1>6. PICK c \in Nat : c = g.count BY DEF Gates
<1>7. PICK e \in Nat : e = g.ends BY DEF Gates
<1>a. /\ P <= x + m
      /\ time < t => P = 0 /\ R = 0
      /\ time < t + w => /\ ~g.on => P <= x
                         /\ g.on /\ e < t + w => R = 0 /\ P <= c
                         /\ g.on /\ e >= t + w => P <= x + c
  BY <1>1, <1>2, <1>3, <1>6, <1>7 DEF Fits
<1>b. /\ t <= time /\ time < t + w => S = R + 1
      /\ ~(t <= time /\ time < t + w) => S = R
  BY <1>3
<1>c. g.on => c <= m BY <1>1, <1>6
<1>d. /\ P <= y + m
      /\ time < t => P = 0 /\ S = 0
      /\ time < t + w => P <= y
  <2>1. CASE time < t BY <1>a, <1>b, <1>5, <2>1
  <2>2. CASE time >= t /\ time < t + w BY <1>2, <1>5, <1>a, <1>b, <1>c, <2>2
  <2>3. CASE time >= t + w BY <1>a, <1>b, <1>5, <2>3
  <2> QED BY <2>1, <2>2, <2>3
<1> QED BY <1>1, <1>3, <1>5, <1>d DEF Fits

\* An entry that is over and forgotten.
LEMMA FitsLapse ==
  ASSUME NEW p, p.max \in Nat \ {0, 1}, p.window \in Nat, NEW time \in Nat, NEW t \in Nat, NEW P \in Nat, NEW R \in Nat,
         NEW g \in Gates, NEW h \in Gates, g.on => g.count <= p.max - 1 /\ time >= g.ends, ~h.on,
         Fits(p, time, t, P, R, g)
  PROVE  Fits(p, time, t, P, R, h)
<1>1. PICK m \in Nat : m = p.max - 1 /\ m > 0 OBVIOUS
<1>2. PICK x \in Nat : x = m * (1 + R) /\ m <= x BY <1>1, Times
<1>3. g.count \in Nat /\ g.ends \in Nat BY DEF Gates
<1>4. time < t + p.window => P <= x BY <1>1, <1>2, <1>3 DEF Fits
<1> QED BY <1>1, <1>2, <1>4 DEF Fits

\* Time goes on.
LEMMA FitsLater ==
  ASSUME NEW p, p.max \in Nat \ {0, 1}, p.window \in Nat, NEW time \in Nat, NEW t \in Nat, NEW P \in Nat, NEW R \in Nat,
         NEW g \in Gates, Fits(p, time, t, P, R, g)
  PROVE  Fits(p, time + 1, t, P, R, g)
BY DEF Fits

\* A gate lets an attempt pass, at the time it is not shut.
LEMMA GatePasses ==
  ASSUME NEW p, p.max \in Nat \ {0, 1}, p.window \in Nat, p.block \in Nat, NEW time \in Nat, NEW s, NEW g, NEW h \in Gates,
         GateRight(p, time, s, g), NEW a \in Answers, a.time = time, a.was = "passed",
         time >= g.until, h.until <= time,
         h.on, h.count <= p.max - 1,
         h.count = IF g.on /\ time < g.ends THEN g.count + 1 ELSE 1,
         h.ends = IF g.on /\ time < g.ends THEN g.ends ELSE time + p.window
  PROVE  GateRight(p, time, Append(s, a), h)
<1>z. PICK z : z = Append(s, a) OBVIOUS
<1>a. a \in Answers /\ a.time = time /\ a.was = "passed" /\ p.window \in Nat /\ time \in Nat OBVIOUS
<1>s. s \in Seq(Answers) BY DEF GateRight
<1>g. s \in Seq(Answers) /\ g \in Gates /\ (g.on => g.count <= p.max - 1 /\ g.ends <= time + p.window)
      /\ Metered(p, time, s, g) /\ Waits(p, time, s, g)
  BY DEF GateRight
<1>1. Metered(p, time, z, h)
  <2> SUFFICES ASSUME NEW t \in Nat
               PROVE  Fits(p, time, t, Cardinality(PassedIn(z, t, p.window)), Cardinality(RefusedIn(z, t, p.window)), h)
    BY DEF Metered
  <2>1. PICK P \in Nat : P = Cardinality(PassedIn(s, t, p.window)) BY <1>g, FewAnswers
  <2>2. PICK R \in Nat : R = Cardinality(RefusedIn(s, t, p.window)) BY <1>g, FewAnswers
  <2>3. Fits(p, time, t, P, R, g) BY <1>g, <2>1, <2>2 DEF Metered
  <2>4. PICK Q : Q = P + (IF time \in t .. t + p.window - 1 THEN 1 ELSE 0) OBVIOUS
  <2>5. Cardinality(PassedIn(z, t, p.window)) = Q /\ Cardinality(RefusedIn(z, t, p.window)) = R
    <3>1. CASE t <= time /\ time < t + p.window
      <4>1. /\ Cardinality(PassedIn(Append(s, a), t, p.window)) = Cardinality(PassedIn(s, t, p.window)) + 1
            /\ Cardinality(RefusedIn(Append(s, a), t, p.window)) = Cardinality(RefusedIn(s, t, p.window))
        BY ONLY <1>s, <1>a, t \in Nat, <3>1, OneCounts
      <4> QED BY <1>z, <2>1, <2>2, <2>4, <3>1, <4>1
    <3>2. CASE ~(t <= time /\ time < t + p.window)
      <4>1. /\ Cardinality(PassedIn(Append(s, a), t, p.window)) = Cardinality(PassedIn(s, t, p.window))
            /\ Cardinality(RefusedIn(Append(s, a), t, p.window)) = Cardinality(RefusedIn(s, t, p.window))
        BY ONLY <1>s, <1>a, t \in Nat, <3>2, OneCounts
      <4> QED BY <1>z, <2>1, <2>2, <2>4, <3>2, <4>1
    <3> QED BY <3>1, <3>2
  <2>6. Fits(p, time, t, Q, R, h) BY <1>g, <2>3, <2>4, FitsPass
  <2> QED BY <2>5, <2>6
<1>2. /\ z \in Seq(Answers) /\ DOMAIN z = DOMAIN s \cup {Len(s) + 1} /\ z[Len(s) + 1] = a
      /\ \A k \in DOMAIN s : z[k] = s[k]
      /\ DOMAIN s = 1..Len(s) /\ Len(s) \in Nat
  BY <1>g, <1>z, OneMore
<1>3. \A j \in DOMAIN s : /\ s[j].time <= time /\ s[j].time \in Nat
                          /\ s[j].was = "limited" => s[j].time + p.block <= time
  <2> SUFFICES ASSUME NEW j \in DOMAIN s
               PROVE  s[j].time <= time /\ s[j].time \in Nat /\ (s[j].was = "limited" => s[j].time + p.block <= time)
    OBVIOUS
  <2>1. s[j] \in Answers BY <1>g
  <2>2. s[j].time \in Nat /\ g.until \in Nat BY <1>g, <2>1 DEF Answers, Gates
  <2> QED BY <1>g, <2>2 DEF Waits
<1>4. Waits(p, time, z, h)
  <2>1. \A j \in DOMAIN z : z[j].time <= time /\ (z[j].was = "limited" => z[j].time + p.block <= time)
    BY <1>2, <1>3
  <2>2. ASSUME NEW j \in DOMAIN z, NEW k \in DOMAIN z, j < k, z[j].was = "limited", z[k].was = "passed"
        PROVE  z[k].time >= z[j].time + p.block
    <3>1. j \in DOMAIN s /\ z[j] = s[j] BY <1>2, <2>2
    <3>2. CASE k \in DOMAIN s BY <1>2, <1>g, <2>2, <3>1, <3>2 DEF Waits
    <3>3. CASE k = Len(s) + 1 BY <1>2, <1>3, <2>2, <3>1, <3>3
    <3> QED BY <1>2, <3>2, <3>3
  <2> QED BY <2>1, <2>2 DEF Waits
<1>5. h.until <= time + p.block /\ h.ends <= time + p.window
  <2>1. h.until \in Nat /\ h.ends \in Nat BY DEF Gates
  <2>2. h.ends <= time + p.window BY <1>g
  <2> QED BY <2>1, <2>2
<1> QED BY <1>1, <1>2, <1>4, <1>5, <1>z DEF GateRight

\* A gate refuses an attempt: at the limit, and it is shut from then on, or because it is.
LEMMA GateRefuses ==
  ASSUME NEW p, p.max \in Nat \ {0, 1}, p.window \in Nat, p.block \in Nat, NEW time \in Nat, NEW s, NEW g, NEW h \in Gates,
         GateRight(p, time, s, g), NEW a \in Answers, a.time = time,
         ~h.on, h.until <= time + p.block,
         \/ a.was = "limited" /\ time >= g.until /\ (h.until >= time + p.block \/ p.block = 0)
         \/ a.was = "blocked" /\ h.until = g.until
  PROVE  GateRight(p, time, Append(s, a), h)
<1>z. PICK z : z = Append(s, a) OBVIOUS
<1>a. a \in Answers /\ a.time = time /\ p.window \in Nat /\ time \in Nat OBVIOUS
<1>s. s \in Seq(Answers) BY DEF GateRight
<1>g. s \in Seq(Answers) /\ g \in Gates /\ (g.on => g.count <= p.max - 1)
      /\ Metered(p, time, s, g) /\ Waits(p, time, s, g)
  BY DEF GateRight
<1>0. a.was # "passed" OBVIOUS
<1>1. Metered(p, time, z, h)
  <2> SUFFICES ASSUME NEW t \in Nat
               PROVE  Fits(p, time, t, Cardinality(PassedIn(z, t, p.window)), Cardinality(RefusedIn(z, t, p.window)), h)
    BY DEF Metered
  <2>1. PICK P \in Nat : P = Cardinality(PassedIn(s, t, p.window)) BY <1>g, FewAnswers
  <2>2. PICK R \in Nat : R = Cardinality(RefusedIn(s, t, p.window)) BY <1>g, FewAnswers
  <2>3. Fits(p, time, t, P, R, g) BY <1>g, <2>1, <2>2 DEF Metered
  <2>4. PICK S : S = R + (IF time \in t .. t + p.window - 1 THEN 1 ELSE 0) OBVIOUS
  <2>5. Cardinality(PassedIn(z, t, p.window)) = P /\ Cardinality(RefusedIn(z, t, p.window)) = S
    <3>1. CASE t <= time /\ time < t + p.window
      <4>1. /\ Cardinality(PassedIn(Append(s, a), t, p.window)) = Cardinality(PassedIn(s, t, p.window))
            /\ Cardinality(RefusedIn(Append(s, a), t, p.window)) = Cardinality(RefusedIn(s, t, p.window)) + 1
        BY ONLY <1>0, <1>s, <1>a, t \in Nat, <3>1, OneCounts
      <4> QED BY <1>z, <2>1, <2>2, <2>4, <3>1, <4>1
    <3>2. CASE ~(t <= time /\ time < t + p.window)
      <4>1. /\ Cardinality(PassedIn(Append(s, a), t, p.window)) = Cardinality(PassedIn(s, t, p.window))
            /\ Cardinality(RefusedIn(Append(s, a), t, p.window)) = Cardinality(RefusedIn(s, t, p.window))
        BY ONLY <1>s, <1>a, t \in Nat, <3>2, OneCounts
      <4> QED BY <1>z, <2>1, <2>2, <2>4, <3>2, <4>1
    <3> QED BY <3>1, <3>2
  <2>6. Fits(p, time, t, P, S, h) BY <1>g, <2>3, <2>4, FitsRefusal
  <2> QED BY <2>5, <2>6
<1>2. /\ z \in Seq(Answers) /\ DOMAIN z = DOMAIN s \cup {Len(s) + 1} /\ z[Len(s) + 1] = a
      /\ \A k \in DOMAIN s : z[k] = s[k]
      /\ DOMAIN s = 1..Len(s) /\ Len(s) \in Nat
  BY <1>g, <1>z, OneMore
<1>3. \A j \in DOMAIN s : /\ s[j].time <= time
                          /\ s[j].was = "limited" => s[j].time + p.block <= time \/ s[j].time + p.block <= h.until
  <2> SUFFICES ASSUME NEW j \in DOMAIN s
               PROVE  /\ s[j].time <= time
                      /\ s[j].was = "limited" => s[j].time + p.block <= time \/ s[j].time + p.block <= h.until
    OBVIOUS
  <2>1. s[j] \in Answers BY <1>g
  <2>2. s[j].time \in Nat /\ g.until \in Nat /\ h.until \in Nat BY <1>g, <2>1 DEF Answers, Gates
  <2> QED BY <1>g, <2>2 DEF Waits
<1>4. Waits(p, time, z, h)
  <2>0. h.until \in Nat BY DEF Gates
  <2>1. \A j \in DOMAIN z : /\ z[j].time <= time
                            /\ z[j].was = "limited" => z[j].time + p.block <= time \/ z[j].time + p.block <= h.until
    <3> SUFFICES ASSUME NEW j \in DOMAIN z
                 PROVE  /\ z[j].time <= time
                        /\ z[j].was = "limited" => z[j].time + p.block <= time \/ z[j].time + p.block <= h.until
      OBVIOUS
    <3>1. CASE j \in DOMAIN s
      BY ONLY <1>2, <1>3, <3>1
    <3>2. CASE j = Len(s) + 1
      <4>1. z[j] = a
        BY <1>2, <3>2
      <4>2. a.was = "limited" => a.time + p.block <= h.until \/ p.block = 0
        BY <2>0
      <4> QED BY <4>1, <4>2
    <3> QED BY <1>2, <3>1, <3>2
  <2>2. ASSUME NEW j \in DOMAIN z, NEW k \in DOMAIN z, j < k, z[j].was = "limited", z[k].was = "passed"
        PROVE  z[k].time >= z[j].time + p.block
    <3>1. k \in DOMAIN s BY <1>0, <1>2, <2>2
    <3>2. j \in DOMAIN s BY <1>2, <2>2, <3>1
    <3> QED BY <1>2, <1>g, <2>2, <3>1, <3>2 DEF Waits
  <2> QED BY <2>1, <2>2 DEF Waits
<1> QED BY <1>1, <1>2, <1>4, <1>z DEF GateRight

\* A gate with nothing behind it.
LEMMA GateNew ==
  ASSUME NEW p, p.max \in Nat \ {0, 1}, p.window \in Nat, p.block \in Nat, NEW time \in Nat, NEW g \in Gates, ~g.on, g.until = 0
  PROVE  GateRight(p, time, <<>>, g)
<1>1. Metered(p, time, <<>>, g)
  <2> SUFFICES ASSUME NEW t \in Nat PROVE Fits(p, time, t, 0, 0, g) BY NoneCounts DEF Metered
  <2>1. PICK m \in Nat : m = p.max - 1 OBVIOUS
  <2>2. m * (1 + 0) = m OBVIOUS
  <2> QED BY <2>1, <2>2 DEF Fits
<1>2. Waits(p, time, <<>>, g) BY DEF Waits
<1> QED BY <1>1, <1>2 DEF GateRight

\* What is over is forgotten, and time goes on.
LEMMA GateLapses ==
  ASSUME NEW p, p.max \in Nat \ {0, 1}, p.window \in Nat, p.block \in Nat, NEW time \in Nat, NEW s, NEW g, NEW h \in Gates,
         GateRight(p, time, s, g), g.on => time >= g.ends, time >= g.until, ~h.on, h.until = 0
  PROVE  GateRight(p, time, s, h)
<1>g. s \in Seq(Answers) /\ g \in Gates /\ (g.on => g.count <= p.max - 1)
      /\ Metered(p, time, s, g) /\ Waits(p, time, s, g)
  BY DEF GateRight
<1>1. Metered(p, time, s, h)
  <2> SUFFICES ASSUME NEW t \in Nat
               PROVE  Fits(p, time, t, Cardinality(PassedIn(s, t, p.window)), Cardinality(RefusedIn(s, t, p.window)), h)
    BY DEF Metered
  <2>1. PICK P \in Nat : P = Cardinality(PassedIn(s, t, p.window)) BY <1>g, FewAnswers
  <2>2. PICK R \in Nat : R = Cardinality(RefusedIn(s, t, p.window)) BY <1>g, FewAnswers
  <2>3. Fits(p, time, t, P, R, g) BY <1>g, <2>1, <2>2 DEF Metered
  <2> QED BY <1>g, <2>1, <2>2, <2>3, FitsLapse
<1>2. Waits(p, time, s, h)
  <2> SUFFICES ASSUME NEW j \in DOMAIN s, s[j].was = "limited" PROVE s[j].time + p.block <= time BY <1>g DEF Waits
  <2>1. s[j] \in Answers BY <1>g
  <2>2. s[j].time \in Nat /\ g.until \in Nat BY <1>g, <2>1 DEF Answers, Gates
  <2> QED BY <1>g, <2>2 DEF Waits
<1> QED BY <1>1, <1>2, <1>g DEF GateRight

LEMMA GateLater ==
  ASSUME NEW p, p.max \in Nat \ {0, 1}, p.window \in Nat, p.block \in Nat, NEW time \in Nat, NEW s, NEW g,
         GateRight(p, time, s, g)
  PROVE  GateRight(p, time + 1, s, g)
<1>g. s \in Seq(Answers) /\ g \in Gates /\ (g.on => g.count <= p.max - 1)
      /\ Metered(p, time, s, g) /\ Waits(p, time, s, g)
  BY DEF GateRight
<1>1. Metered(p, time + 1, s, g)
  <2> SUFFICES ASSUME NEW t \in Nat
               PROVE  Fits(p, time + 1, t, Cardinality(PassedIn(s, t, p.window)), Cardinality(RefusedIn(s, t, p.window)), g)
    BY DEF Metered
  <2>1. PICK P \in Nat : P = Cardinality(PassedIn(s, t, p.window)) BY <1>g, FewAnswers
  <2>2. PICK R \in Nat : R = Cardinality(RefusedIn(s, t, p.window)) BY <1>g, FewAnswers
  <2>3. Fits(p, time, t, P, R, g) BY <1>g, <2>1, <2>2 DEF Metered
  <2> QED BY <1>g, <2>1, <2>2, <2>3, FitsLater
<1>2. Waits(p, time + 1, s, g)
  <2>1. \A j \in DOMAIN s : s[j].time \in Nat
    <3> SUFFICES ASSUME NEW j \in DOMAIN s PROVE s[j].time \in Nat OBVIOUS
    <3>1. s[j] \in Answers BY <1>g
    <3> QED BY <3>1 DEF Answers
  <2> QED BY <1>g, <2>1 DEF Waits
<1>3. g.until \in Nat /\ g.ends \in Nat BY <1>g DEF Gates
<1> QED BY <1>1, <1>2, <1>3, <1>g DEF GateRight

\* Of the window that opens at t, Q bytes charged that fit: while it is open, a bucket
\* from before it holds them all, and one from within it what came since.
Allows(time, t, Q, b) ==
  /\ Q <= 2 * MaxBytes
  /\ time < t => Q = 0
  /\ time < t + ByteWindow =>
       /\ b = Nothing => Q <= MaxBytes
       /\ b # Nothing /\ b.ends < t + ByteWindow => Q <= b.bytes
       /\ b # Nothing /\ b.ends >= t + ByteWindow => Q <= MaxBytes + b.bytes
Tallied(time, s, t, b) ==
  /\ IsFiniteSet(ChargedIn(s, t, ByteWindow))
  /\ Allows(time, t, Cardinality(ChargedIn(s, t, ByteWindow)), b)
BucketRight(time, s, b) ==
  /\ s \in Seq(Answers) /\ b \in Buckets \cup {Nothing}
  /\ b # Nothing => b.bytes <= MaxBytes
  /\ \A t \in Nat : Tallied(time, s, t, b)

\* What one more answer charges.
LEMMA OneCharge ==
  ASSUME NEW s \in Seq(Answers), NEW a \in Answers, NEW t \in Nat, NEW span \in Nat, IsFiniteSet(ChargedIn(s, t, span))
  PROVE  /\ IsFiniteSet(ChargedIn(Append(s, a), t, span)) /\ Cardinality(ChargedIn(s, t, span)) \in Nat
         /\ t <= a.time /\ a.time < t + span /\ a.was = "passed" =>
              Cardinality(ChargedIn(Append(s, a), t, span)) = Cardinality(ChargedIn(s, t, span)) + a.bytes
         /\ ~(t <= a.time /\ a.time < t + span /\ a.was = "passed") =>
              Cardinality(ChargedIn(Append(s, a), t, span)) = Cardinality(ChargedIn(s, t, span))
<1>z. PICK z : z = Append(s, a) OBVIOUS
<1>0. PICK n : n = Len(s) + 1 OBVIOUS
<1>b. PICK b \in Nat : b = a.bytes BY DEF Answers
<1>1. z[n] = a /\ n \notin DOMAIN s /\ \A k \in DOMAIN s : z[k] = s[k] BY <1>0, <1>z, OneMore
<1>2. \A k : k \in Within(z, t, span) <=> k \in Within(s, t, span) \/ (k = n /\ a.time \in t .. t + span - 1)
  BY <1>0, <1>z, OneMore
<1>3. \A k \in PassedIn(s, t, span) : k # n /\ z[k] = s[k] BY <1>1 DEF Within, PassedIn
<1>4. PICK Old : Old = ChargedIn(s, t, span) OBVIOUS
<1>5. PICK New : New = ChargedIn(z, t, span) OBVIOUS
<1>6. PICK More : More = {n} \X (1..b) OBVIOUS
<1>7. IsFiniteSet(More) /\ Cardinality(More) = b
  <2>1. PICK T : T = 1..b OBVIOUS
  <2>2. IsFiniteSet(T) /\ Cardinality(T) = b BY <2>1, FS_Interval
  <2>3. IsFiniteSet({n}) /\ Cardinality({n}) = 1 BY FS_Singleton
  <2>4. IsFiniteSet({n} \X T) /\ Cardinality({n} \X T) = 1 * b BY <2>2, <2>3, FS_Product
  <2> QED BY <1>6, <2>1, <2>4
<1>8. \A x : x \in Old <=> \E k \in PassedIn(s, t, span) : x \in {k} \X (1..s[k].bytes) BY <1>4 DEF ChargedIn
<1>9. \A x : x \in New <=> \E k \in PassedIn(z, t, span) : x \in {k} \X (1..z[k].bytes) BY <1>5 DEF ChargedIn
<1>10. Old \cap More = {}
  <2> SUFFICES ASSUME NEW x, x \in Old, x \in More PROVE FALSE OBVIOUS
  <2>1. PICK k \in PassedIn(s, t, span) : x \in {k} \X (1..s[k].bytes) BY <1>8
  <2>2. x[1] = k /\ x[1] = n BY <1>6, <2>1
  <2> QED BY <1>3, <2>2
<1>11. CASE a.time \in t .. t + span - 1 /\ a.was = "passed"
  <2>1. \A k : k \in PassedIn(z, t, span) <=> k \in PassedIn(s, t, span) \/ k = n
    <3> SUFFICES ASSUME NEW k PROVE k \in PassedIn(z, t, span) <=> k \in PassedIn(s, t, span) \/ k = n OBVIOUS
    <3>1. CASE k = n BY <1>1, <1>2, <1>11, <3>1 DEF PassedIn
    <3>2. CASE k # n BY <1>1, <1>2, <1>11, <3>2 DEF PassedIn, Within
    <3> QED BY <3>1, <3>2
  <2>2. \A x : x \in New <=> x \in Old \/ x \in More
    <3> SUFFICES ASSUME NEW x PROVE x \in New <=> x \in Old \/ x \in More OBVIOUS
    <3>1. x \in Old \/ x \in More => x \in New BY <1>1, <1>3, <1>6, <1>8, <1>9, <1>b, <2>1
    <3>2. ASSUME x \in New PROVE x \in Old \/ x \in More
      <4>1. PICK k \in PassedIn(z, t, span) : x \in {k} \X (1..z[k].bytes) BY <1>9, <3>2
      <4>2. CASE k = n BY <1>1, <1>6, <1>b, <4>1, <4>2
      <4>3. CASE k # n BY <1>3, <1>8, <2>1, <4>1, <4>3
      <4> QED BY <4>2, <4>3
    <3> QED BY <3>1, <3>2
  <2>3. New = Old \cup More BY <2>2
  <2>4. IsFiniteSet(Old) BY <1>4
  <2>5. /\ IsFiniteSet(Old \cup More)
        /\ Cardinality(Old \cup More) = Cardinality(Old) + Cardinality(More) - Cardinality(Old \cap More)
    BY <1>7, <2>4, FS_Union
  <2>6. Cardinality(Old \cap More) = 0 BY <1>10, FS_EmptySet
  <2>7. Cardinality(Old) \in Nat BY <2>4, FS_CardinalityType
  <2>8. Cardinality(New) = Cardinality(Old) + b BY <1>7, <2>3, <2>5, <2>6, <2>7
  <2>9. t <= a.time /\ a.time < t + span BY <1>11 DEF Answers
  <2> QED BY <1>4, <1>5, <1>11, <1>b, <1>z, <2>3, <2>5, <2>7, <2>8, <2>9
<1>12. CASE ~(a.time \in t .. t + span - 1 /\ a.was = "passed")
  <2>1. \A k : k \in PassedIn(z, t, span) <=> k \in PassedIn(s, t, span)
    <3> SUFFICES ASSUME NEW k PROVE k \in PassedIn(z, t, span) <=> k \in PassedIn(s, t, span) OBVIOUS
    <3>1. CASE k = n
      <4>1. k \notin PassedIn(z, t, span) BY <1>1, <1>2, <1>12, <3>1 DEF PassedIn, Within
      <4> QED BY <1>3, <3>1, <4>1
    <3>2. CASE k # n BY <1>1, <1>2, <1>12, <3>2 DEF PassedIn, Within
    <3> QED BY <3>1, <3>2
  <2>2. \A x : x \in New <=> x \in Old
    <3> SUFFICES ASSUME NEW x PROVE x \in New <=> x \in Old OBVIOUS
    <3>1. x \in Old => x \in New BY <1>3, <1>8, <1>9, <2>1
    <3>2. x \in New => x \in Old BY <1>3, <1>8, <1>9, <2>1
    <3> QED BY <3>1, <3>2
  <2>3. New = Old BY <2>2
  <2>4. IsFiniteSet(Old) BY <1>4
  <2>5. Cardinality(Old) \in Nat BY <2>4, FS_CardinalityType
  <2>6. ~(t <= a.time /\ a.time < t + span /\ a.was = "passed") BY <1>12 DEF Answers
  <2> QED BY <1>4, <1>5, <1>z, <2>3, <2>4, <2>5, <2>6
<1> QED BY <1>11, <1>12

\* A check of n bytes, or one that is refused and charges none.
LEMMA AllowsCheck ==
  ASSUME NEW time \in Nat, NEW t \in Nat, NEW Q \in Nat, NEW n \in Nat, NEW b \in Buckets \cup {Nothing}, NEW c \in Buckets,
         b # Nothing => b.bytes <= MaxBytes, c.bytes <= MaxBytes,
         b = Nothing \/ time >= b.ends => c.bytes = n /\ c.ends = time + ByteWindow,
         b # Nothing /\ time < b.ends => c.bytes = b.bytes + n /\ c.ends = b.ends,
         NEW S, t <= time /\ time < t + ByteWindow => S = Q + n, ~(t <= time /\ time < t + ByteWindow) => S = Q,
         Allows(time, t, Q, b)
  PROVE  Allows(time, t, S, c)
<1>1. PICK w \in Nat : w = ByteWindow BY ThrottleAssumption
<1>2. PICK m \in Nat : m = MaxBytes BY ThrottleAssumption
<1>3. PICK d \in Nat : d = c.bytes BY DEF Buckets
<1>4. PICK f \in Nat : f = c.ends BY DEF Buckets
<1>5. c # Nothing BY ThrottleAssumption
<1>6. CASE b = Nothing
  <2>1. S <= 2 * m /\ (time < t => S = 0)
        /\ (time < t + w => (f < t + w => S <= d) /\ (f >= t + w => S <= m + d))
    BY <1>1, <1>2, <1>3, <1>4, <1>6 DEF Allows
  <2> QED BY <1>1, <1>2, <1>3, <1>4, <1>5, <2>1 DEF Allows
<1>7. CASE b # Nothing
  <2>1. PICK e \in Nat : e = b.ends BY <1>7 DEF Buckets
  <2>2. PICK g \in Nat : g = b.bytes BY <1>7 DEF Buckets
  <2>3. /\ Q <= 2 * m /\ (time < t => Q = 0)
        /\ time < t + w => (e < t + w => Q <= g) /\ (e >= t + w => Q <= m + g)
        /\ g <= m /\ d <= m
        /\ time >= e => d = n /\ f = time + w
        /\ time < e => d = g + n /\ f = e
        /\ (t <= time /\ time < t + w => S = Q + n) /\ (~(t <= time /\ time < t + w) => S = Q)
    BY <1>1, <1>2, <1>3, <1>4, <1>7, <2>1, <2>2 DEF Allows
  <2>4. S <= 2 * m /\ (time < t => S = 0)
        /\ (time < t + w => (f < t + w => S <= d) /\ (f >= t + w => S <= m + d))
    BY <2>3
  <2> QED BY <1>1, <1>2, <1>3, <1>4, <1>5, <2>4 DEF Allows
<1> QED BY <1>6, <1>7

\* The bucket after a check is right.
LEMMA BucketChecks ==
  ASSUME NEW time \in Nat, NEW s, NEW b, NEW c \in Buckets, NEW a \in Answers, NEW n \in Nat, BucketRight(time, s, b),
         a.time = time, n = IF a.was = "passed" THEN a.bytes ELSE 0, c.bytes <= MaxBytes,
         b = Nothing \/ time >= b.ends => c.bytes = n /\ c.ends = time + ByteWindow,
         b # Nothing /\ time < b.ends => c.bytes = b.bytes + n /\ c.ends = b.ends
  PROVE  BucketRight(time, Append(s, a), c)
<1>1. s \in Seq(Answers) /\ b \in Buckets \cup {Nothing} /\ (b # Nothing => b.bytes <= MaxBytes) BY DEF BucketRight
<1>2. ByteWindow \in Nat BY ThrottleAssumption
<1>3. ASSUME NEW t \in Nat PROVE Tallied(time, Append(s, a), t, c)
  <2>1. IsFiniteSet(ChargedIn(s, t, ByteWindow)) /\ Allows(time, t, Cardinality(ChargedIn(s, t, ByteWindow)), b)
    BY <1>3 DEF BucketRight, Tallied
  <2>2. PICK Q : Q = Cardinality(ChargedIn(s, t, ByteWindow)) OBVIOUS
  <2>3. PICK S : S = Cardinality(ChargedIn(Append(s, a), t, ByteWindow)) OBVIOUS
  <2>4. /\ IsFiniteSet(ChargedIn(Append(s, a), t, ByteWindow)) /\ Cardinality(ChargedIn(s, t, ByteWindow)) \in Nat
        /\ t <= a.time /\ a.time < t + ByteWindow /\ a.was = "passed" =>
             Cardinality(ChargedIn(Append(s, a), t, ByteWindow)) = Cardinality(ChargedIn(s, t, ByteWindow)) + a.bytes
        /\ ~(t <= a.time /\ a.time < t + ByteWindow /\ a.was = "passed") =>
             Cardinality(ChargedIn(Append(s, a), t, ByteWindow)) = Cardinality(ChargedIn(s, t, ByteWindow))
    BY <1>1, <1>2, <2>1, OneCharge
  <2>5. /\ Q \in Nat
        /\ t <= time /\ time < t + ByteWindow => S = Q + n
        /\ ~(t <= time /\ time < t + ByteWindow) => S = Q
    BY <1>2, <2>2, <2>3, <2>4
  <2>6. Allows(time, t, Q, b) BY <2>1, <2>2
  <2>7. Allows(time, t, S, c) BY <1>1, <2>5, <2>6, AllowsCheck
  <2> QED BY <2>3, <2>4, <2>7 DEF Tallied
<1>4. Append(s, a) \in Seq(Answers) BY <1>1
<1> QED BY <1>3, <1>4 DEF BucketRight

LEMMA BucketLater == ASSUME NEW time \in Nat, NEW s, NEW b, BucketRight(time, s, b) PROVE BucketRight(time + 1, s, b)
<1>1. ByteWindow \in Nat BY ThrottleAssumption
<1>2. ASSUME NEW t \in Nat PROVE Tallied(time + 1, s, t, b)
  <2>1. Tallied(time, s, t, b) BY <1>2 DEF BucketRight
  <2>2. PICK Q : Q = Cardinality(ChargedIn(s, t, ByteWindow)) OBVIOUS
  <2>3. Allows(time, t, Q, b) => Allows(time + 1, t, Q, b) BY <1>1 DEF Allows
  <2> QED BY <2>1, <2>2, <2>3 DEF Tallied
<1> QED BY <1>2 DEF BucketRight

LEMMA BucketNew == ASSUME NEW time \in Nat PROVE BucketRight(time, <<>>, Nothing)
<1>1. ByteWindow \in Nat /\ MaxBytes \in Nat BY ThrottleAssumption
<1>2. ASSUME NEW t \in Nat PROVE Tallied(time, <<>>, t, Nothing)
  <2>1. ChargedIn(<<>>, t, ByteWindow) = {} BY DEF ChargedIn, PassedIn, Within
  <2>2. Allows(time, t, 0, Nothing) BY <1>1 DEF Allows
  <2> QED BY <2>1, <2>2, FS_EmptySet DEF Tallied
<1> QED BY <1>2 DEF BucketRight

\* What the two backends measure by.
MemoryGate ==
  IF memory = Nothing THEN [on |-> FALSE, count |-> 0, ends |-> 0, until |-> 0]
  ELSE IF memory.until # Nothing THEN [on |-> FALSE, count |-> 0, ends |-> 0, until |-> memory.until]
  ELSE [on |-> TRUE, count |-> memory.count, ends |-> memory.ends, until |-> 0]
RedisGate ==
  IF counter = Nothing THEN [on |-> FALSE, count |-> 0, ends |-> 0, until |-> block]
  ELSE [on |-> TRUE, count |-> counter.count, ends |-> counter.ends, until |-> block]

ThrottleTypes ==
  /\ policy \in Policies \cup {Nothing} /\ now \in Nat
  /\ memory \in Entries \cup {Nothing} /\ counter \in Counters \cup {Nothing} /\ block \in Nat
  /\ counter # Nothing => counter.count > 0
  /\ log \in [Backends -> Seq(Answers)]

\* Each backend is right in what it measures by, and so is the bucket.
ThrottleInv ==
  /\ ThrottleTypes
  /\ policy # Nothing =>
       /\ GateRight(policy, now, log["memory"], MemoryGate)
       /\ GateRight(policy, now, log["redis"], RedisGate)
       /\ bucket = Nothing
  /\ BucketRight(now, log["bytes"], bucket)

LEMMA ALimit ==
  ASSUME ThrottleTypes, policy # Nothing
  PROVE  policy.max \in Nat \ {0, 1} /\ policy.window \in Nat /\ policy.block \in Nat
BY ThrottleAssumption DEF ThrottleTypes

LEMMA NoNumber == Nothing \notin Nat /\ Nothing \notin Entries /\ Nothing \notin Counters /\ Nothing \notin Buckets
BY ThrottleAssumption

LEMMA GatesAreGates ==
  ASSUME ThrottleTypes
  PROVE  MemoryGate \in Gates /\ RedisGate \in Gates
BY DEF ThrottleTypes, MemoryGate, RedisGate, Gates, Entries, Counters

LEMMA GatesStay ==
  /\ memory' = memory => MemoryGate' = MemoryGate
  /\ counter' = counter /\ block' = block => RedisGate' = RedisGate
BY DEF MemoryGate, RedisGate

\* An attempt answered from memory.
LEMMA MemoryChecked ==
  ASSUME ThrottleInv, policy # Nothing, CheckMemory
  PROVE  /\ memory' \in Entries /\ FromMemory \in Answers
         /\ GateRight(policy, now, Append(log["memory"], FromMemory), MemoryGate')
<1>0. ThrottleTypes /\ GateRight(policy, now, log["memory"], MemoryGate)
  BY DEF ThrottleInv
<1>p. policy.max \in Nat \ {0, 1} /\ policy.window \in Nat /\ policy.block \in Nat
  BY <1>0, ALimit
<1>n. now \in Nat /\ Nothing \notin Nat /\ Nothing \notin Entries
  BY <1>0, NoNumber DEF ThrottleTypes
<1>m. memory = Nothing \/ (/\ memory \in Entries /\ memory.ends \in Nat /\ memory.count \in Nat
                           /\ memory.until \in Nat \cup {Nothing})
  BY <1>0 DEF ThrottleTypes, Entries
<1>g. MemoryGate \in Gates
  BY <1>0, GatesAreGates
<1>l. MemoryGate.on => MemoryGate.count <= policy.max - 1
  BY <1>0 DEF GateRight
<1>c. MemoryGate.until <= now + policy.block
  BY <1>0 DEF GateRight
<1>1. CASE MemoryRefuses(memory, now)
  <2>1. memory' = memory /\ FromMemory = Answer("blocked", 0)
    BY <1>1 DEF CheckMemory, FromMemory, MemoryPasses
  <2>2. memory # Nothing /\ memory.until # Nothing
    BY <1>1 DEF MemoryRefuses, Blocked
  <2>3. FromMemory \in Answers /\ FromMemory.time = now /\ FromMemory.was = "blocked"
    BY <1>n, <2>1 DEF Answer, Answers
  <2>4. MemoryGate' = MemoryGate /\ ~MemoryGate.on
    BY <2>1, <2>2, GatesStay DEF MemoryGate
  <2>5. GateRight(policy, now, Append(log["memory"], FromMemory), MemoryGate)
    BY <1>0, <1>p, <1>n, <1>g, <1>c, <2>3, <2>4, GateRefuses
  <2> QED BY <1>m, <2>1, <2>2, <2>3, <2>4, <2>5
<1>2. CASE ~MemoryRefuses(memory, now)
  <2>1. memory' = Counted(memory, now)
    BY <1>2 DEF CheckMemory
  <2> DEFINE stays == memory # Nothing /\ memory.until = Nothing /\ now < memory.ends
             hits == IF stays THEN memory.count + 1 ELSE 1
             ends == IF stays THEN memory.ends ELSE now + policy.window
  <2>2. /\ memory'.ends = ends /\ memory'.count = hits
        /\ memory'.until = IF hits >= policy.max THEN now + policy.block ELSE Nothing
        /\ memory' = [ends |-> ends, count |-> hits, until |-> IF hits >= policy.max THEN now + policy.block ELSE Nothing]
    <3>0. PICK e : e = IF stays THEN memory ELSE Fresh(now)
      OBVIOUS
    <3>1. e \in Entries
      <4>1. Fresh(now) = [ends |-> now + policy.window, count |-> 0, until |-> Nothing]
        BY DEF Fresh
      <4>2. Fresh(now) \in Entries
        BY <1>n, <1>p, <4>1 DEF Entries
      <4> QED BY <1>m, <3>0, <4>2
    <3>2. e.ends = ends /\ e.count + 1 = hits
      <4>1. CASE stays
        BY <3>0, <4>1
      <4>2. CASE ~stays
        <5>1. e = [ends |-> now + policy.window, count |-> 0, until |-> Nothing]
          BY <3>0, <4>2 DEF Fresh
        <5> QED BY <4>2, <5>1
      <4> QED BY <4>1, <4>2
    <3>3. (memory = Nothing \/ memory.until # Nothing \/ now >= memory.ends) <=> ~stays
      BY <1>m, <1>n
    <3>4. e = IF memory = Nothing \/ memory.until # Nothing \/ now >= memory.ends THEN Fresh(now) ELSE memory
      BY <3>0, <3>3
    <3>5. memory' = [e EXCEPT !.count = @ + 1, !.until = IF e.count + 1 >= policy.max THEN now + policy.block ELSE Nothing]
      BY ONLY <2>1, <3>4 DEF Counted
    <3>6. e = [ends |-> e.ends, count |-> e.count, until |-> e.until]
      BY <3>1 DEF Entries
    <3>7. memory' = [ends |-> e.ends, count |-> e.count + 1, until |-> IF e.count + 1 >= policy.max THEN now + policy.block ELSE Nothing]
      BY ONLY <3>5, <3>6
    <3> QED BY <3>2, <3>7
  <2>3. hits \in Nat /\ ends \in Nat
    BY <1>m, <1>n, <1>p
  <2>4. memory' \in Entries /\ memory' # Nothing
    BY <1>n, <1>p, <2>2, <2>3 DEF Entries
  <2>5. MemoryGate.until <= now
    <3>1. memory # Nothing /\ memory.until # Nothing => memory.until <= now
      BY <1>2, <1>m, <1>n DEF MemoryRefuses, Blocked
    <3> QED BY <1>n, <3>1 DEF MemoryGate
  <2>6. (MemoryGate.on /\ now < MemoryGate.ends) <=> stays
    BY <1>m, <1>n DEF MemoryGate
  <2>7. stays => MemoryGate.count = memory.count /\ MemoryGate.ends = memory.ends
    BY DEF MemoryGate
  <2>8. /\ hits = IF MemoryGate.on /\ now < MemoryGate.ends THEN MemoryGate.count + 1 ELSE 1
        /\ ends = IF MemoryGate.on /\ now < MemoryGate.ends THEN MemoryGate.ends ELSE now + policy.window
    BY <2>6, <2>7
  <2>f. MemoryPasses(memory, now) <=> memory'.until = Nothing
    BY <1>2, <2>1 DEF MemoryPasses
  <2>9. CASE hits < policy.max
    <3>1. memory'.until = Nothing
      BY <1>p, <2>2, <2>3, <2>9
    <3>2. FromMemory = Answer("passed", 0)
      BY <2>f, <3>1 DEF FromMemory
    <3>3. FromMemory \in Answers /\ FromMemory.time = now /\ FromMemory.was = "passed"
      BY <1>n, <3>2 DEF Answer, Answers
    <3>4. MemoryGate' = [on |-> TRUE, count |-> hits, ends |-> ends, until |-> 0]
      BY <2>2, <2>4, <3>1 DEF MemoryGate
    <3>5. PICK h : h = MemoryGate'
      OBVIOUS
    <3>6. h \in Gates /\ h.on /\ h.count = hits /\ h.ends = ends /\ h.until = 0
      BY <2>3, <3>4, <3>5 DEF Gates
    <3>7. h.count <= policy.max - 1 /\ h.until <= now
      BY <1>p, <1>n, <2>3, <2>9, <3>6
    <3>8. GateRight(policy, now, Append(log["memory"], FromMemory), h)
      <4> HIDE DEF hits, ends, stays
      <4> QED BY ONLY <1>0, <1>p, <1>n, <2>5, <2>8, <3>3, <3>6, <3>7, GatePasses
    <3> QED BY <2>4, <3>3, <3>5, <3>8
  <2>10. CASE ~(hits < policy.max)
    <3>1. memory'.until = now + policy.block /\ memory'.until # Nothing
      BY <1>p, <1>n, <2>2, <2>3, <2>10
    <3>2. FromMemory = Answer("limited", 0)
      BY <1>2, <2>f, <3>1 DEF FromMemory
    <3>3. FromMemory \in Answers /\ FromMemory.time = now /\ FromMemory.was = "limited"
      BY <1>n, <3>2 DEF Answer, Answers
    <3>4. MemoryGate' = [on |-> FALSE, count |-> 0, ends |-> 0, until |-> now + policy.block]
      BY <2>4, <3>1 DEF MemoryGate
    <3>5. PICK h : h = MemoryGate'
      OBVIOUS
    <3>6. h \in Gates /\ ~h.on /\ h.until = now + policy.block
      BY <1>p, <1>n, <3>4, <3>5 DEF Gates
    <3>7. h.until <= now + policy.block /\ h.until >= now + policy.block
      BY <1>p, <1>n, <3>6
    <3>9. now >= MemoryGate.until
      BY <1>n, <1>g, <2>5 DEF Gates
    <3>8. GateRight(policy, now, Append(log["memory"], FromMemory), h)
      BY ONLY <1>0, <1>p, <1>n, <3>9, <3>3, <3>6, <3>7, GateRefuses
    <3> QED BY <2>4, <3>3, <3>5, <3>8
  <2> QED BY <2>9, <2>10
<1> QED BY <1>1, <1>2

\* An attempt answered by the script.
LEMMA RedisChecked ==
  ASSUME ThrottleInv, policy # Nothing, RunScript
  PROVE  /\ counter' \in Counters \cup {Nothing} /\ block' \in Nat /\ (counter' # Nothing => counter'.count > 0)
         /\ FromRedis \in Answers
         /\ GateRight(policy, now, Append(log["redis"], FromRedis), RedisGate')
<1>0. ThrottleTypes /\ GateRight(policy, now, log["redis"], RedisGate)
  BY DEF ThrottleInv
<1>p. policy.max \in Nat \ {0, 1} /\ policy.window \in Nat /\ policy.block \in Nat
  BY <1>0, ALimit
<1>n. now \in Nat /\ block \in Nat /\ Nothing \notin Nat /\ Nothing \notin Counters
  BY <1>0, NoNumber DEF ThrottleTypes
<1>m. counter = Nothing \/ (counter \in Counters /\ counter.ends \in Nat /\ counter.count \in Nat /\ counter.count > 0)
  BY <1>0 DEF ThrottleTypes, Counters
<1>g. RedisGate \in Gates /\ RedisGate.until = block
  BY <1>0, GatesAreGates DEF RedisGate
<1>c. block <= now + policy.block /\ (RedisGate.on => RedisGate.count <= policy.max - 1 /\ block <= now)
  BY <1>0, <1>g DEF GateRight
<1>1. CASE now < block
  <2>1. counter' = counter /\ block' = block /\ FromRedis = Answer("blocked", 0)
    BY <1>1, <1>n DEF RunScript, FromRedis, RedisPasses
  <2>2. FromRedis \in Answers /\ FromRedis.time = now /\ FromRedis.was = "blocked"
    BY <1>n, <2>1 DEF Answer, Answers
  <2>3. RedisGate' = RedisGate /\ ~RedisGate.on
    BY <1>1, <1>n, <1>c, <2>1, GatesStay
  <2>4. GateRight(policy, now, Append(log["redis"], FromRedis), RedisGate)
    BY <1>0, <1>p, <1>n, <1>g, <1>c, <2>2, <2>3, GateRefuses
  <2> QED BY <1>m, <1>n, <2>1, <2>2, <2>3, <2>4
<1>2. CASE ~(now < block)
  <2> DEFINE stays == counter # Nothing /\ now < counter.ends
             hits == IF stays THEN counter.count + 1 ELSE 1
             ends == IF stays THEN counter.ends ELSE now + policy.window
  <2>1. Hits(counter, now) = hits /\ hits \in Nat /\ hits > 0 /\ ends \in Nat /\ (hits = 1 <=> ~stays)
    BY <1>m, <1>n, <1>p DEF Hits
  <2>2. /\ counter' = IF hits >= policy.max THEN Nothing ELSE [count |-> hits, ends |-> ends]
        /\ block' = IF hits >= policy.max /\ policy.block > 0 THEN now + policy.block ELSE block
    <3>1. /\ counter' = IF Hits(counter, now) >= policy.max THEN Nothing
                        ELSE [count |-> Hits(counter, now),
                              ends |-> IF Hits(counter, now) = 1 THEN now + policy.window ELSE counter.ends]
          /\ block' = IF Hits(counter, now) >= policy.max /\ policy.block > 0 THEN now + policy.block ELSE block
      BY <1>2 DEF RunScript
    <3>2. (IF hits = 1 THEN now + policy.window ELSE counter.ends) = ends
      BY <2>1
    <3> QED BY <2>1, <3>1, <3>2
  <2>3. /\ hits = IF RedisGate.on /\ now < RedisGate.ends THEN RedisGate.count + 1 ELSE 1
        /\ ends = IF RedisGate.on /\ now < RedisGate.ends THEN RedisGate.ends ELSE now + policy.window
    BY DEF RedisGate
  <2>4. RedisPasses(counter, block, now) <=> hits < policy.max
    BY <1>2, <1>n, <2>1 DEF RedisPasses
  <2>5. now >= RedisGate.until
    BY <1>2, <1>n, <1>g
  <2>6. CASE hits < policy.max
    <3>1. FromRedis = Answer("passed", 0)
      BY <2>4, <2>6 DEF FromRedis
    <3>2. FromRedis \in Answers /\ FromRedis.time = now /\ FromRedis.was = "passed"
      BY <1>n, <3>1 DEF Answer, Answers
    <3>3. counter' = [count |-> hits, ends |-> ends] /\ block' = block
      BY <1>p, <2>1, <2>2, <2>6
    <3>4. counter' \in Counters /\ counter' # Nothing /\ counter'.count = hits /\ counter'.ends = ends
      BY <1>n, <2>1, <3>3 DEF Counters
    <3>5. RedisGate' = [on |-> TRUE, count |-> hits, ends |-> ends, until |-> block]
      BY <3>3, <3>4 DEF RedisGate
    <3>6. PICK h : h = RedisGate'
      OBVIOUS
    <3>7. h \in Gates /\ h.on /\ h.count = hits /\ h.ends = ends /\ h.until = block
      BY <1>n, <2>1, <3>5, <3>6 DEF Gates
    <3>8. h.count <= policy.max - 1 /\ h.until <= now
      BY <1>2, <1>p, <1>n, <2>1, <2>6, <3>7
    <3>9. GateRight(policy, now, Append(log["redis"], FromRedis), h)
      <4> HIDE DEF hits, ends, stays
      <4> QED BY ONLY <1>0, <1>p, <1>n, <2>3, <2>5, <3>2, <3>7, <3>8, GatePasses
    <3> QED BY <1>n, <2>1, <3>2, <3>3, <3>4, <3>6, <3>9
  <2>7. CASE ~(hits < policy.max)
    <3>1. FromRedis = Answer("limited", 0)
      BY <1>2, <2>4, <2>7 DEF FromRedis
    <3>2. FromRedis \in Answers /\ FromRedis.time = now /\ FromRedis.was = "limited"
      BY <1>n, <3>1 DEF Answer, Answers
    <3>3. counter' = Nothing /\ block' = IF policy.block > 0 THEN now + policy.block ELSE block
      BY <1>p, <2>1, <2>2, <2>7
    <3>4. block' \in Nat /\ block' <= now + policy.block /\ (block' >= now + policy.block \/ policy.block = 0)
      BY <1>p, <1>n, <1>c, <3>3
    <3>5. RedisGate' = [on |-> FALSE, count |-> 0, ends |-> 0, until |-> block']
      BY <3>3 DEF RedisGate
    <3>6. PICK h : h = RedisGate'
      OBVIOUS
    <3>7. h \in Gates /\ ~h.on /\ h.until = block'
      BY <3>4, <3>5, <3>6 DEF Gates
    <3>8. h.until <= now + policy.block /\ (h.until >= now + policy.block \/ policy.block = 0)
      BY <3>4, <3>7
    <3>9. GateRight(policy, now, Append(log["redis"], FromRedis), h)
      BY ONLY <1>0, <1>p, <1>n, <2>5, <3>2, <3>7, <3>8, GateRefuses
    <3> QED BY <3>2, <3>3, <3>4, <3>6, <3>9
  <2> QED BY <2>6, <2>7
<1> QED BY <1>1, <1>2

LEMMA ThrottleInit == LimitInit => ThrottleInv
<1> SUFFICES ASSUME LimitInit PROVE ThrottleInv
  OBVIOUS
<1>1. /\ policy \in Policies \cup {Nothing} /\ now = 0 /\ memory = Nothing /\ counter = Nothing /\ block = 0
      /\ bucket = Nothing /\ log = [b \in Backends |-> <<>>]
  BY DEF LimitInit
<1>2. <<>> \in Seq(Answers) /\ log["memory"] = <<>> /\ log["redis"] = <<>> /\ log["bytes"] = <<>>
  BY <1>1 DEF Backends
<1>3. ThrottleTypes
  BY <1>1, <1>2 DEF ThrottleTypes, Backends
<1>4. ASSUME policy # Nothing
      PROVE  /\ GateRight(policy, now, log["memory"], MemoryGate)
             /\ GateRight(policy, now, log["redis"], RedisGate)
  <2>1. MemoryGate \in Gates /\ RedisGate \in Gates
    BY <1>3, GatesAreGates
  <2>2. ~MemoryGate.on /\ MemoryGate.until = 0 /\ ~RedisGate.on /\ RedisGate.until = 0
    BY <1>1 DEF MemoryGate, RedisGate
  <2> QED BY <1>1, <1>2, <1>3, <1>4, <2>1, <2>2, ALimit, GateNew
<1>5. BucketRight(now, log["bytes"], bucket)
  BY <1>1, <1>2, BucketNew
<1> QED BY <1>1, <1>3, <1>4, <1>5 DEF ThrottleInv

LEMMA StepTick == ThrottleInv /\ Tick => ThrottleInv'
<1> SUFFICES ASSUME ThrottleInv, Tick PROVE ThrottleInv'
  OBVIOUS
<1>1. /\ now' = now + 1 /\ policy' = policy /\ memory' = memory /\ counter' = counter /\ block' = block
      /\ bucket' = bucket /\ log' = log
  BY DEF Tick
<1>2. ThrottleTypes /\ ThrottleTypes'
  BY <1>1 DEF ThrottleInv, ThrottleTypes
<1>3. now \in Nat /\ MemoryGate' = MemoryGate /\ RedisGate' = RedisGate
  BY <1>1, <1>2, GatesStay DEF ThrottleTypes
<1>4. ASSUME policy # Nothing
      PROVE  /\ GateRight(policy, now + 1, log["memory"], MemoryGate)
             /\ GateRight(policy, now + 1, log["redis"], RedisGate)
  <2>1. GateRight(policy, now, log["memory"], MemoryGate) /\ GateRight(policy, now, log["redis"], RedisGate)
    BY <1>4 DEF ThrottleInv
  <2> QED BY <1>2, <1>3, <1>4, <2>1, ALimit, GateLater
<1>5. BucketRight(now + 1, log["bytes"], bucket)
  BY <1>3, BucketLater DEF ThrottleInv
<1>6. policy # Nothing => bucket = Nothing
  BY DEF ThrottleInv
<1> QED BY <1>1, <1>2, <1>3, <1>4, <1>5, <1>6 DEF ThrottleInv

\* What an action that answers from one backend or both leaves in order.
LEMMA OneAnswers ==
  ASSUME ThrottleInv, policy # Nothing,
         policy' = policy, now' = now, bucket' = bucket, log' \in [Backends -> Seq(Answers)],
         log'["bytes"] = log["bytes"] \/ log'["bytes"] = <<>>,
         memory' \in Entries \cup {Nothing}, counter' \in Counters \cup {Nothing}, block' \in Nat,
         counter' # Nothing => counter'.count > 0,
         GateRight(policy, now, log'["memory"], MemoryGate'),
         GateRight(policy, now, log'["redis"], RedisGate')
  PROVE  ThrottleInv'
<1>1. ThrottleTypes'
  BY DEF ThrottleInv, ThrottleTypes
<1>2. bucket = Nothing /\ now \in Nat /\ BucketRight(now, log["bytes"], bucket)
  BY DEF ThrottleInv, ThrottleTypes
<1>3. BucketRight(now, log'["bytes"], bucket)
  BY <1>2, BucketNew
<1> QED BY <1>1, <1>2, <1>3 DEF ThrottleInv

LEMMA StepRedis == ThrottleInv /\ CheckRedis => ThrottleInv'
<1> SUFFICES ASSUME ThrottleInv, CheckRedis PROVE ThrottleInv'
  OBVIOUS
<1>1. /\ policy # Nothing /\ RunScript /\ log' = [log EXCEPT !["redis"] = Append(@, FromRedis)]
      /\ policy' = policy /\ now' = now /\ memory' = memory /\ bucket' = bucket
  BY DEF CheckRedis, Attempts
<1>2. /\ counter' \in Counters \cup {Nothing} /\ block' \in Nat /\ (counter' # Nothing => counter'.count > 0)
      /\ FromRedis \in Answers /\ GateRight(policy, now, Append(log["redis"], FromRedis), RedisGate')
  BY <1>1, RedisChecked
<1>3. memory \in Entries \cup {Nothing} /\ log \in [Backends -> Seq(Answers)]
  BY DEF ThrottleInv, ThrottleTypes
<1>4. /\ log' \in [Backends -> Seq(Answers)] /\ log'["redis"] = Append(log["redis"], FromRedis)
      /\ log'["memory"] = log["memory"] /\ log'["bytes"] = log["bytes"]
  <2>1. log["redis"] \in Seq(Answers) /\ Append(log["redis"], FromRedis) \in Seq(Answers)
    BY <1>2, <1>3, AppendProperties DEF Backends
  <2> QED BY <1>1, <1>3, <2>1 DEF Backends
<1>5. GateRight(policy, now, log["memory"], MemoryGate')
  BY <1>1, GatesStay DEF ThrottleInv
<1> QED BY <1>1, <1>2, <1>3, <1>4, <1>5, OneAnswers

LEMMA StepWithoutRedis == ThrottleInv /\ CheckWithoutRedis => ThrottleInv'
<1> SUFFICES ASSUME ThrottleInv, CheckWithoutRedis PROVE ThrottleInv'
  OBVIOUS
<1>1. /\ policy # Nothing /\ CheckMemory /\ log' = [log EXCEPT !["memory"] = Append(@, FromMemory)]
      /\ policy' = policy /\ now' = now /\ counter' = counter /\ block' = block /\ bucket' = bucket
  BY DEF CheckWithoutRedis, Attempts
<1>2. /\ memory' \in Entries /\ FromMemory \in Answers
      /\ GateRight(policy, now, Append(log["memory"], FromMemory), MemoryGate')
  BY <1>1, MemoryChecked
<1>3. /\ counter \in Counters \cup {Nothing} /\ block \in Nat /\ (counter # Nothing => counter.count > 0)
      /\ log \in [Backends -> Seq(Answers)]
  BY DEF ThrottleInv, ThrottleTypes
<1>4. /\ log' \in [Backends -> Seq(Answers)] /\ log'["memory"] = Append(log["memory"], FromMemory)
      /\ log'["redis"] = log["redis"] /\ log'["bytes"] = log["bytes"]
  <2>1. log["memory"] \in Seq(Answers) /\ Append(log["memory"], FromMemory) \in Seq(Answers)
    BY <1>2, <1>3, AppendProperties DEF Backends
  <2> QED BY <1>1, <1>3, <2>1 DEF Backends
<1>5. GateRight(policy, now, log["redis"], RedisGate')
  BY <1>1, GatesStay DEF ThrottleInv
<1> QED BY <1>1, <1>2, <1>3, <1>4, <1>5, OneAnswers

LEMMA StepFallsBack == ThrottleInv /\ CheckFallsBack => ThrottleInv'
<1> SUFFICES ASSUME ThrottleInv, CheckFallsBack PROVE ThrottleInv'
  OBVIOUS
<1>1. policy # Nothing /\ CheckMemory /\ policy' = policy /\ now' = now /\ bucket' = bucket
  BY DEF CheckFallsBack, Attempts
<1>2. /\ memory' \in Entries /\ FromMemory \in Answers
      /\ GateRight(policy, now, Append(log["memory"], FromMemory), MemoryGate')
  BY <1>1, MemoryChecked
<1>3. /\ counter \in Counters \cup {Nothing} /\ block \in Nat /\ (counter # Nothing => counter.count > 0)
      /\ log \in [Backends -> Seq(Answers)]
  BY DEF ThrottleInv, ThrottleTypes
<1>m. log["memory"] \in Seq(Answers) /\ Append(log["memory"], FromMemory) \in Seq(Answers)
  BY <1>2, <1>3, AppendProperties DEF Backends
<1>4. CASE /\ RunScript
           /\ log' = [log EXCEPT !["memory"] = Append(@, FromMemory), !["redis"] = Append(@, FromRedis)]
  <2>1. /\ counter' \in Counters \cup {Nothing} /\ block' \in Nat /\ (counter' # Nothing => counter'.count > 0)
        /\ FromRedis \in Answers /\ GateRight(policy, now, Append(log["redis"], FromRedis), RedisGate')
    BY <1>1, <1>4, RedisChecked
  <2>2. log["redis"] \in Seq(Answers) /\ Append(log["redis"], FromRedis) \in Seq(Answers)
    BY <1>3, <2>1, AppendProperties DEF Backends
  <2>3. /\ log' \in [Backends -> Seq(Answers)] /\ log'["memory"] = Append(log["memory"], FromMemory)
        /\ log'["redis"] = Append(log["redis"], FromRedis) /\ log'["bytes"] = log["bytes"]
    BY <1>m, <1>3, <1>4, <2>2 DEF Backends
  <2> QED BY <1>1, <1>2, <2>1, <2>3, OneAnswers
<1>5. CASE counter' = counter /\ block' = block /\ log' = [log EXCEPT !["memory"] = Append(@, FromMemory)]
  <2>1. GateRight(policy, now, log["redis"], RedisGate')
    BY <1>1, <1>5, GatesStay DEF ThrottleInv
  <2>2. /\ log' \in [Backends -> Seq(Answers)] /\ log'["memory"] = Append(log["memory"], FromMemory)
        /\ log'["redis"] = log["redis"] /\ log'["bytes"] = log["bytes"]
    BY <1>m, <1>3, <1>5 DEF Backends
  <2> QED BY <1>1, <1>2, <1>3, <1>5, <2>1, <2>2, OneAnswers
<1> QED BY <1>4, <1>5 DEF CheckFallsBack

\* With nothing behind it, memory is right in an empty log.
LEMMA MemoryNew ==
  ASSUME ThrottleInv, policy # Nothing, memory' = Nothing
  PROVE  GateRight(policy, now, <<>>, MemoryGate')
<1>1. MemoryGate' = [on |-> FALSE, count |-> 0, ends |-> 0, until |-> 0]
  BY DEF MemoryGate
<1>2. MemoryGate' \in Gates
  BY <1>1 DEF Gates
<1>3. ~MemoryGate'.on /\ MemoryGate'.until = 0
  BY <1>1
<1> QED BY <1>2, <1>3, ALimit, GateNew DEF ThrottleInv, ThrottleTypes

LEMMA StepReset == ThrottleInv /\ ResetKey => ThrottleInv'
<1> SUFFICES ASSUME ThrottleInv, ResetKey PROVE ThrottleInv'
  OBVIOUS
<1>1. policy # Nothing /\ memory' = Nothing /\ policy' = policy /\ now' = now /\ bucket' = bucket
  BY DEF ResetKey
<1>2. /\ counter \in Counters \cup {Nothing} /\ block \in Nat /\ (counter # Nothing => counter.count > 0)
      /\ log \in [Backends -> Seq(Answers)] /\ ThrottleTypes /\ now \in Nat
  BY DEF ThrottleInv, ThrottleTypes
<1>3. GateRight(policy, now, <<>>, MemoryGate') /\ <<>> \in Seq(Answers)
  BY <1>1, MemoryNew
<1>4. CASE counter' = Nothing /\ block' = 0 /\ log' = [b \in Backends |-> <<>>]
  <2>1. RedisGate' = [on |-> FALSE, count |-> 0, ends |-> 0, until |-> 0]
    BY <1>4 DEF RedisGate
  <2>2. RedisGate' \in Gates
    BY <2>1 DEF Gates
  <2>3. ~RedisGate'.on /\ RedisGate'.until = 0
    BY <2>1
  <2>4. GateRight(policy, now, <<>>, RedisGate')
    BY <1>1, <1>2, <2>2, <2>3, ALimit, GateNew
  <2>5. /\ log' \in [Backends -> Seq(Answers)] /\ log'["memory"] = <<>>
        /\ log'["redis"] = <<>> /\ log'["bytes"] = <<>>
    BY <1>3, <1>4 DEF Backends
  <2> QED BY <1>1, <1>3, <1>4, <2>4, <2>5, OneAnswers
<1>5. CASE counter' = counter /\ block' = block /\ log' = [log EXCEPT !["memory"] = <<>>]
  <2>1. GateRight(policy, now, log["redis"], RedisGate')
    BY <1>1, <1>5, GatesStay DEF ThrottleInv
  <2>2. /\ log' \in [Backends -> Seq(Answers)] /\ log'["memory"] = <<>>
        /\ log'["redis"] = log["redis"] /\ log'["bytes"] = log["bytes"]
    BY <1>2, <1>3, <1>5 DEF Backends
  <2> QED BY <1>1, <1>2, <1>3, <1>5, <2>1, <2>2, OneAnswers
<1> QED BY <1>4, <1>5 DEF ResetKey

LEMMA StepRestart == ThrottleInv /\ Restart => ThrottleInv'
<1> SUFFICES ASSUME ThrottleInv, Restart PROVE ThrottleInv'
  OBVIOUS
<1>1. /\ policy # Nothing /\ memory' = Nothing /\ policy' = policy /\ now' = now /\ bucket' = bucket
      /\ counter' = counter /\ block' = block /\ log' = [log EXCEPT !["memory"] = <<>>]
  BY DEF Restart
<1>2. /\ counter \in Counters \cup {Nothing} /\ block \in Nat /\ (counter # Nothing => counter.count > 0)
      /\ log \in [Backends -> Seq(Answers)]
  BY DEF ThrottleInv, ThrottleTypes
<1>3. GateRight(policy, now, <<>>, MemoryGate') /\ <<>> \in Seq(Answers)
  BY <1>1, MemoryNew
<1>4. GateRight(policy, now, log["redis"], RedisGate')
  BY <1>1, GatesStay DEF ThrottleInv
<1>5. /\ log' \in [Backends -> Seq(Answers)] /\ log'["memory"] = <<>>
      /\ log'["redis"] = log["redis"] /\ log'["bytes"] = log["bytes"]
  BY <1>1, <1>2, <1>3 DEF Backends
<1> QED BY <1>1, <1>2, <1>3, <1>4, <1>5, OneAnswers

LEMMA StepCleanup == ThrottleInv /\ CleanupExpired => ThrottleInv'
<1> SUFFICES ASSUME ThrottleInv, CleanupExpired PROVE ThrottleInv'
  OBVIOUS
<1>1. /\ memory # Nothing /\ Expired(memory) /\ memory' = Nothing
      /\ policy' = policy /\ now' = now /\ bucket' = bucket /\ counter' = counter /\ block' = block /\ log' = log
  BY DEF CleanupExpired
<1>2. ThrottleTypes /\ ThrottleTypes' /\ now \in Nat /\ memory \in Entries
  BY <1>1 DEF ThrottleInv, ThrottleTypes
<1>3. RedisGate' = RedisGate
  BY <1>1, GatesStay
<1>4. ASSUME policy # Nothing PROVE GateRight(policy, now, log["memory"], MemoryGate')
  <2>1. MemoryGate' = [on |-> FALSE, count |-> 0, ends |-> 0, until |-> 0]
    BY <1>1 DEF MemoryGate
  <2>2. MemoryGate' \in Gates
    BY <2>1 DEF Gates
  <2>3. ~MemoryGate'.on /\ MemoryGate'.until = 0
    BY <2>1
  <2>4. memory.ends \in Nat /\ memory.until \in Nat \cup {Nothing} /\ Nothing \notin Nat
    BY <1>2, NoNumber DEF Entries
  <2>5. now >= memory.ends /\ (memory.until # Nothing => now >= memory.until)
    BY <1>1, <1>2, <2>4 DEF Expired, Blocked
  <2>6. (MemoryGate.on => now >= MemoryGate.ends) /\ now >= MemoryGate.until
    BY <1>1, <1>2, <2>5 DEF MemoryGate
  <2>7. GateRight(policy, now, log["memory"], MemoryGate)
    BY <1>4 DEF ThrottleInv
  <2>8. MemoryGate \in Gates /\ policy.max \in Nat \ {0, 1} /\ policy.window \in Nat /\ policy.block \in Nat
    BY <1>2, <1>4, GatesAreGates, ALimit
  <2> QED BY <1>2, <2>2, <2>3, <2>6, <2>7, <2>8, GateLapses
<1> QED BY <1>1, <1>2, <1>3, <1>4 DEF ThrottleInv

LEMMA StepPublish == ThrottleInv /\ PublishConnection => ThrottleInv'
BY GatesStay DEF PublishConnection, ThrottleInv, ThrottleTypes

\* What a range is charged is a number.
LEMMA ACharge == ASSUME NEW r \in Ranges PROVE RangeCharge(r) \in Nat
<1>1. r # Nothing => r.first \in Nat \cup {Nothing} /\ r.last \in Nat \cup {Nothing}
  BY ThrottleAssumption
<1>2. \A m, n \in Nat : Min({m, n}) \in Nat /\ Max({m, n}) \in Nat
  <2>1. SUFFICES ASSUME NEW m \in Nat, NEW n \in Nat PROVE Min({m, n}) \in Nat /\ Max({m, n}) \in Nat
    OBVIOUS
  <2>2. \E x \in {m, n} : \A y \in {m, n} : x <= y
    <3>1. CASE m <= n
      BY <3>1
    <3>2. CASE n <= m
      BY <3>2
    <3> QED BY <3>1, <3>2
  <2>3. \E x \in {m, n} : \A y \in {m, n} : x >= y
    <3>1. CASE m <= n
      BY <3>1
    <3>2. CASE n <= m
      BY <3>2
    <3> QED BY <3>1, <3>2
  <2>4. Min({m, n}) \in {m, n}
    BY <2>2 DEF Min
  <2>5. Max({m, n}) \in {m, n}
    BY <2>3 DEF Max
  <2> QED BY <2>4, <2>5
<1>3. {MinCharge, MaxCharge, OpenCharge, NoRangeCharge} \subseteq Nat
  BY ThrottleAssumption
<1>4. \A n \in Nat : Clamped(n) \in Nat
  BY <1>2, <1>3 DEF Clamped
<1>5. r # Nothing /\ r.first # Nothing /\ r.last # Nothing => (IF r.last > r.first THEN r.last - r.first ELSE 0) \in Nat
  BY <1>1
<1> QED BY <1>3, <1>4, <1>5 DEF RangeCharge

LEMMA StepBandwidth == ThrottleInv /\ CheckBandwidth => ThrottleInv'
<1> SUFFICES ASSUME ThrottleInv, CheckBandwidth PROVE ThrottleInv'
  OBVIOUS
<1>1. /\ policy = Nothing /\ policy' = policy /\ now' = now /\ memory' = memory /\ counter' = counter /\ block' = block
  BY DEF CheckBandwidth
<1>2. PICK r \in Ranges :
        LET b == Refilled(Kept(bucket))
            charged == b.bytes + RangeCharge(r)
            ok == charged <= MaxBytes
        IN /\ bucket' = IF ok THEN [b EXCEPT !.bytes = charged] ELSE b
           /\ log' = [log EXCEPT !["bytes"] = Append(@, Answer(IF ok THEN "passed" ELSE "limited", RangeCharge(r)))]
  BY DEF CheckBandwidth
<1>3. /\ now \in Nat /\ log \in [Backends -> Seq(Answers)] /\ bucket \in Buckets \cup {Nothing}
      /\ bucket # Nothing => bucket.bytes <= MaxBytes
      /\ MaxBytes \in Nat /\ ByteWindow \in Nat /\ Nothing \notin Buckets
  BY ThrottleAssumption DEF ThrottleInv, ThrottleTypes, BucketRight
<1>4. PICK charge : charge = RangeCharge(r)
  OBVIOUS
<1>5. charge \in Nat
  BY <1>4, ACharge
<1>6. PICK b : b = Refilled(Kept(bucket))
  OBVIOUS
<1>7. /\ b \in Buckets /\ b.bytes \in Nat /\ b.bytes <= MaxBytes
      /\ bucket = Nothing \/ now >= bucket.ends => b.bytes = 0 /\ b.ends = now + ByteWindow
      /\ bucket # Nothing /\ now < bucket.ends => b.bytes = bucket.bytes /\ b.ends = bucket.ends
  <2>1. bucket # Nothing => bucket.bytes \in Nat /\ bucket.ends \in Nat
    BY <1>3 DEF Buckets
  <2>2. CASE bucket = Nothing \/ now >= bucket.ends
    <3>1. Kept(bucket) = Nothing \/ (bucket # Nothing /\ Kept(bucket) = bucket /\ now >= bucket.ends)
      BY <2>2 DEF Kept
    <3>2. b = [bytes |-> 0, ends |-> now + ByteWindow]
      BY <1>6, <3>1 DEF Refilled
    <3>3. b \in Buckets
      BY <1>3, <3>2 DEF Buckets
    <3> QED BY <1>3, <2>1, <2>2, <3>2, <3>3
  <2>3. CASE bucket # Nothing /\ now < bucket.ends
    <3>1. ~(now >= bucket.ends)
      BY <1>3, <2>1, <2>3
    <3>2. Kept(bucket) = bucket
      BY <3>1 DEF Kept
    <3>3. b = bucket
      BY <1>6, <2>3, <3>1, <3>2 DEF Refilled
    <3> QED BY <1>3, <2>1, <2>3, <3>1, <3>3
  <2> QED BY <1>3, <2>1, <2>2, <2>3
<1>8. /\ bucket' = IF b.bytes + charge <= MaxBytes THEN [b EXCEPT !.bytes = b.bytes + charge] ELSE b
      /\ log' = [log EXCEPT !["bytes"] = Append(@, Answer(IF b.bytes + charge <= MaxBytes THEN "passed" ELSE "limited", charge))]
  BY <1>2, <1>4, <1>6
<1>9. PICK a : a = Answer(IF b.bytes + charge <= MaxBytes THEN "passed" ELSE "limited", charge)
  OBVIOUS
<1>10. /\ a \in Answers /\ a.time = now /\ a.bytes = charge
       /\ a.was = IF b.bytes + charge <= MaxBytes THEN "passed" ELSE "limited"
  BY <1>3, <1>5, <1>9 DEF Answer, Answers
<1>11. PICK n : n = IF a.was = "passed" THEN a.bytes ELSE 0
  OBVIOUS
<1>12. n \in Nat
  BY <1>5, <1>10, <1>11
<1>13. PICK c : c = bucket'
  OBVIOUS
<1>14. c \in Buckets /\ c.bytes = b.bytes + n /\ c.ends = b.ends /\ c.bytes <= MaxBytes
  <2>1. b = [bytes |-> b.bytes, ends |-> b.ends]
    BY <1>7 DEF Buckets
  <2>2. CASE b.bytes + charge <= MaxBytes
    <3>1. c = [bytes |-> b.bytes + charge, ends |-> b.ends]
      BY <1>8, <1>13, <2>1, <2>2
    <3>2. c \in Buckets
      BY <1>5, <1>7, <3>1 DEF Buckets
    <3> QED BY <1>10, <1>11, <2>2, <3>1, <3>2
  <2>3. CASE ~(b.bytes + charge <= MaxBytes)
    BY <1>7, <1>8, <1>10, <1>11, <1>13, <2>3
  <2> QED BY <2>2, <2>3
<1>15. /\ bucket = Nothing \/ now >= bucket.ends => c.bytes = n /\ c.ends = now + ByteWindow
       /\ bucket # Nothing /\ now < bucket.ends => c.bytes = bucket.bytes + n /\ c.ends = bucket.ends
  BY <1>7, <1>12, <1>14
<1>16. BucketRight(now, Append(log["bytes"], a), c)
  <2>1. BucketRight(now, log["bytes"], bucket)
    BY DEF ThrottleInv
  <2> QED BY ONLY <1>3, <1>10, <1>11, <1>12, <1>14, <1>15, <2>1, BucketChecks
<1>17. log' \in [Backends -> Seq(Answers)] /\ log'["bytes"] = Append(log["bytes"], a)
  <2>1. log["bytes"] \in Seq(Answers) /\ Append(log["bytes"], a) \in Seq(Answers)
    BY <1>3, <1>10, AppendProperties DEF Backends
  <2> QED BY <1>3, <1>8, <1>9, <2>1 DEF Backends
<1>18. ThrottleTypes'
  BY <1>1, <1>17 DEF ThrottleInv, ThrottleTypes
<1> QED BY <1>1, <1>13, <1>16, <1>17, <1>18 DEF ThrottleInv

\* A step of the limits keeps them right.
LEMMA ThrottleStep == ThrottleInv /\ [LimitNext]_limitVars => ThrottleInv'
<1> SUFFICES ASSUME ThrottleInv, [LimitNext]_limitVars PROVE ThrottleInv'
  OBVIOUS
<1>1. CASE UNCHANGED limitVars
  BY <1>1, GatesStay DEF limitVars, ThrottleInv, ThrottleTypes
<1>2. CASE LimitNext
  BY <1>2, StepTick, StepRedis, StepFallsBack, StepWithoutRedis, StepReset, StepCleanup, StepPublish, StepRestart,
     StepBandwidth DEF LimitNext
<1> QED BY <1>1, <1>2

\* What the invariant says of a backend.
LEMMA BackendThrottled ==
  ASSUME NEW p, p.max \in Nat \ {0, 1}, p.window \in Nat, p.block \in Nat, NEW time \in Nat, NEW s, NEW g,
         GateRight(p, time, s, g)
  PROVE  /\ \A t \in Nat : Cardinality(PassedIn(s, t, p.window)) <= (p.max - 1) * (2 + Cardinality(RefusedIn(s, t, p.window)))
         /\ \A j, k \in DOMAIN s : j < k /\ s[j].was = "limited" /\ s[k].was = "passed" => s[k].time >= s[j].time + p.block
<1>1. s \in Seq(Answers) /\ Metered(p, time, s, g) /\ Waits(p, time, s, g)
  BY DEF GateRight
<1>2. ASSUME NEW t \in Nat
      PROVE  Cardinality(PassedIn(s, t, p.window)) <= (p.max - 1) * (2 + Cardinality(RefusedIn(s, t, p.window)))
  <2>1. PICK P \in Nat : P = Cardinality(PassedIn(s, t, p.window))
    BY <1>1, FewAnswers
  <2>2. PICK R \in Nat : R = Cardinality(RefusedIn(s, t, p.window))
    BY <1>1, FewAnswers
  <2>3. Fits(p, time, t, P, R, g)
    BY <1>1, <2>1, <2>2 DEF Metered
  <2>4. PICK m \in Nat : m = p.max - 1
    OBVIOUS
  <2>5. P <= m * (1 + R) + m
    BY <2>3, <2>4 DEF Fits
  <2>6. m * (1 + R) + m = m * (2 + R)
    <3>1. (1 + R) + 1 = 2 + R /\ 1 + R \in Nat
      OBVIOUS
    <3>2. m * ((1 + R) + 1) = m * (1 + R) + m
      BY <3>1, Times
    <3> QED BY <3>1, <3>2
  <2> QED BY <2>1, <2>2, <2>4, <2>5, <2>6
<1> QED BY <1>1, <1>2 DEF Waits

LEMMA Throttles == ThrottleInv => Throttled
<1> SUFFICES ASSUME ThrottleInv PROVE Throttled
  OBVIOUS
<1>n. ThrottleTypes /\ now \in Nat /\ Nothing \notin Nat
  BY NoNumber DEF ThrottleInv, ThrottleTypes
<1>1. AttemptsThrottled
  <2> SUFFICES ASSUME policy # Nothing PROVE AttemptsThrottled
    BY DEF AttemptsThrottled
  <2>p. policy.max \in Nat \ {0, 1} /\ policy.window \in Nat /\ policy.block \in Nat
    BY <1>n, ALimit
  <2>m. GateRight(policy, now, log["memory"], MemoryGate)
    BY DEF ThrottleInv
  <2>r. GateRight(policy, now, log["redis"], RedisGate)
    BY DEF ThrottleInv
  <2> DEFINE later == now + policy.window + policy.block
  <2>1. MemoryPasses(memory, later)
    <3>1. CASE memory = Nothing
      <4>1. ~MemoryRefuses(memory, later)
        BY <3>1 DEF MemoryRefuses
      <4>2. Counted(memory, later).until = Nothing
        BY <2>p, <3>1 DEF Counted, Fresh
      <4> QED BY <4>1, <4>2 DEF MemoryPasses
    <3>2. CASE memory # Nothing
      <4>0. memory \in Entries /\ memory.ends \in Nat /\ memory.until \in Nat \cup {Nothing}
        BY <1>n, <3>2 DEF ThrottleTypes, Entries
      <4>1. memory.until # Nothing => MemoryGate.until = memory.until
        BY <3>2 DEF MemoryGate
      <4>2. memory.until = Nothing => MemoryGate.on /\ MemoryGate.ends = memory.ends
        BY <3>2 DEF MemoryGate
      <4>3. /\ MemoryGate.until <= now + policy.block
            /\ MemoryGate.on => MemoryGate.ends <= now + policy.window
        BY <2>m DEF GateRight
      <4>4. memory.until # Nothing => later >= memory.until
        BY <1>n, <2>p, <4>0, <4>1, <4>3
      <4>5. memory.until = Nothing => later >= memory.ends
        BY <1>n, <2>p, <4>0, <4>2, <4>3
      <4>6. ~MemoryRefuses(memory, later)
        BY <1>n, <2>p, <4>0, <4>4 DEF MemoryRefuses, Blocked
      <4>7. Counted(memory, later).until = Nothing
        BY <2>p, <4>5 DEF Counted, Fresh
      <4> QED BY <4>6, <4>7 DEF MemoryPasses
    <3> QED BY <3>1, <3>2
  <2>2. RedisPasses(counter, block, later)
    <3>1. block \in Nat /\ counter \in Counters \cup {Nothing} /\ RedisGate.until = block
      BY <1>n DEF ThrottleTypes, RedisGate
    <3>2. block <= now + policy.block
      BY <2>r, <3>1 DEF GateRight
    <3>3. later >= block
      BY <1>n, <2>p, <3>1, <3>2
    <3>4. counter # Nothing => counter.ends \in Nat /\ RedisGate.on /\ RedisGate.ends = counter.ends
      BY <3>1 DEF RedisGate, Counters
    <3>5. counter # Nothing => later >= counter.ends
      BY <1>n, <2>p, <2>r, <3>4 DEF GateRight
    <3>6. Hits(counter, later) = 1
      BY <1>n, <2>p, <3>4, <3>5 DEF Hits
    <3> QED BY <2>p, <3>3, <3>6 DEF RedisPasses
  <2>3. ASSUME NEW b \in {"memory", "redis"}
        PROVE  /\ \A t \in Nat : Cardinality(PassedIn(log[b], t, policy.window))
                                   <= (policy.max - 1) * (2 + Cardinality(RefusedIn(log[b], t, policy.window)))
               /\ \A j, k \in DOMAIN log[b] : j < k /\ log[b][j].was = "limited" /\ log[b][k].was = "passed"
                                            => log[b][k].time >= log[b][j].time + policy.block
    BY <1>n, <2>p, <2>m, <2>r, BackendThrottled
  <2>4. \A b \in {"memory", "redis"} : IF b = "memory" THEN MemoryPasses(memory, later) ELSE RedisPasses(counter, block, later)
    BY <2>1, <2>2
  <2>5. 0..now \subseteq Nat
    BY <1>n
  <2>6. ASSUME NEW b \in {"memory", "redis"}, NEW t \in 0..now
        PROVE  Cardinality({k \in Within(log[b], t, policy.window) : log[b][k].was = "passed"})
                 <= (policy.max - 1) * (2 + Cardinality(Within(log[b], t, policy.window)
                                             \ {k \in Within(log[b], t, policy.window) : log[b][k].was = "passed"}))
    BY <2>3, <2>5, <2>6 DEF PassedIn, RefusedIn
  <2> QED BY <2>3, <2>4, <2>6 DEF AttemptsThrottled
<1>2. BytesThrottled
  <2>1. ASSUME NEW t \in 0..now PROVE Cardinality(ChargedIn(log["bytes"], t, ByteWindow)) <= 2 * MaxBytes
    BY <1>n, <2>1 DEF ThrottleInv, BucketRight, Tallied, Allows
  <2> QED BY <2>1 DEF BytesThrottled, ChargedIn, PassedIn
<1> QED BY <1>1, <1>2 DEF Throttled

\* By each backend, what passes in a window is bounded, a refusal at the limit lasts for its
\* block, and an attempt after both passes; and the bytes charged in a window are bounded
\* (middleware/rate_limit.rs check_redis and check_memory, upload_bandwidth.rs check).
THEOREM LimitsHold == LimitSpec => []Throttled
<1>1. LimitInit => ThrottleInv
  BY ThrottleInit
<1>2. ThrottleInv /\ [LimitNext]_limitVars => ThrottleInv'
  BY ThrottleStep
<1>3. ThrottleInv => Throttled
  BY Throttles
<1> QED BY <1>1, <1>2, <1>3, PTL DEF LimitSpec
=============================================================================
