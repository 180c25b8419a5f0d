------------------------ MODULE TranscodeQueueProofs ------------------------
(***************************************************************************)
(* What TLAPS proves of TranscodeQueue, for every number of instances,     *)
(* videos, resolutions, admins and faults; and that it implements          *)
(* TranscodeJobs where no variant is deleted.                              *)
(***************************************************************************)
EXTENDS TranscodeQueue, FiniteSetTheorems, TLAPS

\* The typing of every variable, with that of the locals the program counters make live.
TypeInv == TypeOK /\ Held

USE DEF Status, WorkerPC, AdminPC, Holding

LEMMA InitTyped == Init => TypeInv
BY BoundAssumption DEF Init, TypeInv, TypeOK, Held

\* Stuttering steps preserve the typing.
LEMMA StutterTyped == TypeInv /\ UNCHANGED vars => TypeInv'
BY DEF TypeInv, TypeOK, Held, vars, rowVars, mediaVars, workerVars, retryVars, adminVars, boundVars

\* Appending a task to the queue of an instance keeps the queues typed.
LEMMA EnqueueTyped ==
    ASSUME queue \in [Instance -> Seq(Task)], NEW i \in Instance, NEW t \in Task, Enqueue(i, t)
    PROVE  queue' \in [Instance -> Seq(Task)]
BY DEF Enqueue

\* Dropping the bookkeeping of the worker's task keeps it typed.
LEMMA ForgetTyped ==
    ASSUME retries \in [Instance -> [Job -> 0 .. MaxAttempts - 1]],
           waiting \in [Instance -> SUBSET Job],
           NEW i \in Instance, Forget(i)
    PROVE  /\ retries' \in [Instance -> [Job -> 0 .. MaxAttempts - 1]]
           /\ waiting' \in [Instance -> SUBSET Job]
<1>1. 0 \in 0 .. MaxAttempts - 1
  BY BoundAssumption
<1>2. [retries[i] EXCEPT ![task[i].id] = 0] \in [Job -> 0 .. MaxAttempts - 1]
  BY <1>1
<1>3. retries' = [retries EXCEPT ![i] = [retries[i] EXCEPT ![task[i].id] = 0]]
  BY DEF Forget
<1> QED
  BY <1>2, <1>3 DEF Forget

\* Every step of the start-up recovery preserves the typing.
LEMMA RecoveryTyped ==
    ASSUME TypeInv, NEW i \in Instance, Recovery(i)
    PROVE  TypeInv'
<1> USE BoundAssumption DEF TypeInv, TypeOK, Held, rowVars, mediaVars, workerVars, retryVars, adminVars, boundVars,
            Goto, SetStatus, DbError
<1>1. CASE RecoverReset(i)
  BY <1>1 DEF RecoverReset
<1>2. CASE RecoverLoad(i)
  <2>1. RecoveredTasks \subseteq Task
    BY DEF RecoveredTasks
  <2>2. found' \in [Instance -> SUBSET Task]
    BY <1>2, <2>1 DEF RecoverLoad
  <2>4. dbErrors' \in 0 .. MaxDbErrors
    BY <1>2 DEF RecoverLoad
  <2>3. pc' \in [Instance -> WorkerPC] /\ pc'[i] \notin Holding
    BY <1>2 DEF RecoverLoad
  <2> QED
    BY <1>2, <2>2, <2>3, <2>4 DEF RecoverLoad
<1>3. CASE RecoverPush(i)
  <2>1. PICK t \in found[i] :
           /\ IF t.video \in input THEN Enqueue(i, t) ELSE UNCHANGED queue
           /\ found' = [found EXCEPT ![i] = @ \ {t}]
           /\ Goto(i, IF found[i] = {t} THEN "sleep" ELSE "push")
    BY <1>3 DEF RecoverPush
  <2>2. t \in Task
    OBVIOUS
  <2>3. queue' \in [Instance -> Seq(Task)]
    <3>1. CASE Enqueue(i, t)
      BY <2>2, <3>1, EnqueueTyped
    <3>2. CASE UNCHANGED queue
      BY <3>2
    <3> QED
      BY <2>1, <3>1, <3>2
  <2>4. found' \in [Instance -> SUBSET Task]
    BY <2>1
  <2>5. pc' \in [Instance -> WorkerPC] /\ pc'[i] \notin Holding
    BY <2>1
  <2> QED
    BY <1>3, <2>1, <2>3, <2>4, <2>5 DEF RecoverPush
<1> QED
  BY <1>1, <1>2, <1>3 DEF Recovery

\* Every step of the worker loop outside run_task preserves the typing.
LEMMA LoopTyped ==
    ASSUME TypeInv, NEW i \in Instance,
           Wake(i) \/ Drained(i) \/ Take(i) \/ PutBack(i)
    PROVE  TypeInv'
<1> USE BoundAssumption
    DEF TypeInv, TypeOK, Held, rowVars, mediaVars, workerVars, retryVars, adminVars, boundVars, Goto
<1>1. CASE Wake(i)
  BY <1>1 DEF Wake
<1>2. CASE Drained(i)
  BY <1>2 DEF Drained
<1>3. CASE Take(i)
  <2>1. Head(queue[i]) \in Task /\ Tail(queue[i]) \in Seq(Task)
    BY <1>3 DEF Take
  <2>2. task' \in [Instance -> Task \cup {None}] /\ task'[i] \in Task
    BY <1>3, <2>1 DEF Take
  <2>3. queue' \in [Instance -> Seq(Task)]
    BY <1>3, <2>1 DEF Take
  <2>4. \A k \in Instance : pc'[k] \in Holding => task'[k] \in Task
    BY <1>3, <2>1 DEF Take
  <2> QED
    BY <1>3, <2>2, <2>3, <2>4 DEF Take
<1>4. CASE PutBack(i)
  <2>1. task[i] \in Task
    BY <1>4 DEF PutBack
  <2>2. <<task[i]>> \o queue[i] \in Seq(Task)
    BY <2>1
  <2>3. queue' \in [Instance -> Seq(Task)]
    BY <1>4, <2>2 DEF PutBack
  <2> QED
    BY <1>4, <2>3 DEF PutBack
<1> QED
  BY <1>1, <1>2, <1>3, <1>4

\* Every step of run_task preserves the typing.
LEMMA AttemptTyped ==
    ASSUME TypeInv, NEW i \in Instance, Attempt(i)
    PROVE  TypeInv'
<1> USE BoundAssumption
    DEF TypeInv, TypeOK, Held, rowVars, mediaVars, workerVars, retryVars, adminVars, boundVars,
        Goto, SetStatus, DbError
<1>1. pc[i] \in Holding => task[i] \in Task /\ task[i].id \in Job /\ task[i].video \in Video
                                /\ task[i].res \subseteq Resolution
  BY DEF Task
<1>2. \A R \in SUBSET Resolution : pc[i] \in Holding => RowsOf(task[i].video, R) \subseteq Job
  BY <1>1 DEF RowsOf, Job
<1>3. CASE ReadPending(i)
  <2>1. PendingOf(i) \subseteq Resolution
    BY <1>1, <1>3 DEF ReadPending, PendingOf
  <2>2. CASE PendingOf(i) = {}
    <3>1. Forget(i) /\ EndRun(i)
      BY <1>3, <2>2 DEF ReadPending
    <3>2. /\ retries' \in [Instance -> [Job -> 0 .. MaxAttempts - 1]]
          /\ waiting' \in [Instance -> SUBSET Job]
      BY <3>1, ForgetTyped
    <3> QED
      BY <1>3, <3>1, <3>2 DEF ReadPending, EndRun
  <2>3. CASE PendingOf(i) # {}
    <3>1. todo' \in [Instance -> SUBSET Resolution]
      BY <1>3, <2>1, <2>3 DEF ReadPending
    <3> QED
      BY <1>3, <2>3, <3>1 DEF ReadPending
  <2> QED
    BY <2>2, <2>3
<1>4. CASE ReadPendingFails(i)
  BY <1>4 DEF ReadPendingFails
<1>5. CASE MarkProcessing(i)
  <2>1. status' \in [Job -> Status] /\ stale' \subseteq Job
    BY <1>5 DEF MarkProcessing
  <2>2. dbErrors' \in 0 .. MaxDbErrors
    BY <1>5 DEF MarkProcessing
  <2>3. pc' \in [Instance -> WorkerPC] /\ \A k \in Instance : k # i => pc'[k] = pc[k]
    BY <1>5 DEF MarkProcessing
  <2>4. pc[i] \in Holding
    BY <1>5 DEF MarkProcessing
  <2> QED
    BY <1>1, <1>5, <2>1, <2>2, <2>3, <2>4 DEF MarkProcessing
<1>6. CASE StartTranscode(i)
  BY <1>6 DEF StartTranscode
<1>7. CASE TranscodeOk(i)
  <2>1. file' \subseteq Job
    BY <1>2, <1>7 DEF TranscodeOk
  <2> QED
    BY <1>7, <2>1 DEF TranscodeOk
<1>8. CASE TranscodeFails(i)
  <2>1. file' \subseteq Job
    BY <1>2, <1>8 DEF TranscodeFails
  <2> QED
    BY <1>1, <1>8, <2>1 DEF TranscodeFails
<1>9. CASE UpsertVariant(i)
  <2>1. variant' \subseteq Job
    BY <1>1, <1>9 DEF UpsertVariant, Job
  <2>2. left' \in [Instance -> SUBSET Resolution]
    BY <1>9 DEF UpsertVariant
  <2> QED
    BY <1>9, <2>1, <2>2 DEF UpsertVariant
<1>10. CASE SetFlag(i)
  BY <1>1, <1>10 DEF SetFlag
<1>11. CASE CompleteJobs(i)
  <2>1. status' \in [Job -> Status]
    BY <1>11 DEF CompleteJobs
  <2>2. /\ retries' \in [Instance -> [Job -> 0 .. MaxAttempts - 1]]
        /\ waiting' \in [Instance -> SUBSET Job]
    BY <1>11, ForgetTyped DEF CompleteJobs
  <2> QED
    BY <1>11, <2>1, <2>2 DEF CompleteJobs, EndRun
<1>12. CASE PersistFails(i)
  <2>1. left' \in [Instance -> SUBSET Resolution]
    BY <1>1, <1>12 DEF PersistFails
  <2> QED
    BY <1>12, <2>1 DEF PersistFails
<1>13. CASE ResetJobs(i)
  <2>1. status' \in [Job -> Status]
    BY <1>13 DEF ResetJobs
  <2> QED
    BY <1>13, <2>1 DEF ResetJobs
<1>14. CASE ScheduleRetry(i)
  <2> DEFINE id == task[i].id
             attempts == [retries[i] EXCEPT ![id] = @ + 1]
  <2>1. task[i] \in Task /\ id \in Job
    BY <1>1, <1>14 DEF ScheduleRetry
  <2>2. CASE AttemptsExhausted(attempts[id])
    <3>1. /\ Forget(i) /\ Goto(i, "dead")
          /\ UNCHANGED <<queue, task, todo, left>>
      BY <1>14, <2>2 DEF ScheduleRetry
    <3>2. /\ retries' \in [Instance -> [Job -> 0 .. MaxAttempts - 1]]
          /\ waiting' \in [Instance -> SUBSET Job]
      BY <3>1, ForgetTyped
    <3> QED
      BY <1>14, <2>1, <3>1, <3>2 DEF ScheduleRetry
  <2>3. CASE ~AttemptsExhausted(attempts[id])
    <3>1. attempts \in [Job -> 0 .. MaxAttempts - 1]
      BY <2>1, <2>3 DEF AttemptsExhausted
    <3>2. PICK f \in [Job -> 0 .. MaxAttempts - 1], W \in SUBSET Job :
             /\ retries' = [retries EXCEPT ![i] = f]
             /\ waiting' = [waiting EXCEPT ![i] = W]
      <4>1. CASE TrackedTooMany(attempts)
        <5>1. [j \in Job |-> 0] \in [Job -> 0 .. MaxAttempts - 1]
          OBVIOUS
        <5>2. /\ retries' = [retries EXCEPT ![i] = [j \in Job |-> 0]]
              /\ waiting' = [waiting EXCEPT ![i] = {}]
          BY <1>14, <2>3, <4>1 DEF ScheduleRetry
        <5> QED
          BY <5>1, <5>2
      <4>2. CASE ~TrackedTooMany(attempts)
        <5>1. /\ retries' = [retries EXCEPT ![i] = attempts]
              /\ waiting' = [waiting EXCEPT ![i] = waiting[i] \cup {id}]
          BY <1>14, <2>3, <4>2 DEF ScheduleRetry
        <5>2. waiting[i] \cup {id} \in SUBSET Job
          BY <2>1
        <5> HIDE DEF attempts, id
        <5> QED
          BY <3>1, <5>1, <5>2
      <4> QED
        BY <4>1, <4>2
    <3>3. /\ retries' \in [Instance -> [Job -> 0 .. MaxAttempts - 1]]
          /\ waiting' \in [Instance -> SUBSET Job]
      BY <3>2
    <3>4. Enqueue(i, task[i]) /\ EndRun(i)
      BY <1>14, <2>3 DEF ScheduleRetry
    <3>5. queue' \in [Instance -> Seq(Task)]
      BY <2>1, <3>4, EnqueueTyped
    <3> QED
      BY <1>14, <3>3, <3>4, <3>5 DEF ScheduleRetry, EndRun
  <2> QED
    BY <2>2, <2>3
<1>15. CASE DeadLetter(i)
  <2>1. status' \in [Job -> Status]
    BY <1>15 DEF DeadLetter
  <2> QED
    BY <1>15, <2>1 DEF DeadLetter, EndRun
<1> QED
  BY <1>3, <1>4, <1>5, <1>6, <1>7, <1>8, <1>9, <1>10, <1>11, <1>12, <1>13, <1>14, <1>15 DEF Attempt

\* Every step of an admin request preserves the typing.
LEMMA AdminTyped ==
    ASSUME TypeInv, NEW a \in Admin, Submit(a) \/ DeleteFile(a) \/ Handler(a)
    PROVE  TypeInv'
<1> USE BoundAssumption
    DEF TypeInv, TypeOK, Held, rowVars, mediaVars, workerVars, retryVars, adminVars, boundVars,
        SetStatus, DbError, AdminRequest
<1>1. apc[a] # "idle" => /\ call[a] \in Call
                         /\ call[a].inst \in Instance
                         /\ call[a].video \in Video
                         /\ call[a].res \subseteq Resolution
  BY DEF Call
<1>2. \A i \in Instance, v \in Video, R \in SUBSET Resolution :
         [inst |-> i, video |-> v, res |-> R, key |-> None] \in Call
  BY DEF Call
<1>3. CASE Submit(a)
  <2>1. requests' \in 0 .. MaxRequests /\ status' \in [Job -> Status]
    BY <1>3 DEF Submit
  <2>2. PICK c \in Call : call' = [call EXCEPT ![a] = c]
    BY <1>2, <1>3, RequestAssumption DEF Submit
  <2>3. apc' = [apc EXCEPT ![a] = "insert"]
    BY <1>3 DEF Submit
  <2> QED
    BY <1>3, <2>1, <2>2, <2>3 DEF Submit
<1>4. CASE DeleteFile(a)
  <2>1. requests' \in 0 .. MaxRequests /\ file' \subseteq Job
    BY <1>4 DEF DeleteFile
  <2>2. PICK c \in Call : call' = [call EXCEPT ![a] = c]
    <3>1. \A r \in Deletable : {r} \in SUBSET Resolution
      BY DeletableAssumption
    <3> QED
      BY <1>2, <1>4, <3>1 DEF DeleteFile
  <2>3. apc' = [apc EXCEPT ![a] = "unrecord"]
    BY <1>4 DEF DeleteFile
  <2> QED
    BY <1>4, <2>1, <2>2, <2>3 DEF DeleteFile
<1>5. CASE Insert(a)
  <2> DEFINE new == InStatus(RowsOf(call[a].video, call[a].res), {"absent"})
  <2>1. new \subseteq Job /\ IsFiniteSet(new)
    <3>1. RowsOf(call[a].video, call[a].res) \subseteq Job
      BY <1>1, <1>5 DEF Insert, RowsOf, Job
    <3>2. new \subseteq Job
      BY <3>1 DEF InStatus
    <3>3. IsFiniteSet(Job)
      BY FiniteAssumption, FS_Product DEF Job
    <3> QED
      BY <3>2, <3>3, FS_Subset
  <2>2. Cardinality(new) \in Nat
    BY <2>1, FS_CardinalityType
  <2> HIDE DEF new
  <2>3. status' \in [Job -> Status]
    BY <1>5 DEF Insert
  <2>4. lastId' \in Nat
    BY <1>5, <2>2 DEF Insert, new
  <2>5. PICK ids \in Injection(new, lastId + 1 .. lastId + Cardinality(new)) :
           rank' = [j \in Job |-> IF j \in new THEN ids[j] ELSE rank[j]]
    BY <1>5 DEF Insert, new
  <2>6. \A j \in new : ids[j] \in Nat
    BY <2>2 DEF Injection, IsInjective
  <2>7. rank' \in [Job -> Nat]
    BY <2>5, <2>6
  <2> QED
    BY <1>1, <1>5, <2>3, <2>4, <2>7 DEF Insert
<1>6. CASE Pick(a)
  <2> DEFINE pending == InStatus(RowsOf(call[a].video, Resolution), {"pending"})
  <2>1. CASE pending = {} /\ Reply(a)
    BY <1>6, <2>1 DEF Pick, Reply
  <2>2. CASE \E j \in pending :
                /\ IsFirst(j, pending)
                /\ call' = [call EXCEPT ![a].key = j]
                /\ apc' = [apc EXCEPT ![a] = "add"]
    <3>1. pending \subseteq Job
      BY <1>1, <1>6 DEF Pick, RowsOf, InStatus, Job
    <3> HIDE DEF pending
    <3>2. PICK j \in Job : /\ call' = [call EXCEPT ![a].key = j]
                           /\ apc' = [apc EXCEPT ![a] = "add"]
      BY <2>2, <3>1
    <3>3. /\ [call[a] EXCEPT !.key = j] \in Call
          /\ [call[a] EXCEPT !.key = j].key = j
      BY <1>1, <1>6 DEF Pick, Call
    <3>4. call' = [call EXCEPT ![a] = [call[a] EXCEPT !.key = j]]
      BY <3>2
    <3>5. /\ call' \in [Admin -> Call \cup {None}]
          /\ call'[a] \in Call /\ call'[a].key \in Job
          /\ \A b \in Admin : b # a => call'[b] = call[b]
      BY <3>3, <3>4
    <3> QED
      BY <1>6, <3>2, <3>5 DEF Pick
  <2> QED
    BY <1>6, <2>1, <2>2 DEF Pick
<1>7. CASE Add(a)
  <2>1. call[a] \in Call /\ call[a].key \in Job /\ call[a].inst \in Instance
    BY <1>1, <1>7 DEF Add
  <2> DEFINE t == [id |-> call[a].key, video |-> call[a].video, res |-> call[a].res]
  <2>2. t \in Task
    BY <1>1, <1>7, <2>1 DEF Add, Task
  <2>3. UNCHANGED queue \/ Enqueue(call[a].inst, t)
    BY <1>7 DEF Add
  <2> HIDE DEF t
  <2>4. queue' \in [Instance -> Seq(Task)]
    <3>1. CASE Enqueue(call[a].inst, t)
      BY <2>1, <2>2, <3>1, EnqueueTyped
    <3> QED
      BY <2>3, <3>1
  <2> QED
    BY <1>7, <2>4 DEF Add, Reply
<1>8. CASE Unrecord(a)
  BY <1>1, <1>8 DEF Unrecord
<1>9. CASE Count(a)
  <2>1. CASE Reply(a)
    BY <1>1, <1>9, <2>1 DEF Count, Reply
  <2>2. CASE apc' = [apc EXCEPT ![a] = "clear"] /\ UNCHANGED call
    BY <1>1, <1>9, <2>2 DEF Count
  <2> QED
    BY <1>9, <2>1, <2>2 DEF Count
<1>10. CASE ClearFlag(a)
  BY <1>10 DEF ClearFlag, Reply
<1>11. CASE RequestFails(a)
  BY <1>11 DEF RequestFails, Reply
<1> QED
  BY <1>3, <1>4, <1>5, <1>6, <1>7, <1>8, <1>9, <1>10, <1>11 DEF Handler

\* A cancel, and every step of the environment, preserves the typing.
LEMMA EnvironmentTyped ==
    ASSUME TypeInv, Cancel \/ Age \/ LoseInput \/ \E i \in Instance : Due(i) \/ Crash(i)
    PROVE  TypeInv'
<1> USE BoundAssumption
    DEF TypeInv, TypeOK, Held, rowVars, mediaVars, workerVars, retryVars, adminVars, boundVars
<1>1. CASE Cancel
  BY <1>1 DEF Cancel, AdminRequest, SetStatus
<1>2. CASE Age
  BY <1>2 DEF Age, InStatus
<1>3. CASE LoseInput
  BY <1>3 DEF LoseInput
<1>4. ASSUME NEW i \in Instance, Due(i) PROVE TypeInv'
  BY <1>4 DEF Due
<1>5. ASSUME NEW i \in Instance, Crash(i) PROVE TypeInv'
  <2>1. [j \in Job |-> 0] \in [Job -> 0 .. MaxAttempts - 1]
    OBVIOUS
  <2>2. retries' \in [Instance -> [Job -> 0 .. MaxAttempts - 1]]
    BY <1>5, <2>1 DEF Crash
  <2>3. crashes' \in 0 .. MaxCrashes
    BY <1>5 DEF Crash
  <2>4. queue' \in [Instance -> Seq(Task)]
    BY <1>5 DEF Crash
  <2>5. /\ pc' \in [Instance -> WorkerPC] /\ task' \in [Instance -> Task \cup {None}]
        /\ \A k \in Instance : pc'[k] \in Holding => task'[k] \in Task
    BY <1>5 DEF Crash, Goto
  <2>6. /\ apc' \in [Admin -> AdminPC] /\ call' \in [Admin -> Call \cup {None}]
        /\ \A a \in Admin : apc'[a] # "idle" => apc'[a] = apc[a] /\ call'[a] = call[a]
    BY <1>5 DEF Crash
  <2> QED
    BY <1>5, <2>2, <2>3, <2>4, <2>5, <2>6 DEF Crash
<1> QED
  BY <1>1, <1>2, <1>3, <1>4, <1>5

\* The typing is inductive, so it holds in every reachable state: retry counts stay below
\* MAX_ATTEMPTS, every task and every call names rows that exist.
THEOREM TypeInvariant == Spec => []TypeInv
<1>1. TypeInv /\ [Next]_vars => TypeInv'
  <2> SUFFICES ASSUME TypeInv, [Next]_vars PROVE TypeInv'
    OBVIOUS
  <2>1. ASSUME NEW i \in Instance, Worker(i) PROVE TypeInv'
    BY <2>1, RecoveryTyped, LoopTyped, AttemptTyped DEF Worker
  <2> QED
    BY <2>1, AdminTyped, EnvironmentTyped, StutterTyped DEF Next
<1> QED
  BY <1>1, InitTyped, PTL DEF Spec

\* Type correctness of the specification.
THEOREM TypeCorrect == Spec => []TypeOK
BY TypeInvariant, PTL DEF TypeInv
-----------------------------------------------------------------------------
(* BookkeepingOwned.  It is not inductive: a dead-lettered task leaves the *)
(* worker in DeadLetter, whose bookkeeping ScheduleRetry removed earlier.  *)

Tracked(i, j) == retries[i][j] > 0 \/ j \in waiting[i]

DeadForgotten ==
    \A i \in Instance : pc[i] = "dead" => ~Tracked(i, task[i].id)

BookInv == BookkeepingOwned /\ DeadForgotten

\* Appending keeps what is queued, and queues the task appended.
LEMMA EnqueueQueues ==
    ASSUME queue \in [Instance -> Seq(Task)], NEW i \in Instance, NEW t \in Task, Enqueue(i, t)
    PROVE  /\ \A k \in Instance, j \in Job : Queued(k, j) => Queued(k, j)'
           /\ Queued(i, t.id)'
<1>1. queue' = [queue EXCEPT ![i] = Append(queue[i], t)]
  BY DEF Enqueue
<1>2. ASSUME NEW k \in Instance, NEW j \in Job, Queued(k, j) PROVE Queued(k, j)'
  <2>1. PICK n \in DOMAIN queue[k] : queue[k][n].id = j
    BY <1>2 DEF Queued
  <2>2. n \in DOMAIN queue'[k] /\ queue'[k][n] = queue[k][n]
    BY <1>1, <2>1
  <2> QED
    BY <2>1, <2>2 DEF Queued
<1>3. Queued(i, t.id)'
  <2>1. /\ Len(queue[i]) + 1 \in DOMAIN queue'[i]
        /\ queue'[i][Len(queue[i]) + 1] = t
    BY <1>1
  <2> QED
    BY <2>1 DEF Queued
<1> QED
  BY <1>2, <1>3

\* A step that leaves the queues, the tasks and the attempt counts alone, at most lets timers
\* run out, takes no task from a worker and sends none to DeadLetter.
LEMMA QuietKept ==
    ASSUME BookInv, TypeInv,
           UNCHANGED <<task, retries>>,
           \A k \in Instance, j \in Job : Queued(k, j) => Queued(k, j)',
           \A k \in Instance : waiting'[k] \subseteq waiting[k],
           \A k \in Instance : /\ pc[k] \in Holding => pc'[k] \in Holding
                               /\ pc'[k] = "dead" => pc[k] = "dead"
    PROVE  BookInv'
<1>1. BookkeepingOwned'
  <2> SUFFICES ASSUME NEW k \in Instance, NEW j \in Job, Tracked(k, j)'
               PROVE  (pc'[k] \in Holding /\ task'[k].id = j) \/ Queued(k, j)'
    BY DEF BookkeepingOwned, Tracked
  <2>1. Tracked(k, j)
    BY DEF Tracked
  <2>2. (pc[k] \in Holding /\ task[k].id = j) \/ Queued(k, j)
    BY <2>1 DEF BookInv, BookkeepingOwned, Tracked
  <2> QED
    BY <2>2
<1>2. DeadForgotten'
  BY DEF BookInv, DeadForgotten, Tracked
<1> QED
  BY <1>1, <1>2 DEF BookInv

\* The queues are as they were, and so is what they hold.
LEMMA QueueUnchanged ==
    ASSUME UNCHANGED queue
    PROVE  \A k \in Instance, j \in Job : Queued(k, j) => Queued(k, j)'
BY DEF Queued

\* A step of one instance: it is enough to look at that instance.
LEMMA OneInstanceKept ==
    ASSUME BookInv, NEW i \in Instance,
           \A k \in Instance : k # i =>
               /\ retries'[k] = retries[k] /\ waiting'[k] = waiting[k] /\ task'[k] = task[k]
               /\ pc'[k] = pc[k] /\ queue'[k] = queue[k],
           \A j \in Job : Tracked(i, j)' =>
               (pc'[i] \in Holding /\ task'[i].id = j) \/ Queued(i, j)',
           pc'[i] = "dead" => ~(retries'[i][task'[i].id] > 0 \/ task'[i].id \in waiting'[i])
    PROVE  BookInv'
<1>1. BookkeepingOwned'
  <2> SUFFICES ASSUME NEW k \in Instance, NEW j \in Job, Tracked(k, j)', k # i
               PROVE  (pc'[k] \in Holding /\ task'[k].id = j) \/ Queued(k, j)'
    BY DEF BookkeepingOwned, Tracked
  <2>1. (pc[k] \in Holding /\ task[k].id = j) \/ Queued(k, j)
    BY DEF BookInv, BookkeepingOwned, Tracked
  <2> QED
    BY <2>1 DEF Queued
<1>2. DeadForgotten'
  BY DEF BookInv, DeadForgotten, Tracked
<1> QED
  BY <1>1, <1>2 DEF BookInv

\* The recovery pushes tasks that have no bookkeeping yet.
LEMMA RecoveryBook ==
    ASSUME TypeInv, BookInv, NEW i \in Instance, Recovery(i)
    PROVE  BookInv'
<1> USE DEF retryVars, workerVars
<1>0. /\ UNCHANGED <<task, retries, waiting>>
      /\ \A k \in Instance : /\ pc[k] \in Holding => pc'[k] \in Holding
                             /\ pc'[k] = "dead" => pc[k] = "dead"
  BY DEF TypeInv, TypeOK, Recovery, RecoverReset, RecoverLoad, RecoverPush, Goto
<1>1. CASE UNCHANGED queue
  BY <1>0, <1>1, QueueUnchanged, QuietKept
<1>2. CASE \E t \in Task : Enqueue(i, t)
  <2>1. \A k \in Instance, j \in Job : Queued(k, j) => Queued(k, j)'
    BY <1>2, EnqueueQueues DEF TypeInv, TypeOK
  <2> QED
    BY <1>0, <2>1, QuietKept
<1>3. UNCHANGED queue \/ \E t \in Task : Enqueue(i, t)
  BY DEF TypeInv, TypeOK, Recovery, RecoverReset, RecoverLoad, RecoverPush
<1> QED
  BY <1>1, <1>2, <1>3

\* The task at the head of the queue goes to the worker with its bookkeeping, and back.
LEMMA LoopBook ==
    ASSUME TypeInv, BookInv, NEW i \in Instance,
           Wake(i) \/ Drained(i) \/ Take(i) \/ PutBack(i)
    PROVE  BookInv'
<1> USE DEF retryVars
<1>1. CASE Wake(i) \/ Drained(i)
  <2>1. /\ UNCHANGED <<task, retries, waiting, queue>>
        /\ \A k \in Instance : /\ pc[k] \in Holding => pc'[k] \in Holding
                               /\ pc'[k] = "dead" => pc[k] = "dead"
    BY <1>1 DEF TypeInv, TypeOK, Wake, Drained, Goto, workerVars
  <2> QED
    BY <2>1, QueueUnchanged, QuietKept
<1>2. CASE Take(i)
  <2>1. /\ pc[i] = "drain" /\ pc'[i] = "check"
        /\ task'[i] = Head(queue[i]) /\ queue'[i] = Tail(queue[i])
        /\ queue[i] \in Seq(Task) /\ queue[i] # << >>
        /\ UNCHANGED <<retries, waiting>>
        /\ \A k \in Instance : k # i =>
              task'[k] = task[k] /\ pc'[k] = pc[k] /\ queue'[k] = queue[k]
    BY <1>2 DEF TypeInv, TypeOK, Take, Goto
  <2>2. ASSUME NEW j \in Job, Tracked(i, j)'
        PROVE  (pc'[i] \in Holding /\ task'[i].id = j) \/ Queued(i, j)'
    <3>1. Queued(i, j)
      BY <2>1, <2>2 DEF BookInv, BookkeepingOwned, Tracked
    <3>2. PICK n \in DOMAIN queue[i] : queue[i][n].id = j
      BY <3>1 DEF Queued
    <3>3. CASE n = 1
      BY <2>1, <3>2, <3>3
    <3>4. CASE n # 1
      <4>1. n - 1 \in DOMAIN queue'[i] /\ queue'[i][n - 1] = queue[i][n]
        BY <2>1, <3>2, <3>4
      <4> QED
        BY <3>2, <4>1 DEF Queued
    <3> QED
      BY <3>3, <3>4
  <2> QED
    BY <2>1, <2>2, OneInstanceKept
<1>3. CASE PutBack(i)
  <2>1. /\ pc[i] \in Holding /\ pc'[i] = "sleep" /\ task[i] \in Task
        /\ queue'[i] = <<task[i]>> \o queue[i] /\ queue[i] \in Seq(Task)
        /\ UNCHANGED <<retries, waiting>>
        /\ \A k \in Instance : k # i =>
              task'[k] = task[k] /\ pc'[k] = pc[k] /\ queue'[k] = queue[k]
    BY <1>3 DEF TypeInv, TypeOK, Held, PutBack, Goto
  <2>2. ASSUME NEW j \in Job, Tracked(i, j)' PROVE Queued(i, j)'
    <3>1. CASE task[i].id = j
      <4>1. 1 \in DOMAIN queue'[i] /\ queue'[i][1] = task[i]
        BY <2>1
      <4> QED
        BY <3>1, <4>1 DEF Queued
    <3>2. CASE Queued(i, j)
      <4>1. PICK n \in DOMAIN queue[i] : queue[i][n].id = j
        BY <3>2 DEF Queued
      <4>2. n + 1 \in DOMAIN queue'[i] /\ queue'[i][n + 1] = queue[i][n]
        BY <2>1, <4>1
      <4> QED
        BY <4>1, <4>2 DEF Queued
    <3> QED
      BY <2>1, <2>2, <3>1, <3>2 DEF BookInv, BookkeepingOwned, Tracked
  <2> QED
    BY <2>1, <2>2, OneInstanceKept
<1> QED
  BY <1>1, <1>2, <1>3

\* A run ends with its bookkeeping removed, or with its task back in the queue.
LEMMA AttemptBook ==
    ASSUME TypeInv, BookInv, NEW i \in Instance, Attempt(i)
    PROVE  BookInv'
<1> USE DEF retryVars
<1>1. CASE \/ ReadPending(i) /\ PendingOf(i) # {}
           \/ ReadPendingFails(i) \/ MarkProcessing(i) \/ StartTranscode(i)
           \/ TranscodeOk(i) \/ TranscodeFails(i)
           \/ UpsertVariant(i) \/ SetFlag(i) \/ PersistFails(i) \/ ResetJobs(i)
  <2>1. /\ UNCHANGED <<task, retries, waiting, queue>>
        /\ pc[i] \in Holding
    BY <1>1 DEF ReadPending, ReadPendingFails, MarkProcessing, StartTranscode, TranscodeOk,
                TranscodeFails, UpsertVariant, SetFlag, PersistFails, ResetJobs
  <2>2. \E p \in Holding \ {"dead"} : Goto(i, p)
    BY <1>1 DEF ReadPending, ReadPendingFails, MarkProcessing, StartTranscode, TranscodeOk,
                TranscodeFails, UpsertVariant, SetFlag, PersistFails, ResetJobs
  <2>3. \A k \in Instance : /\ pc[k] \in Holding => pc'[k] \in Holding
                            /\ pc'[k] = "dead" => pc[k] = "dead"
    BY <2>1, <2>2 DEF Goto, TypeInv, TypeOK
  <2> QED
    BY <2>1, <2>3, QueueUnchanged, QuietKept
<1>2. CASE CompleteJobs(i) \/ (ReadPending(i) /\ PendingOf(i) = {})
  <2>1. /\ Forget(i) /\ EndRun(i) /\ UNCHANGED queue
        /\ task[i] \in Task /\ task[i].id \in Job
    BY <1>2 DEF CompleteJobs, ReadPending, TypeInv, Held, Task
  <2>2. /\ pc'[i] = "drain"
        /\ \A k \in Instance : k # i =>
              /\ retries'[k] = retries[k] /\ waiting'[k] = waiting[k]
              /\ task'[k] = task[k] /\ pc'[k] = pc[k] /\ queue'[k] = queue[k]
    BY <2>1 DEF Forget, EndRun, Goto, TypeInv, TypeOK
  <2>3. ASSUME NEW j \in Job, Tracked(i, j)' PROVE Queued(i, j)'
    <3>1. Tracked(i, j) /\ j # task[i].id
      BY <2>1, <2>3 DEF Forget, Tracked, TypeInv, TypeOK
    <3> QED
      BY <2>1, <3>1 DEF BookInv, BookkeepingOwned, Tracked, Queued
  <2> QED
    BY <2>2, <2>3, OneInstanceKept
<1>3. CASE ScheduleRetry(i)
  <2> DEFINE id == task[i].id
             attempts == [retries[i] EXCEPT ![id] = @ + 1]
  <2>1. pc[i] = "retry" /\ pc[i] \in Holding /\ task[i] \in Task /\ id \in Job
    BY <1>3 DEF ScheduleRetry, TypeInv, Held, Task
  <2>2. CASE AttemptsExhausted(attempts[id])
    <3>1. Forget(i) /\ Goto(i, "dead") /\ UNCHANGED <<queue, task>>
      BY <1>3, <2>2 DEF ScheduleRetry
    <3>2. /\ pc'[i] = "dead" /\ pc'[i] \in Holding
          /\ \A k \in Instance : k # i =>
                retries'[k] = retries[k] /\ waiting'[k] = waiting[k] /\ pc'[k] = pc[k]
      BY <3>1 DEF Forget, Goto, TypeInv, TypeOK
    <3>3. retries'[i][id] = 0 /\ id \notin waiting'[i]
      BY <2>1, <3>1 DEF Forget, TypeInv, TypeOK
    <3>4. ASSUME NEW j \in Job, Tracked(i, j)' PROVE Queued(i, j)'
      <4>1. Tracked(i, j) /\ j # id
        BY <2>1, <3>1, <3>3, <3>4 DEF Forget, Tracked, TypeInv, TypeOK
      <4> QED
        BY <3>1, <4>1 DEF BookInv, BookkeepingOwned, Tracked, Queued
    <3> QED
      BY <3>1, <3>2, <3>3, <3>4, OneInstanceKept
  <2>3. CASE ~AttemptsExhausted(attempts[id])
    <3>1. /\ Enqueue(i, task[i]) /\ EndRun(i)
          /\ \A k \in Instance : k # i => retries'[k] = retries[k] /\ waiting'[k] = waiting[k]
      BY <1>3, <2>3 DEF ScheduleRetry, TypeInv, TypeOK
    <3>2. /\ pc'[i] = "drain"
          /\ \A k \in Instance : k # i =>
                task'[k] = task[k] /\ pc'[k] = pc[k] /\ queue'[k] = queue[k]
      BY <3>1 DEF Enqueue, EndRun, Goto, TypeInv, TypeOK
    <3>3. /\ \A j \in Job : Queued(i, j) => Queued(i, j)'
          /\ \A j \in Job : j = id => Queued(i, j)'
      <4>1. PICK t \in Task : t = task[i] /\ Enqueue(i, t)
        BY <2>1, <3>1
      <4>2. /\ \A j \in Job : Queued(i, j) => Queued(i, j)'
            /\ Queued(i, t.id)'
        BY <4>1, EnqueueQueues DEF TypeInv, TypeOK
      <4> QED
        BY <4>1, <4>2
    <3>4. ASSUME NEW j \in Job, j # id, Tracked(i, j)' PROVE Tracked(i, j)
      <4>1. CASE TrackedTooMany(attempts)
        <5>1. retries'[i] = [k \in Job |-> 0] /\ waiting'[i] = {}
          BY <1>3, <2>3, <4>1 DEF ScheduleRetry, TypeInv, TypeOK
        <5> QED
          BY <3>4, <5>1 DEF Tracked
      <4>2. CASE ~TrackedTooMany(attempts)
        <5>1. /\ retries' = [retries EXCEPT ![i] = attempts]
              /\ waiting' = [waiting EXCEPT ![i] = @ \cup {id}]
          BY <1>3, <2>3, <4>2 DEF ScheduleRetry
        <5>2. retries'[i][j] = retries[i][j] /\ waiting'[i] = waiting[i] \cup {id}
          BY <3>4, <5>1 DEF TypeInv, TypeOK
        <5> QED
          BY <3>4, <5>2 DEF Tracked
      <4> QED
        BY <4>1, <4>2
    <3>5. ASSUME NEW j \in Job, Tracked(i, j)' PROVE Queued(i, j)'
      <4>1. CASE j = id
        BY <3>3, <4>1
      <4>2. CASE j # id
        <5>1. Queued(i, j)
          BY <3>4, <3>5, <4>2 DEF BookInv, BookkeepingOwned, Tracked
        <5> QED
          BY <3>3, <5>1
      <4> QED
        BY <4>1, <4>2
    <3> QED
      BY <3>1, <3>2, <3>5, OneInstanceKept
  <2> QED
    BY <2>2, <2>3
<1>4. CASE DeadLetter(i)
  <2>1. /\ EndRun(i) /\ UNCHANGED <<queue, retries, waiting>> /\ pc[i] = "dead"
        /\ task[i].id \in Job
    BY <1>4 DEF DeadLetter, TypeInv, Held, Task
  <2>2. /\ pc'[i] = "drain"
        /\ \A k \in Instance : k # i => task'[k] = task[k] /\ pc'[k] = pc[k]
    BY <2>1 DEF EndRun, Goto, TypeInv, TypeOK
  <2>3. ASSUME NEW j \in Job, Tracked(i, j)' PROVE Queued(i, j)'
    <3>1. Tracked(i, j)
      BY <2>1, <2>3 DEF Tracked
    <3>2. task[i].id # j
      BY <2>1, <3>1 DEF BookInv, DeadForgotten
    <3> QED
      BY <2>1, <3>1, <3>2 DEF BookInv, BookkeepingOwned, Tracked, Queued
  <2> QED
    BY <2>1, <2>2, <2>3, OneInstanceKept
<1> QED
  BY <1>1, <1>2, <1>3, <1>4 DEF Attempt

\* The requests only append to the queues.
LEMMA AdminBook ==
    ASSUME TypeInv, BookInv, NEW a \in Admin, Submit(a) \/ DeleteFile(a) \/ Handler(a)
    PROVE  BookInv'
<1>1. UNCHANGED <<task, retries, waiting, pc>>
  BY DEF Submit, DeleteFile, Handler, Insert, Pick, Add, Unrecord, Count, ClearFlag, RequestFails,
         workerVars, retryVars
<1>2. CASE Add(a)
  <2>1. UNCHANGED queue \/ \E i \in Instance, t \in Task : Enqueue(i, t)
    BY <1>2 DEF Add, TypeInv, Held, Call, Task
  <2>2. \A k \in Instance, j \in Job : Queued(k, j) => Queued(k, j)'
    BY <2>1, QueueUnchanged, EnqueueQueues DEF TypeInv, TypeOK
  <2> QED
    BY <1>1, <2>2, QuietKept
<1>3. CASE ~Add(a)
  <2>1. UNCHANGED queue
    BY <1>3 DEF Submit, DeleteFile, Handler, Insert, Pick, Unrecord, Count, ClearFlag, RequestFails
  <2> QED
    BY <1>1, <2>1, QueueUnchanged, QuietKept
<1> QED
  BY <1>2, <1>3

\* Timers that run out and crashes only remove bookkeeping; a crash removes all of it.
LEMMA EnvironmentBook ==
    ASSUME TypeInv, BookInv,
           Cancel \/ Age \/ LoseInput \/ (\E i \in Instance : Due(i) \/ Crash(i)) \/ UNCHANGED vars
    PROVE  BookInv'
<1> USE DEF workerVars, retryVars
<1>1. CASE Cancel \/ Age \/ LoseInput \/ UNCHANGED vars
  <2>1. UNCHANGED <<task, retries, waiting, pc, queue>>
    BY <1>1 DEF Cancel, Age, LoseInput, vars
  <2> QED
    BY <2>1, QueueUnchanged, QuietKept
<1>2. ASSUME NEW i \in Instance, Due(i) PROVE BookInv'
  <2>1. /\ UNCHANGED <<task, retries, pc, queue>>
        /\ \A k \in Instance : waiting'[k] \subseteq waiting[k]
    BY <1>2 DEF Due, TypeInv, TypeOK
  <2> QED
    BY <2>1, QueueUnchanged, QuietKept
<1>3. ASSUME NEW i \in Instance, Crash(i) PROVE BookInv'
  <2>1. /\ pc'[i] = "recover" /\ waiting'[i] = {} /\ retries'[i] = [j \in Job |-> 0]
        /\ \A k \in Instance : k # i =>
              /\ retries'[k] = retries[k] /\ waiting'[k] = waiting[k] /\ task'[k] = task[k]
              /\ pc'[k] = pc[k] /\ queue'[k] = queue[k]
    BY <1>3 DEF Crash, Goto, TypeInv, TypeOK
  <2>2. \A j \in Job : ~Tracked(i, j)'
    BY <2>1 DEF Tracked
  <2> QED
    BY <2>1, <2>2, OneInstanceKept
<1> QED
  BY <1>1, <1>2, <1>3

\* No attempt count and no backoff timer outlives its task, for every number of instances,
\* requests, failed statements and crashes.
THEOREM BookkeepingIsOwned == Spec => []BookkeepingOwned
<1>1. Init => BookInv
  BY DEF Init, BookInv, BookkeepingOwned, DeadForgotten, Tracked
<1>2. TypeInv /\ BookInv /\ [Next]_vars => BookInv'
  <2> SUFFICES ASSUME TypeInv, BookInv, [Next]_vars PROVE BookInv'
    OBVIOUS
  <2>1. ASSUME NEW i \in Instance, Worker(i) PROVE BookInv'
    BY <2>1, RecoveryBook, LoopBook, AttemptBook DEF Worker
  <2> QED
    BY <2>1, AdminBook, EnvironmentBook DEF Next
<1> QED
  BY <1>1, <1>2, TypeInvariant, PTL DEF Spec, BookInv
-----------------------------------------------------------------------------
\* A failed job stays failed until a submission revives it or a run completes it: no retry,
\* reset, dead letter or recovery, in any number of processes, puts it back to work.
THEOREM FailedStaysFailed == Spec => FailedStaysDown
<1> DEFINE Kept == \A j \in Job :
              status[j] = "failed" =>
                 \/ status'[j] \in {"failed", "completed"}
                 \/ status'[j] = "pending" /\ \E a \in Admin : apc[a] = "idle" /\ apc'[a] = "insert"
<1>1. TypeInv /\ [Next]_vars => [Kept]_vars
  <2> SUFFICES ASSUME TypeInv, Next PROVE Kept
    OBVIOUS
  <2> USE DEF SetStatus, InStatus, rowVars
  <2>1. ASSUME NEW i \in Instance, Recovery(i) PROVE Kept
    BY <2>1 DEF Recovery, RecoverReset, RecoverLoad, RecoverPush, Reclaimable
  <2>2. ASSUME NEW i \in Instance, Wake(i) \/ Drained(i) \/ Take(i) \/ PutBack(i) PROVE Kept
    BY <2>2 DEF Wake, Drained, Take, PutBack
  <2>3. ASSUME NEW i \in Instance, Attempt(i) PROVE Kept
    <3>1. CASE MarkProcessing(i) \/ ResetJobs(i) \/ CompleteJobs(i) \/ DeadLetter(i)
      BY <2>3, <3>1 DEF MarkProcessing, ResetJobs, CompleteJobs, DeadLetter, Resettable,
                        Completed, DeadLettered
    <3>2. CASE UNCHANGED status
      BY <3>2
    <3> QED
      BY <2>3, <3>1, <3>2 DEF Attempt, ReadPending, ReadPendingFails, StartTranscode, TranscodeOk,
            TranscodeFails, UpsertVariant, SetFlag, PersistFails, ScheduleRetry
  <2>4. ASSUME NEW a \in Admin, Submit(a) PROVE Kept
    <3>1. apc[a] = "idle" /\ apc'[a] = "insert"
      BY <2>4 DEF Submit, TypeInv, TypeOK
    <3>2. PICK v \in Video : SetStatus(Revivable(v), "pending")
      BY <2>4 DEF Submit, TypeInv, TypeOK
    <3> QED
      BY <3>1, <3>2
  <2>5. ASSUME NEW a \in Admin, DeleteFile(a) \/ Handler(a) PROVE Kept
    BY <2>5 DEF DeleteFile, Handler, Insert, Pick, Add, Unrecord, Count, ClearFlag, RequestFails
  <2>6. ASSUME Cancel \/ Age \/ LoseInput PROVE Kept
    BY <2>6 DEF Cancel, Age, LoseInput, Cancellable
  <2>7. ASSUME NEW i \in Instance, Due(i) \/ Crash(i) PROVE Kept
    BY <2>7 DEF Due, Crash
  <2> QED
    BY <2>1, <2>2, <2>3, <2>4, <2>5, <2>6, <2>7 DEF Next, Worker
<1> QED
  BY <1>1, TypeInvariant, PTL DEF Spec, FailedStaysDown
-----------------------------------------------------------------------------
(* ProcessingOwned.  The worker that marked a row holds it until the row   *)
(* is no longer marked; at the reset it is among the rows to be reset.     *)

Marked(i, j) ==
    /\ pc[i] \in {"start", "transcode", "persist", "flag", "complete", "reset"}
    /\ task[i].video = j[1] /\ j[2] \in todo[i]
    /\ pc[i] = "reset" => j[2] \in left[i]

NoFaults == crashes = 0 /\ dbErrors = 0

AtWork == {"mark", "start", "transcode", "persist", "flag", "complete", "reset"}

OwnedInv ==
    /\ \A i \in Instance : pc[i] \in AtWork => todo[i] \subseteq task[i].res
    /\ NoFaults => \A j \in InStatus(Job, {"processing"}) : \E i \in Instance : Marked(i, j)

\* Faults are counted, and a count never goes back.
LEMMA FaultsStay ==
    ASSUME TypeInv, [Next]_vars, NoFaults'
    PROVE  NoFaults
<1>1. crashes \in Nat /\ dbErrors \in Nat
  BY BoundAssumption DEF TypeInv, TypeOK
<1>2. crashes' \in {crashes, crashes + 1} /\ dbErrors' \in {dbErrors, dbErrors + 1}
  <2> USE DEF vars, boundVars, DbError
  <2>1. ASSUME NEW i \in Instance, Recovery(i) \/ Wake(i) \/ Drained(i) \/ Take(i) \/ PutBack(i)
        PROVE  crashes' \in {crashes, crashes + 1} /\ dbErrors' \in {dbErrors, dbErrors + 1}
    BY <2>1 DEF Recovery, RecoverReset, RecoverLoad, RecoverPush, Wake, Drained, Take, PutBack
  <2>2. ASSUME NEW i \in Instance, Attempt(i)
        PROVE  crashes' \in {crashes, crashes + 1} /\ dbErrors' \in {dbErrors, dbErrors + 1}
    BY <2>2 DEF Attempt, ReadPending, ReadPendingFails, MarkProcessing, StartTranscode, TranscodeOk,
          TranscodeFails, UpsertVariant, SetFlag, CompleteJobs, PersistFails, ResetJobs, ScheduleRetry,
          DeadLetter
  <2>3. ASSUME NEW a \in Admin, Submit(a) \/ DeleteFile(a) \/ Handler(a)
        PROVE  crashes' \in {crashes, crashes + 1} /\ dbErrors' \in {dbErrors, dbErrors + 1}
    BY <2>3 DEF Submit, DeleteFile, Handler, Insert, Pick, Add, Unrecord, Count, ClearFlag, RequestFails
  <2>4. ASSUME Cancel \/ Age \/ LoseInput \/ (\E i \in Instance : Due(i) \/ Crash(i)) \/ UNCHANGED vars
        PROVE  crashes' \in {crashes, crashes + 1} /\ dbErrors' \in {dbErrors, dbErrors + 1}
    BY <2>4 DEF Cancel, Age, LoseInput, Due, Crash
  <2> QED
    BY <2>1, <2>2, <2>3, <2>4 DEF Next, Worker
<1> QED
  BY <1>1, <1>2 DEF NoFaults

\* Steps that mark no row and leave the runs alone.
LEMMA RunsUntouched ==
    ASSUME OwnedInv, NoFaults' => NoFaults, UNCHANGED <<pc, task, todo, left>>,
           InStatus(Job, {"processing"})' \subseteq InStatus(Job, {"processing"})
    PROVE  OwnedInv'
BY DEF OwnedInv, Marked

\* A step of one worker: the others keep what they marked.
LEMMA OneWorker ==
    ASSUME OwnedInv, NoFaults' => NoFaults, NEW i \in Instance,
           \A k \in Instance : k # i => /\ pc'[k] = pc[k] /\ task'[k] = task[k]
                                        /\ todo'[k] = todo[k] /\ left'[k] = left[k],
           pc'[i] \in AtWork => todo'[i] \subseteq task'[i].res,
           NoFaults' => \A j \in InStatus(Job, {"processing"})' :
                           \/ j \in InStatus(Job, {"processing"}) /\ ~Marked(i, j)
                           \/ Marked(i, j)'
    PROVE  OwnedInv'
BY DEF OwnedInv, Marked

\* Outside the attempts a worker marks nothing; a crash is a fault.
LEMMA LoopOwned ==
    ASSUME TypeInv, OwnedInv, NoFaults' => NoFaults, NEW i \in Instance,
           \/ Recovery(i) \/ Wake(i) \/ Drained(i) \/ Take(i) \/ PutBack(i) \/ Crash(i)
    PROVE  OwnedInv'
<1> USE DEF workerVars, retryVars, Goto
<1>1. CASE Crash(i)
  <2>1. ~NoFaults'
    BY <1>1, BoundAssumption DEF Crash, NoFaults, TypeInv, TypeOK
  <2>2. /\ pc'[i] = "recover"
        /\ \A k \in Instance : k # i => /\ pc'[k] = pc[k] /\ task'[k] = task[k]
                                        /\ todo'[k] = todo[k] /\ left'[k] = left[k]
    BY <1>1 DEF Crash, TypeInv, TypeOK
  <2> QED
    BY <2>1, <2>2, OneWorker DEF AtWork
<1>2. CASE Recovery(i) \/ Wake(i) \/ Drained(i) \/ Take(i) \/ PutBack(i)
  <2>1. /\ pc'[i] \notin AtWork
        /\ \A k \in Instance : k # i => /\ pc'[k] = pc[k] /\ task'[k] = task[k]
                                        /\ todo'[k] = todo[k] /\ left'[k] = left[k]
    BY <1>2 DEF Recovery, RecoverReset, RecoverLoad, RecoverPush, Wake, Drained, Take, PutBack,
                TypeInv, TypeOK, AtWork
  <2>2. pc[i] \notin {"start", "transcode", "persist", "flag", "complete", "reset"}
    BY <1>2 DEF Recovery, RecoverReset, RecoverLoad, RecoverPush, Wake, Drained, Take, PutBack
  <2>3. InStatus(Job, {"processing"})' \subseteq InStatus(Job, {"processing"})
    BY <1>2 DEF Recovery, RecoverReset, RecoverLoad, RecoverPush, Wake, Drained, Take, PutBack,
                rowVars, InStatus, SetStatus
  <2> QED
    BY <2>1, <2>2, <2>3, OneWorker DEF Marked
<1> QED
  BY <1>1, <1>2

\* The steps of a run that leave the rows alone: what the worker marked stays with it.
LEMMA RunOwned ==
    ASSUME TypeInv, OwnedInv, NoFaults' => NoFaults, NEW i \in Instance,
           \/ StartTranscode(i) \/ TranscodeOk(i) \/ TranscodeFails(i) \/ UpsertVariant(i)
           \/ SetFlag(i)
    PROVE  OwnedInv'
<1> USE DEF retryVars, Goto
<1>1. /\ task' = task /\ todo' = todo /\ status' = status
      /\ pc[i] \in {"start", "transcode", "persist", "flag"}
      /\ pc'[i] \in {"transcode", "persist", "flag", "complete", "reset"}
      /\ pc'[i] = "reset" => left'[i] \in {todo[i], task[i].res}
      /\ \A k \in Instance : k # i => pc'[k] = pc[k] /\ left'[k] = left[k]
  <2>1. CASE StartTranscode(i)
    BY <2>1 DEF StartTranscode, rowVars, TypeInv, TypeOK
  <2>2. CASE TranscodeOk(i)
    BY <2>2 DEF TranscodeOk, rowVars, TypeInv, TypeOK
  <2>3. CASE TranscodeFails(i)
    BY <2>3 DEF TranscodeFails, rowVars, TypeInv, TypeOK
  <2>4. CASE UpsertVariant(i) \/ SetFlag(i)
    BY <2>4 DEF UpsertVariant, SetFlag, rowVars, TypeInv, TypeOK
  <2> QED
    BY <2>1, <2>2, <2>3, <2>4
<1>2. todo[i] \subseteq task[i].res
  BY <1>1 DEF OwnedInv, AtWork
<1>3. InStatus(Job, {"processing"})' = InStatus(Job, {"processing"})
  BY <1>1 DEF InStatus
<1>4. \A j \in Job : Marked(i, j) => Marked(i, j)'
  BY <1>1, <1>2 DEF Marked
<1>5. todo'[i] \subseteq task'[i].res
  BY <1>1, <1>2
<1>6. \A k \in Instance : k # i => /\ pc'[k] = pc[k] /\ task'[k] = task[k]
                                   /\ todo'[k] = todo[k] /\ left'[k] = left[k]
  BY <1>1
<1>7. \A j \in InStatus(Job, {"processing"})' :
         (j \in InStatus(Job, {"processing"}) /\ ~Marked(i, j)) \/ Marked(i, j)'
  BY <1>3, <1>4 DEF InStatus
<1> QED
  BY <1>5, <1>6, <1>7, OneWorker

\* The steps that read, mark, complete, reset and fail the rows of a run.
LEMMA RowsOwned ==
    ASSUME TypeInv, OwnedInv, NoFaults' => NoFaults, NEW i \in Instance,
           \/ ReadPending(i) \/ MarkProcessing(i) \/ CompleteJobs(i) \/ ResetJobs(i)
           \/ DeadLetter(i) \/ ScheduleRetry(i)
    PROVE  OwnedInv'
<1> USE DEF retryVars, Goto, EndRun
<1>0. \A k \in Instance : k # i => /\ pc'[k] = pc[k] /\ task'[k] = task[k]
                                   /\ todo'[k] = todo[k] /\ left'[k] = left[k]
  BY DEF ReadPending, MarkProcessing, CompleteJobs, ResetJobs, DeadLetter, ScheduleRetry,
         TypeInv, TypeOK
<1>1. CASE ReadPending(i)
  <2>1. /\ pc[i] = "check" /\ status' = status
        /\ pc'[i] \in {"mark", "drain"}
        /\ pc'[i] = "mark" => task' = task /\ todo'[i] = PendingOf(i)
    BY <1>1 DEF ReadPending, rowVars, TypeInv, TypeOK
  <2>2. PendingOf(i) \subseteq task[i].res
    BY DEF PendingOf
  <2>3. InStatus(Job, {"processing"})' = InStatus(Job, {"processing"})
    BY <2>1 DEF InStatus
  <2> QED
    BY <1>0, <2>1, <2>2, <2>3, OneWorker DEF Marked, AtWork
<1>2. CASE MarkProcessing(i)
  <2>1. /\ pc[i] = "mark" /\ task' = task /\ todo' = todo /\ pc'[i] \in {"start", "retry"}
        /\ todo[i] \subseteq task[i].res
    BY <1>2 DEF MarkProcessing, OwnedInv, AtWork, TypeInv, TypeOK
  <2>2. \/ ~NoFaults'
        \/ /\ pc'[i] = "start"
           /\ SetStatus(InStatus(RowsOf(task[i].video, todo[i]), {"pending"}), "processing")
    BY <1>2, BoundAssumption DEF MarkProcessing, NoFaults, DbError, TypeInv, TypeOK
  <2>3. ASSUME NoFaults', NEW j \in InStatus(Job, {"processing"})'
        PROVE  j \in InStatus(Job, {"processing"}) \/ Marked(i, j)'
    BY <2>1, <2>2, <2>3 DEF InStatus, SetStatus, RowsOf, Marked
  <2> QED
    BY <1>0, <2>1, <2>3, OneWorker DEF Marked
<1>3. CASE CompleteJobs(i)
  <2>1. /\ pc[i] = "complete" /\ pc'[i] = "drain"
        /\ SetStatus(RowsOf(task[i].video, todo[i]), "completed")
    BY <1>3 DEF CompleteJobs, Completed, TypeInv, TypeOK
  <2>2. ASSUME NEW j \in InStatus(Job, {"processing"})'
        PROVE  j \in InStatus(Job, {"processing"}) /\ ~Marked(i, j)
    BY <2>1, <2>2 DEF InStatus, SetStatus, RowsOf, Marked, Job
  <2> QED
    BY <1>0, <2>1, <2>2, OneWorker DEF AtWork
<1>4. CASE ResetJobs(i)
  <2>1. /\ pc[i] = "reset" /\ pc'[i] = "retry"
    BY <1>4 DEF ResetJobs, TypeInv, TypeOK
  <2>2. \/ ~NoFaults'
        \/ SetStatus(InStatus(RowsOf(task[i].video, left[i]), {"processing"}), "pending")
    BY <1>4, BoundAssumption DEF ResetJobs, Resettable, NoFaults, DbError, TypeInv, TypeOK
  <2>3. ASSUME NoFaults', NEW j \in InStatus(Job, {"processing"})'
        PROVE  j \in InStatus(Job, {"processing"}) /\ ~Marked(i, j)
    BY <2>1, <2>2, <2>3 DEF InStatus, SetStatus, RowsOf, Marked, Job
  <2> QED
    BY <1>0, <2>1, <2>3, OneWorker DEF AtWork
<1>5. CASE DeadLetter(i) \/ ScheduleRetry(i)
  <2>1. /\ pc[i] \in {"dead", "retry"} /\ pc'[i] \notin AtWork
    BY <1>5 DEF DeadLetter, ScheduleRetry, AtWork, TypeInv, TypeOK
  <2>2. InStatus(Job, {"processing"})' \subseteq InStatus(Job, {"processing"})
    BY <1>5 DEF DeadLetter, ScheduleRetry, DeadLettered, rowVars, InStatus, SetStatus
  <2> QED
    BY <1>0, <2>1, <2>2, OneWorker DEF Marked
<1> QED
  BY <1>1, <1>2, <1>3, <1>4, <1>5

\* An attempt whose statement fails is a fault, and the worker it happens to still has its task.
LEMMA FailureOwned ==
    ASSUME TypeInv, OwnedInv, NoFaults' => NoFaults, NEW i \in Instance,
           ReadPendingFails(i) \/ PersistFails(i)
    PROVE  OwnedInv'
<1>1. ~NoFaults'
  BY BoundAssumption DEF ReadPendingFails, PersistFails, DbError, NoFaults, TypeInv, TypeOK
<1>2. /\ task' = task /\ todo' = todo
      /\ pc'[i] \in AtWork => pc[i] \in AtWork
      /\ \A k \in Instance : k # i => pc'[k] = pc[k] /\ left'[k] = left[k]
  BY DEF ReadPendingFails, PersistFails, Goto, AtWork, TypeInv, TypeOK
<1>3. pc'[i] \in AtWork => todo'[i] \subseteq task'[i].res
  BY <1>2 DEF OwnedInv
<1> QED
  BY <1>1, <1>2, <1>3, OneWorker

\* Without faults no interleaving of cancels, resubmissions, failed attempts and dead letters
\* leaves a row marked that no worker runs, in any number of processes.
THEOREM ProcessingIsOwned == Spec => []ProcessingOwned
<1>1. Init => OwnedInv
  BY DEF Init, OwnedInv, AtWork, InStatus
<1>2. TypeInv /\ OwnedInv /\ [Next]_vars => OwnedInv'
  <2> SUFFICES ASSUME TypeInv, OwnedInv, [Next]_vars PROVE OwnedInv'
    OBVIOUS
  <2>1. NoFaults' => NoFaults
    BY FaultsStay
  <2>2. ASSUME NEW i \in Instance, Worker(i) \/ Crash(i) PROVE OwnedInv'
    BY <2>1, <2>2, LoopOwned, RunOwned, RowsOwned, FailureOwned DEF Worker, Attempt
  <2>3. ASSUME \/ \E i \in Instance : Due(i)
               \/ \E a \in Admin : Submit(a) \/ DeleteFile(a) \/ Handler(a)
               \/ Cancel \/ Age \/ LoseInput \/ UNCHANGED vars
        PROVE  OwnedInv'
    <3>1. UNCHANGED <<pc, task, todo, left>>
      BY <2>3 DEF Due, Submit, DeleteFile, Handler, Insert, Pick, Add, Unrecord, Count, ClearFlag,
                  RequestFails, Cancel, Age, LoseInput, vars, workerVars
    <3>2. InStatus(Job, {"processing"})' \subseteq InStatus(Job, {"processing"})
      <4> USE DEF InStatus, SetStatus, rowVars
      <4>1. CASE \/ \E i \in Instance : Due(i)
                 \/ Cancel \/ Age \/ LoseInput \/ UNCHANGED vars
        BY <4>1 DEF Due, Cancel, Age, LoseInput, vars
      <4>2. ASSUME NEW a \in Admin, Submit(a) \/ DeleteFile(a) \/ Handler(a)
            PROVE  InStatus(Job, {"processing"})' \subseteq InStatus(Job, {"processing"})
        BY <4>2 DEF Submit, DeleteFile, Handler, Insert, Pick, Add, Unrecord, Count, ClearFlag,
                    RequestFails
      <4> QED
        BY <2>3, <4>1, <4>2
    <3> QED
      BY <2>1, <3>1, <3>2, RunsUntouched
  <2> QED
    BY <2>2, <2>3 DEF Next
<1>3. OwnedInv => ProcessingOwned
  BY DEF OwnedInv, Marked, NoFaults, ProcessingOwned
<1> QED
  BY <1>1, <1>2, <1>3, TypeInvariant, PTL DEF Spec
-----------------------------------------------------------------------------
(* PendingOwned, for one process i and one set R that every submission     *)
(* asks for.  Two invariants carry it: every task is for all of R, so a    *)
(* task that is found queued does the work of the one it replaces; and a   *)
(* pending row that the current run did not read belongs to somebody else  *)
(* than that run.                                                          *)

\* The tasks in the queue.
InLine(i) == {queue[i][k] : k \in DOMAIN queue[i]}

\* A task for the rows of R, named by a row of its video.
Whole(t, R) == t.res = R /\ t.id[1] = t.video

Asking == {"insert", "pick", "add"}

Early == {"recover", "load"}

\* Before the recovery has read the rows nothing has been run: the rows of a video go through
\* the same states together, and none of them is recorded.
Together(R) ==
    /\ variant = {}
    /\ InStatus(Job, {"processing"}) = {}
    /\ \A v \in Video : \A r, s \in R : status[<<v, r>>] = status[<<v, s>>]

UniformInv(i, R) ==
    /\ input = Video
    /\ NoFaults =>
          /\ \A t \in InLine(i) \cup found[i] : Whole(t, R)
          /\ pc[i] \in Holding => Whole(task[i], R)
          /\ todo[i] \subseteq R
          /\ \A j \in Job : status[j] # "absent" => j[2] \in R
          /\ \A a \in Admin : apc[a] \in Asking => call[a].res = R
          /\ \A a \in Admin : apc[a] = "add" => call[a].key[1] = call[a].video
          /\ pc[i] \in Early => found[i] = {} /\ Together(R)

Reading == {"mark", "start", "transcode", "persist", "flag", "complete"}

Works(i, j) ==
    /\ pc[i] \in Holding /\ task[i].video = j[1]
    /\ pc[i] \in Reading => j[2] \in todo[i]

Kept(i, j) ==
    \/ \E t \in InLine(i) \cup found[i] : t.video = j[1]
    \/ Works(i, j)
    \/ \E a \in Admin : apc[a] \in Asking /\ call[a].video = j[1]

KeptInv(i) == NoFaults => \A j \in InStatus(Job, {"pending"}) : Kept(i, j)

LEMMA InLineAppended ==
    ASSUME queue \in [Instance -> Seq(Task)], NEW i \in Instance, NEW t \in Task, Enqueue(i, t)
    PROVE  InLine(i)' = InLine(i) \cup {t}
<1>1. queue'[i] = Append(queue[i], t)
  BY DEF Enqueue
<1>2. /\ DOMAIN queue'[i] = DOMAIN queue[i] \cup {Len(queue[i]) + 1}
      /\ queue'[i][Len(queue[i]) + 1] = t
      /\ \A k \in DOMAIN queue[i] : queue'[i][k] = queue[i][k]
  BY <1>1
<1> QED
  BY <1>2 DEF InLine

LEMMA InLineTaken ==
    ASSUME TypeInv, NEW i \in Instance, Take(i)
    PROVE  InLine(i) = InLine(i)' \cup {task'[i]}
<1>1. /\ queue[i] \in Seq(Task) /\ queue[i] # << >>
      /\ queue'[i] = Tail(queue[i]) /\ task'[i] = queue[i][1]
  BY DEF Take, TypeInv, TypeOK
<1>2. /\ \A k \in DOMAIN queue[i] : k = 1 \/ (k - 1 \in DOMAIN queue'[i] /\ queue'[i][k - 1] = queue[i][k])
      /\ \A k \in DOMAIN queue'[i] : k + 1 \in DOMAIN queue[i] /\ queue'[i][k] = queue[i][k + 1]
      /\ 1 \in DOMAIN queue[i]
  BY <1>1
<1>3. ASSUME NEW k \in DOMAIN queue[i] PROVE queue[i][k] \in InLine(i)' \cup {task'[i]}
  BY <1>1, <1>2 DEF InLine
<1>4. ASSUME NEW k \in DOMAIN queue'[i] PROVE queue'[i][k] \in InLine(i)
  BY <1>2 DEF InLine
<1>5. task'[i] \in InLine(i)
  BY <1>1, <1>2 DEF InLine
<1> QED
  BY <1>3, <1>4, <1>5 DEF InLine

LEMMA InLineBack ==
    ASSUME TypeInv, NEW i \in Instance, PutBack(i)
    PROVE  InLine(i)' = InLine(i) \cup {task[i]}
<1>1. task[i] \in Task
  BY DEF PutBack, TypeInv, Held
<1>2. queue[i] \in Seq(Task) /\ queue'[i] = <<task[i]>> \o queue[i]
  BY DEF PutBack, TypeInv, TypeOK
<1>3. /\ \A k \in DOMAIN queue'[i] : IF k = 1 THEN queue'[i][k] = task[i]
                                     ELSE k - 1 \in DOMAIN queue[i] /\ queue'[i][k] = queue[i][k - 1]
      /\ \A k \in DOMAIN queue[i] : k + 1 \in DOMAIN queue'[i] /\ queue'[i][k + 1] = queue[i][k]
      /\ 1 \in DOMAIN queue'[i] /\ queue'[i][1] = task[i]
  BY <1>1, <1>2
<1> QED
  BY <1>3 DEF InLine

\* A failed statement is a fault.
LEMMA ErrorIsFault == TypeInv /\ DbError => ~NoFaults'
BY BoundAssumption DEF TypeInv, TypeOK, DbError, NoFaults
-----------------------------------------------------------------------------
\* What recovery finds before anything was run is whole.
LEMMA RecoveredWhole ==
    ASSUME TypeInv, NEW i \in Instance, NEW R \in SUBSET Resolution, Together(R),
           \A j \in Job : status[j] # "absent" => j[2] \in R
    PROVE  \A t \in RecoveredTasks : Whole(t, R)
<1> SUFFICES ASSUME NEW t \in RecoveredTasks PROVE Whole(t, R)
  OBVIOUS
<1>1. /\ t \in Task /\ t.id \in Recoverable(t.video)
      /\ t.res = {r \in Resolution : <<t.video, r>> \in Recoverable(t.video)}
  BY DEF RecoveredTasks, IsFirst
<1>2. t.video \in Video
  BY <1>1 DEF Task
<1>3. \A r \in Resolution : <<t.video, r>> \in Recoverable(t.video) <=> status[<<t.video, r>>] = "pending"
  BY DEF Recoverable, InStatus, RowsOf, Together
<1>4. PICK q \in Resolution : t.id = <<t.video, q>>
  BY <1>1 DEF Recoverable, InStatus, RowsOf
<1>5. status[<<t.video, q>>] = "pending"
  BY <1>1, <1>3, <1>4
<1>6. \A r \in Resolution : <<t.video, r>> \in Job
  BY <1>2 DEF Job
<1>7. q \in R
  BY <1>4, <1>5, <1>6
<1>8. \A r \in Resolution : status[<<t.video, r>>] = "pending" <=> r \in R
  BY <1>2, <1>5, <1>6, <1>7 DEF Together
<1>9. t.res = R
  BY <1>1, <1>3, <1>8
<1> QED
  BY <1>4, <1>9 DEF Whole

LEMMA LoopUniform ==
    ASSUME TypeInv, NEW i \in Instance, NEW R \in SUBSET Resolution, UniformInv(i, R),
           NoFaults' => NoFaults,
           Recovery(i) \/ Wake(i) \/ Drained(i) \/ Take(i) \/ PutBack(i)
    PROVE  UniformInv(i, R)'
<1> USE DEF mediaVars, adminVars, Goto
<1>1. /\ UNCHANGED <<input, apc, call, variant, todo>>
      /\ pc \in [Instance -> WorkerPC] /\ task \in [Instance -> Task \cup {None}]
      /\ found \in [Instance -> SUBSET Task] /\ queue \in [Instance -> Seq(Task)]
  BY DEF Recovery, RecoverReset, RecoverLoad, RecoverPush, Wake, Drained, Take, PutBack,
         workerVars, TypeInv, TypeOK
<1>2. CASE RecoverReset(i)
  <2>1. UNCHANGED <<found, queue>> /\ pc'[i] = "load" /\ pc[i] = "recover"
    BY <1>1, <1>2 DEF RecoverReset
  <2>2. NoFaults' => UNCHANGED status
    <3>1. NoFaults' => InStatus(Job, {"processing"}) = {}
      BY <2>1 DEF UniformInv, Together, Early
    <3>2. NoFaults' => SetStatus(Reclaimable, "pending")
      BY <1>2, ErrorIsFault DEF RecoverReset
    <3>3. status \in [Job -> Status]
      BY DEF TypeInv, TypeOK
    <3>4. NoFaults' => status' = [j \in Job |-> status[j]]
      BY <3>1, <3>2 DEF SetStatus, Reclaimable
    <3> QED
      BY <3>3, <3>4
  <2> QED
    BY <1>1, <2>1, <2>2 DEF UniformInv, InLine, Early, Together, InStatus
<1>3. CASE RecoverLoad(i)
  <2>1. UNCHANGED <<queue, status>> /\ pc[i] = "load" /\ pc'[i] \in {"sleep", "push"}
    BY <1>1, <1>3 DEF RecoverLoad, rowVars
  <2>2. NoFaults' => found'[i] = RecoveredTasks
    BY <1>1, <1>3, ErrorIsFault DEF RecoverLoad
  <2>3. NoFaults' => \A t \in RecoveredTasks : Whole(t, R)
    BY <2>1, RecoveredWhole DEF UniformInv, Early
  <2> QED
    BY <1>1, <2>1, <2>2, <2>3 DEF UniformInv, InLine, Early
<1>4. CASE RecoverPush(i)
  <2>1. UNCHANGED <<task, status>> /\ pc[i] = "push" /\ pc'[i] \in {"sleep", "push"}
    BY <1>1, <1>4 DEF RecoverPush, rowVars
  <2>2. PICK t \in found[i] : /\ IF t.video \in input THEN Enqueue(i, t) ELSE UNCHANGED queue
                              /\ found' = [found EXCEPT ![i] = found[i] \ {t}]
    BY <1>4 DEF RecoverPush
  <2>3. InLine(i)' \subseteq InLine(i) \cup found[i]
    <3>1. t \in Task
      BY <1>1
    <3>2. CASE UNCHANGED queue
      BY <3>2 DEF InLine
    <3>3. CASE Enqueue(i, t)
      BY <1>1, <3>1, <3>3, InLineAppended
    <3> QED
      BY <2>2, <3>2, <3>3
  <2>4. found'[i] \subseteq found[i]
    BY <1>1, <2>2
  <2> QED
    BY <1>1, <2>1, <2>3, <2>4 DEF UniformInv, Early
<1>5. CASE Wake(i) \/ Drained(i)
  <2>1. UNCHANGED <<queue, found, status, task>> /\ pc'[i] \in {"drain", "sleep"}
    BY <1>1, <1>5 DEF Wake, Drained, rowVars
  <2> QED
    BY <1>1, <2>1 DEF UniformInv, InLine, Early
<1>6. CASE Take(i)
  <2>1. UNCHANGED <<found, status>> /\ pc'[i] = "check"
    BY <1>1, <1>6 DEF Take, rowVars
  <2>2. InLine(i) = InLine(i)' \cup {task'[i]}
    BY <1>6, InLineTaken
  <2> QED
    BY <1>1, <2>1, <2>2 DEF UniformInv, Early
<1>7. CASE PutBack(i)
  <2>1. UNCHANGED <<found, status>> /\ pc[i] = "check" /\ pc'[i] = "sleep"
    BY <1>1, <1>7 DEF PutBack, rowVars
  <2>2. InLine(i)' = InLine(i) \cup {task[i]}
    BY <1>7, InLineBack
  <2> QED
    BY <1>1, <2>1, <2>2 DEF UniformInv, Early
<1> QED
  BY <1>2, <1>3, <1>4, <1>5, <1>6, <1>7 DEF Recovery

LEMMA AttemptUniform ==
    ASSUME TypeInv, NEW i \in Instance, NEW R \in SUBSET Resolution, UniformInv(i, R),
           NoFaults' => NoFaults, Attempt(i)
    PROVE  UniformInv(i, R)'
<1> USE DEF mediaVars, rowVars, adminVars, Goto
<1>1. /\ UNCHANGED <<input, apc, call, found>> /\ pc[i] \in Holding \ Early /\ pc'[i] \notin Early
      /\ pc \in [Instance -> WorkerPC] /\ todo \in [Instance -> SUBSET Resolution]
      /\ task \in [Instance -> Task \cup {None}] /\ queue \in [Instance -> Seq(Task)]
  BY DEF Attempt, ReadPending, ReadPendingFails, MarkProcessing, StartTranscode, TranscodeOk,
         TranscodeFails, UpsertVariant, SetFlag, CompleteJobs, PersistFails, ResetJobs,
         ScheduleRetry, DeadLetter, EndRun, Early, TypeInv, TypeOK
<1>2. task[i] \in Task
  BY <1>1 DEF TypeInv, Held
<1>3. UNCHANGED queue \/ Enqueue(i, task[i])
  BY DEF Attempt, ReadPending, ReadPendingFails, MarkProcessing, StartTranscode, TranscodeOk,
         TranscodeFails, UpsertVariant, SetFlag, CompleteJobs, PersistFails, ResetJobs,
         ScheduleRetry, DeadLetter
<1>4. InLine(i)' \subseteq InLine(i) \cup {task[i]}
  BY <1>1, <1>2, <1>3, InLineAppended DEF InLine
<1>5. NoFaults' => task[i].res = R
  BY <1>1 DEF UniformInv, Whole
<1>6. \/ UNCHANGED <<task, todo>>
      \/ UNCHANGED task /\ todo'[i] = PendingOf(i)
      \/ pc'[i] = "drain" /\ todo'[i] = {}
  <2>1. CASE ReadPending(i)
    BY <1>1, <2>1 DEF ReadPending, EndRun
  <2>2. CASE CompleteJobs(i) \/ ScheduleRetry(i) \/ DeadLetter(i)
    BY <1>1, <2>2 DEF CompleteJobs, ScheduleRetry, DeadLetter, EndRun
  <2> QED
    BY <2>1, <2>2
       DEF Attempt, ReadPendingFails, MarkProcessing, StartTranscode, TranscodeOk,
           TranscodeFails, UpsertVariant, SetFlag, PersistFails, ResetJobs
<1>7. NoFaults' => todo'[i] \subseteq R
  BY <1>5, <1>6 DEF UniformInv, PendingOf
<1>8. pc'[i] \in Holding => task'[i] = task[i]
  BY <1>6
<1>9. ASSUME NoFaults', NEW j \in Job, status'[j] # "absent" PROVE j[2] \in R
  <2>1. status'[j] = status[j] \/ status[j] # "absent" \/ j \in Completed(i)
    BY <1>9 DEF Attempt, ReadPending, ReadPendingFails, MarkProcessing, StartTranscode, TranscodeOk,
         TranscodeFails, UpsertVariant, SetFlag, CompleteJobs, PersistFails, ResetJobs,
         ScheduleRetry, DeadLetter, SetStatus, InStatus, Resettable, DeadLettered
  <2>2. j \in Completed(i) => j[2] \in todo[i]
    BY DEF Completed, RowsOf
  <2> QED
    BY <1>9, <2>1, <2>2 DEF UniformInv
<1>10. pc[i] \in Holding => (NoFaults => Whole(task[i], R))
  BY DEF UniformInv
<1> QED
  BY <1>1, <1>4, <1>7, <1>8, <1>9, <1>10 DEF UniformInv

LEMMA AdminUniform ==
    ASSUME TypeInv, NEW i, Instance = {i}, NEW R \in SUBSET Resolution, Request = {R},
           UniformInv(i, R), NoFaults' => NoFaults,
           NEW a \in Admin, Submit(a) \/ DeleteFile(a) \/ Handler(a)
    PROVE  UniformInv(i, R)'
<1> USE DEF mediaVars, rowVars, workerVars
<1>1. /\ UNCHANGED <<input, found, pc, task, todo>> /\ variant' \subseteq variant
      /\ apc \in [Admin -> AdminPC] /\ call \in [Admin -> Call \cup {None}]
      /\ status \in [Job -> Status]
  BY DEF Submit, DeleteFile, Handler, Insert, Pick, Add, Unrecord, Count, ClearFlag, RequestFails,
         TypeInv, TypeOK
<1>2. CASE Submit(a)
  <2>1. PICK v \in Video :
           /\ SetStatus(Revivable(v), "pending")
           /\ call' = [call EXCEPT ![a] = [inst |-> i, video |-> v, res |-> R, key |-> None]]
    BY <1>2 DEF Submit, TypeInv, TypeOK
  <2>2. /\ UNCHANGED queue /\ apc' = [apc EXCEPT ![a] = "insert"]
        /\ \A b \in Admin : apc'[b] \in Asking => call'[b].res = R \/ (b # a /\ apc[b] \in Asking)
        /\ \A b \in Admin : b # a => call'[b] = call[b] /\ apc'[b] = apc[b]
        /\ call'[a].res = R /\ apc'[a] = "insert"
    BY <1>1, <1>2, <2>1 DEF Submit
  <2>3. \A j \in Job : status'[j] # "absent" => status[j] # "absent"
    BY <1>1, <2>1 DEF SetStatus, Revivable, InStatus
  <2>4. Together(R) => Together(R)'
    <3> SUFFICES ASSUME Together(R) PROVE Together(R)'
      OBVIOUS
    <3>1. \A w \in Video, r \in R : <<w, r>> \in Job
      BY DEF Job
    <3>2. \A w \in Video, r \in R :
             status'[<<w, r>>] = IF w = v /\ status[<<w, r>>] \in {"failed", "completed"}
                                 THEN "pending" ELSE status[<<w, r>>]
      BY <2>1, <3>1 DEF SetStatus, Revivable, InStatus, RowsOf, Together
    <3>3. InStatus(Job, {"processing"})' = {}
      BY <2>1 DEF SetStatus, InStatus, Together
    <3> QED
      BY <1>1, <3>2, <3>3 DEF Together
  <2> QED
    BY <1>1, <2>2, <2>3, <2>4 DEF UniformInv, InLine, Asking
<1>3. CASE Insert(a)
  <2>1. call[a] \in Call /\ apc[a] = "insert"
    BY <1>3 DEF Insert, TypeInv, Held
  <2>2. call[a].video \in Video /\ call[a].res \subseteq Resolution
    BY <2>1 DEF Call
  <2>3. NoFaults' => call[a].res = R
    BY <2>1 DEF UniformInv, Asking
  <2>4. SetStatus(InStatus(RowsOf(call[a].video, call[a].res), {"absent"}), "pending")
    BY <1>3 DEF Insert
  <2>5. UNCHANGED <<queue, call>> /\ apc' = [apc EXCEPT ![a] = "pick"]
    BY <1>3 DEF Insert
  <2>6. NoFaults' => \A j \in Job : status'[j] # "absent" => status[j] # "absent" \/ j[2] \in R
    BY <2>3, <2>4 DEF SetStatus, InStatus, RowsOf
  <2>7. NoFaults' /\ Together(R) => Together(R)'
    <3> SUFFICES ASSUME NoFaults', Together(R) PROVE Together(R)'
      OBVIOUS
    <3>1. \A w \in Video, r \in R : <<w, r>> \in Job
      BY DEF Job
    <3>2. \A w \in Video, r \in R :
             status'[<<w, r>>] = IF w = call[a].video /\ status[<<w, r>>] = "absent"
                                 THEN "pending" ELSE status[<<w, r>>]
      BY <2>3, <2>4, <3>1 DEF SetStatus, InStatus, RowsOf
    <3>3. InStatus(Job, {"processing"})' = {}
      BY <2>4 DEF SetStatus, InStatus, Together
    <3> QED
      BY <1>1, <3>2, <3>3 DEF Together
  <2>8. /\ apc'[a] = "pick" /\ \A b \in Admin : b # a => apc'[b] = apc[b]
        /\ \A b \in Admin : call'[b] = call[b]
    BY <1>1, <2>5
  <2>9. \A b \in Admin : /\ apc'[b] \in Asking => apc[b] \in Asking
                         /\ apc'[b] = "add" => apc[b] = "add"
    BY <2>1, <2>8 DEF Asking
  <2>10. InLine(i)' = InLine(i)
    BY <2>5 DEF InLine
  <2> QED
    BY <1>1, <2>6, <2>7, <2>8, <2>9, <2>10 DEF UniformInv
<1>4. Together(R) /\ UNCHANGED status => Together(R)'
  BY <1>1 DEF Together, InStatus
<1>5. CASE Pick(a)
  <2>1. UNCHANGED <<queue, status>> /\ apc[a] = "pick" /\ call[a] \in Call
    BY <1>5 DEF Pick, TypeInv, Held
  <2>2. \/ apc'[a] = "idle"
        \/ /\ apc'[a] = "add" /\ call'[a].res = call[a].res /\ call'[a].video = call[a].video
           /\ call'[a].key[1] = call[a].video
    <3>1. CASE Reply(a)
      BY <1>1, <3>1 DEF Reply
    <3>2. ASSUME NEW j \in InStatus(RowsOf(call[a].video, Resolution), {"pending"}),
                 call' = [call EXCEPT ![a].key = j], apc' = [apc EXCEPT ![a] = "add"]
          PROVE  /\ apc'[a] = "add" /\ call'[a].res = call[a].res /\ call'[a].video = call[a].video
                 /\ call'[a].key[1] = call[a].video
      <4>1. call'[a] = [call[a] EXCEPT !.key = j]
        BY <1>1, <3>2
      <4>2. j[1] = call[a].video
        BY DEF InStatus, RowsOf
      <4> QED
        BY <1>1, <2>1, <3>2, <4>1, <4>2 DEF Call
    <3> QED
      BY <1>5, <3>1, <3>2 DEF Pick
  <2>3. \A b \in Admin : b # a => call'[b] = call[b] /\ apc'[b] = apc[b]
    BY <1>1, <1>5 DEF Pick, Reply
  <2> QED
    BY <1>1, <1>4, <2>1, <2>2, <2>3 DEF UniformInv, InLine, Asking
<1>6. CASE Add(a)
  <2>1. UNCHANGED status /\ apc[a] = "add" /\ call[a] \in Call /\ call[a].key \in Job
    BY <1>6 DEF Add, TypeInv, Held
  <2> DEFINE t == [id |-> call[a].key, video |-> call[a].video, res |-> call[a].res]
  <2>2. t \in Task /\ call[a].inst = i
    BY <2>1 DEF Call, Task
  <2>3. UNCHANGED queue \/ Enqueue(i, t)
    BY <1>6, <2>2 DEF Add
  <2>4. NoFaults' => Whole(t, R)
    BY <2>1 DEF UniformInv, Asking, Whole
  <2> HIDE DEF t
  <2>5. InLine(i)' \subseteq InLine(i) \cup {t}
    <3>1. CASE UNCHANGED queue
      BY <3>1 DEF InLine
    <3>2. CASE Enqueue(i, t)
      BY <2>2, <3>2, InLineAppended DEF TypeInv, TypeOK
    <3> QED
      BY <2>3, <3>1, <3>2
  <2>6. /\ apc'[a] = "idle"
        /\ \A b \in Admin : b # a => call'[b] = call[b] /\ apc'[b] = apc[b]
    BY <1>1, <1>6 DEF Add, Reply
  <2> QED
    BY <1>1, <1>4, <2>1, <2>4, <2>5, <2>6 DEF UniformInv, Asking
<1>7. CASE DeleteFile(a) \/ Unrecord(a) \/ Count(a) \/ ClearFlag(a) \/ RequestFails(a)
  <2>1. UNCHANGED <<queue, status>>
    BY <1>7 DEF DeleteFile, Unrecord, Count, ClearFlag, RequestFails
  <2>2. /\ apc'[a] \notin Asking
        /\ \A b \in Admin : b # a => call'[b] = call[b] /\ apc'[b] = apc[b]
    BY <1>1, <1>7 DEF DeleteFile, Unrecord, Count, ClearFlag, RequestFails, Reply, Asking
  <2> QED
    BY <1>1, <1>4, <2>1, <2>2 DEF UniformInv, InLine, Asking
<1> QED
  BY <1>2, <1>3, <1>5, <1>6, <1>7 DEF Handler

LEMMA EnvironmentUniform ==
    ASSUME TypeInv, NEW i \in Instance, NEW R \in SUBSET Resolution, Fragile = {},
           UniformInv(i, R), NoFaults' => NoFaults,
           Cancel \/ Age \/ LoseInput \/ Due(i) \/ Crash(i) \/ UNCHANGED vars
    PROVE  UniformInv(i, R)'
<1> USE DEF mediaVars, rowVars, workerVars, adminVars
<1>1. CASE Cancel
  <2>1. UNCHANGED <<input, queue, found, pc, task, todo, apc, call, variant>>
    BY <1>1 DEF Cancel
  <2>2. PICK v \in Video : SetStatus(Cancellable(v), "failed")
    BY <1>1 DEF Cancel
  <2>3. \A j \in Job : status'[j] # "absent" => status[j] # "absent"
    BY <2>2 DEF SetStatus, Cancellable, InStatus
  <2>4. Together(R) => Together(R)'
    <3> SUFFICES ASSUME Together(R) PROVE Together(R)'
      OBVIOUS
    <3>1. \A w \in Video, r \in R : <<w, r>> \in Job
      BY DEF Job
    <3>2. \A w \in Video, r \in R :
             status'[<<w, r>>] = IF w = v /\ status[<<w, r>>] \in {"pending", "processing"}
                                 THEN "failed" ELSE status[<<w, r>>]
      BY <2>2, <3>1 DEF SetStatus, Cancellable, InStatus, RowsOf
    <3>3. InStatus(Job, {"processing"})' = {}
      BY <2>2 DEF SetStatus, InStatus, Together
    <3> QED
      BY <2>1, <3>2, <3>3 DEF Together
  <2> QED
    BY <2>1, <2>3, <2>4 DEF UniformInv, InLine
<1>2. CASE Crash(i)
  <2>1. ~NoFaults' /\ UNCHANGED input
    BY <1>2, BoundAssumption DEF Crash, NoFaults, TypeInv, TypeOK
  <2> QED
    BY <2>1 DEF UniformInv
<1>3. CASE Age \/ Due(i) \/ UNCHANGED vars
  <2>1. UNCHANGED <<input, queue, found, pc, task, todo, apc, call, variant, status>>
    BY <1>3 DEF Age, Due, vars
  <2> QED
    BY <2>1 DEF UniformInv, InLine, Together, InStatus
<1>4. ~LoseInput
  BY DEF LoseInput
<1> QED
  BY <1>1, <1>2, <1>3, <1>4
-----------------------------------------------------------------------------
\* Whoever owned a row still does, if its queue, its recovered tasks and the askers stay.
LEMMA LoopKept ==
    ASSUME TypeInv, NEW i \in Instance, NEW R \in SUBSET Resolution, UniformInv(i, R), KeptInv(i),
           NoFaults' => NoFaults,
           Recovery(i) \/ Wake(i) \/ Drained(i) \/ Take(i) \/ PutBack(i)
    PROVE  KeptInv(i)'
<1> USE DEF mediaVars, adminVars, Goto
<1> SUFFICES ASSUME NoFaults', NEW j \in Job, status'[j] = "pending" PROVE Kept(i, j)'
  BY DEF KeptInv, InStatus
<1>1. /\ UNCHANGED <<input, apc, call, todo>> /\ NoFaults
      /\ pc \in [Instance -> WorkerPC] /\ task \in [Instance -> Task \cup {None}]
      /\ found \in [Instance -> SUBSET Task] /\ queue \in [Instance -> Seq(Task)]
      /\ status \in [Job -> Status]
  BY DEF Recovery, RecoverReset, RecoverLoad, RecoverPush, Wake, Drained, Take, PutBack,
         workerVars, TypeInv, TypeOK
<1>2. status[j] = "pending"
  <2>1. CASE RecoverReset(i)
    <3>1. InStatus(Job, {"processing"}) = {}
      BY <1>1, <2>1 DEF UniformInv, Together, Early, RecoverReset
    <3>2. SetStatus(Reclaimable, "pending")
      BY <2>1, ErrorIsFault DEF RecoverReset
    <3> QED
      BY <3>1, <3>2 DEF SetStatus, Reclaimable
  <2>2. CASE ~RecoverReset(i)
    BY <2>2 DEF Recovery, RecoverLoad, RecoverPush, Wake, Drained, Take, PutBack, rowVars
  <2> QED
    BY <2>1, <2>2
<1>3. Kept(i, j)
  BY <1>1, <1>2 DEF KeptInv, InStatus
<1>4. CASE RecoverReset(i) \/ RecoverLoad(i) \/ Wake(i) \/ Drained(i)
  <2>1. pc[i] \notin Holding /\ UNCHANGED queue
    BY <1>4 DEF RecoverReset, RecoverLoad, Wake, Drained
  <2>2. found[i] \subseteq found'[i]
    BY <1>1, <1>4 DEF RecoverReset, RecoverLoad, Wake, Drained, UniformInv, Early
  <2> QED
    BY <1>1, <1>3, <2>1, <2>2 DEF Kept, InLine, Works
<1>5. CASE RecoverPush(i)
  <2>1. pc[i] \notin Holding
    BY <1>5 DEF RecoverPush
  <2>2. PICK t \in found[i] : /\ IF t.video \in input THEN Enqueue(i, t) ELSE UNCHANGED queue
                              /\ found' = [found EXCEPT ![i] = found[i] \ {t}]
    BY <1>5 DEF RecoverPush
  <2>3. t \in Task /\ t.video \in input
    BY <1>1 DEF UniformInv, Task
  <2>4. InLine(i)' = InLine(i) \cup {t}
    BY <1>1, <2>2, <2>3, InLineAppended
  <2>5. found'[i] = found[i] \ {t}
    BY <1>1, <2>2
  <2> QED
    BY <1>1, <1>3, <2>1, <2>4, <2>5 DEF Kept, Works
<1>6. CASE Take(i)
  <2>1. UNCHANGED found /\ pc[i] = "drain" /\ pc'[i] = "check"
    BY <1>1, <1>6 DEF Take
  <2>2. InLine(i) = InLine(i)' \cup {task'[i]}
    BY <1>6, InLineTaken
  <2> QED
    BY <1>1, <1>3, <2>1, <2>2 DEF Kept, Works, Reading
<1>7. CASE PutBack(i)
  <2>1. UNCHANGED found /\ pc[i] = "check"
    BY <1>7 DEF PutBack
  <2>2. InLine(i)' = InLine(i) \cup {task[i]}
    BY <1>7, InLineBack
  <2> QED
    BY <1>1, <1>3, <2>1, <2>2 DEF Kept, Works
<1> QED
  BY <1>4, <1>5, <1>6, <1>7 DEF Recovery

LEMMA AttemptKept ==
    ASSUME TypeInv, NEW i \in Instance, NEW R \in SUBSET Resolution, UniformInv(i, R), KeptInv(i),
           NoFaults' => NoFaults, Attempt(i)
    PROVE  KeptInv(i)'
<1> USE DEF mediaVars, rowVars, adminVars, Goto
<1> SUFFICES ASSUME NoFaults', NEW j \in Job, status'[j] = "pending" PROVE Kept(i, j)'
  BY DEF KeptInv, InStatus
<1>1. /\ UNCHANGED <<input, apc, call, found>> /\ pc[i] \in Holding /\ NoFaults
      /\ pc \in [Instance -> WorkerPC] /\ todo \in [Instance -> SUBSET Resolution]
      /\ task \in [Instance -> Task \cup {None}] /\ queue \in [Instance -> Seq(Task)]
      /\ status \in [Job -> Status]
  BY DEF Attempt, ReadPending, ReadPendingFails, MarkProcessing, StartTranscode, TranscodeOk,
         TranscodeFails, UpsertVariant, SetFlag, CompleteJobs, PersistFails, ResetJobs,
         ScheduleRetry, DeadLetter, EndRun, TypeInv, TypeOK
<1>2. task[i] \in Task /\ j[1] \in Video /\ j[2] \in Resolution /\ j = <<j[1], j[2]>>
  BY <1>1 DEF TypeInv, Held, Job
<1>3. InLine(i) \subseteq InLine(i)'
  <2>1. UNCHANGED queue \/ Enqueue(i, task[i])
    BY DEF Attempt, ReadPending, ReadPendingFails, MarkProcessing, StartTranscode, TranscodeOk,
         TranscodeFails, UpsertVariant, SetFlag, CompleteJobs, PersistFails, ResetJobs,
         ScheduleRetry, DeadLetter
  <2> QED
    BY <1>1, <1>2, <2>1, InLineAppended DEF InLine
<1>4. CASE ResetJobs(i)
  <2>1. UNCHANGED <<task, queue>> /\ pc[i] = "reset" /\ pc'[i] = "retry"
    BY <1>1, <1>4 DEF ResetJobs
  <2>2. SetStatus(Resettable(i), "pending")
    BY <1>4, ErrorIsFault DEF ResetJobs
  <2>3. status[j] = "pending" \/ j[1] = task[i].video
    BY <2>2 DEF SetStatus, Resettable, RowsOf, InStatus
  <2>4. CASE j[1] = task[i].video
    BY <2>1, <2>4 DEF Kept, Works, Reading
  <2>5. CASE j[1] # task[i].video
    <3>1. Kept(i, j) /\ ~Works(i, j)
      BY <1>1, <2>3, <2>5 DEF KeptInv, InStatus, Works
    <3> QED
      BY <1>1, <1>3, <3>1 DEF Kept
  <2> QED
    BY <2>4, <2>5
<1>5. ASSUME ~ResetJobs(i) PROVE status[j] = "pending"
  BY <1>5 DEF Attempt, ReadPending, ReadPendingFails, MarkProcessing, StartTranscode, TranscodeOk,
         TranscodeFails, UpsertVariant, SetFlag, CompleteJobs, PersistFails, ResetJobs,
         ScheduleRetry, DeadLetter, SetStatus
<1>6. ASSUME ~ResetJobs(i), ~Works(i, j) PROVE Kept(i, j)'
  <2>1. Kept(i, j)
    BY <1>1, <1>5, <1>6 DEF KeptInv, InStatus
  <2> QED
    BY <1>1, <1>3, <1>6, <2>1 DEF Kept
<1>7. ASSUME ~ResetJobs(i), Works(i, j) PROVE Kept(i, j)'
  <2>1. task[i].video = j[1] /\ status[j] = "pending" /\ (pc[i] \in Reading => j[2] \in todo[i])
    BY <1>5, <1>7 DEF Works
  <2>2. j[2] \in task[i].res
    BY <1>1, <1>2, <2>1 DEF UniformInv, Whole
  <2>3. CASE ReadPending(i)
    <3>1. j[2] \in PendingOf(i)
      BY <1>2, <2>1, <2>2 DEF PendingOf
    <3>2. todo'[i] = PendingOf(i) /\ task' = task /\ pc'[i] = "mark"
      BY <1>1, <2>3, <3>1 DEF ReadPending
    <3> QED
      BY <2>1, <3>1, <3>2 DEF Kept, Works
  <2>4. CASE MarkProcessing(i)
    <3>1. SetStatus(InStatus(RowsOf(task[i].video, todo[i]), {"pending"}), "processing")
      BY <2>4, ErrorIsFault DEF MarkProcessing
    <3>2. j \in InStatus(RowsOf(task[i].video, todo[i]), {"pending"})
      BY <1>2, <2>1, <2>4 DEF InStatus, RowsOf, MarkProcessing, Reading
    <3> QED
      BY <3>1, <3>2 DEF SetStatus
  <2>5. CASE CompleteJobs(i)
    <3>1. j \in Completed(i)
      BY <1>2, <2>1, <2>5 DEF Completed, RowsOf, CompleteJobs, Reading
    <3> QED
      BY <2>5, <3>1 DEF CompleteJobs, SetStatus
  <2>6. CASE DeadLetter(i)
    <3>1. SetStatus(DeadLettered(i), "failed")
      BY <2>6, ErrorIsFault DEF DeadLetter
    <3>2. j \in DeadLettered(i)
      BY <1>2, <2>1 DEF DeadLettered, RowsOf, InStatus
    <3> QED
      BY <3>1, <3>2 DEF SetStatus
  <2>7. CASE ScheduleRetry(i)
    <3>1. \/ UNCHANGED task /\ pc'[i] = "dead"
          \/ Enqueue(i, task[i])
      BY <1>1, <2>7 DEF ScheduleRetry
    <3>2. CASE UNCHANGED task /\ pc'[i] = "dead"
      BY <2>1, <3>2 DEF Kept, Works, Reading
    <3>3. CASE Enqueue(i, task[i])
      <4>1. task[i] \in InLine(i)'
        BY <1>1, <1>2, <3>3, InLineAppended
      <4> QED
        BY <2>1, <4>1 DEF Kept
    <3> QED
      BY <3>1, <3>2, <3>3
  <2>8. CASE ReadPendingFails(i) \/ PersistFails(i) \/ TranscodeFails(i)
    <3>1. UNCHANGED task /\ pc'[i] \in {"retry", "reset"}
      BY <1>1, <2>8 DEF ReadPendingFails, PersistFails, TranscodeFails
    <3> QED
      BY <2>1, <3>1 DEF Kept, Works, Reading
  <2>9. CASE StartTranscode(i) \/ TranscodeOk(i) \/ UpsertVariant(i) \/ SetFlag(i)
    <3>1. UNCHANGED <<task, todo>> /\ pc[i] \in Reading /\ pc'[i] \in Holding
      BY <1>1, <2>9 DEF StartTranscode, TranscodeOk, UpsertVariant, SetFlag, Reading
    <3> QED
      BY <2>1, <3>1 DEF Kept, Works
  <2> QED
    BY <1>7, <2>3, <2>4, <2>5, <2>6, <2>7, <2>8, <2>9 DEF Attempt
<1> QED
  BY <1>4, <1>6, <1>7

LEMMA AdminKept ==
    ASSUME TypeInv, NEW i, Instance = {i}, NEW R \in SUBSET Resolution, UniformInv(i, R),
           KeptInv(i), NoFaults' => NoFaults,
           NEW a \in Admin, Submit(a) \/ DeleteFile(a) \/ Handler(a)
    PROVE  KeptInv(i)'
<1> USE DEF mediaVars, rowVars, workerVars
<1> SUFFICES ASSUME NoFaults', NEW j \in Job, status'[j] = "pending" PROVE Kept(i, j)'
  BY DEF KeptInv, InStatus
<1>1. /\ UNCHANGED <<found, pc, task, todo>> /\ NoFaults /\ i \in Instance
      /\ apc \in [Admin -> AdminPC] /\ call \in [Admin -> Call \cup {None}]
      /\ queue \in [Instance -> Seq(Task)]
  BY DEF Submit, DeleteFile, Handler, Insert, Pick, Add, Unrecord, Count, ClearFlag, RequestFails,
         TypeInv, TypeOK
<1>2. status[j] = "pending" => Kept(i, j)
  BY <1>1 DEF KeptInv, InStatus
<1>3. \A b \in Admin : b # a => call'[b] = call[b] /\ apc'[b] = apc[b]
  BY <1>1 DEF Submit, DeleteFile, Handler, Insert, Pick, Add, Unrecord, Count, ClearFlag,
              RequestFails, Reply
<1>4. ASSUME status[j] = "pending", InLine(i) \subseteq InLine(i)',
             apc[a] \in Asking /\ call[a].video = j[1] => Kept(i, j)'
      PROVE  Kept(i, j)'
  <2>1. Works(i, j) => Works(i, j)'
    BY <1>1 DEF Works
  <2> QED
    BY <1>1, <1>2, <1>3, <1>4, <2>1 DEF Kept
<1>5. CASE Submit(a)
  <2>1. PICK v \in Video :
           /\ SetStatus(Revivable(v), "pending")
           /\ \E Q \in Request :
                 call' = [call EXCEPT ![a] = [inst |-> i, video |-> v, res |-> Q, key |-> None]]
    BY <1>5 DEF Submit, TypeInv, TypeOK
  <2>2. UNCHANGED queue /\ apc'[a] = "insert" /\ apc[a] = "idle" /\ call'[a].video = v
    BY <1>1, <1>5, <2>1 DEF Submit
  <2>3. CASE j[1] = v
    BY <2>2, <2>3 DEF Kept, Asking
  <2>4. CASE j[1] # v
    BY <1>4, <2>1, <2>2, <2>4 DEF SetStatus, Revivable, InStatus, RowsOf, InLine, Asking
  <2> QED
    BY <2>3, <2>4
<1>6. CASE Insert(a)
  <2>1. SetStatus(InStatus(RowsOf(call[a].video, call[a].res), {"absent"}), "pending")
    BY <1>6 DEF Insert
  <2>2. UNCHANGED <<queue, call>> /\ apc'[a] = "pick" /\ apc[a] = "insert"
    BY <1>1, <1>6 DEF Insert
  <2>3. CASE j[1] = call[a].video
    BY <2>2, <2>3 DEF Kept, Asking
  <2>4. CASE j[1] # call[a].video
    BY <1>4, <2>1, <2>2, <2>4 DEF SetStatus, InStatus, RowsOf, InLine, Asking
  <2> QED
    BY <2>3, <2>4
<1>7. CASE Pick(a)
  <2>1. UNCHANGED <<queue, status>> /\ apc[a] = "pick" /\ call[a] \in Call
    BY <1>7 DEF Pick, TypeInv, Held
  <2>2. CASE j[1] = call[a].video
    <3>1. j \in InStatus(RowsOf(call[a].video, Resolution), {"pending"})
      BY <2>1, <2>2 DEF InStatus, RowsOf, Job
    <3>2. PICK k : call' = [call EXCEPT ![a].key = k] /\ apc' = [apc EXCEPT ![a] = "add"]
      BY <1>7, <3>1 DEF Pick
    <3>3. call'[a].video = call[a].video /\ apc'[a] = "add"
      BY <1>1, <2>1, <3>2 DEF Call
    <3> QED
      BY <2>2, <3>3 DEF Kept, Asking
  <2>3. CASE j[1] # call[a].video
    BY <1>4, <2>1, <2>3 DEF InLine
  <2> QED
    BY <2>2, <2>3
<1>8. CASE Add(a)
  <2>1. UNCHANGED status /\ apc[a] = "add" /\ call[a] \in Call /\ call[a].key \in Job
    BY <1>8 DEF Add, TypeInv, Held
  <2> DEFINE t == [id |-> call[a].key, video |-> call[a].video, res |-> call[a].res]
  <2>2. t \in Task /\ call[a].inst = i /\ t.id = call[a].key /\ t.video = call[a].video
    BY <2>1 DEF Call, Task
  <2>3. IF Queued(i, call[a].key) THEN UNCHANGED queue ELSE Enqueue(i, t)
    BY <1>8, <2>2 DEF Add
  <2> HIDE DEF t
  <2>4. CASE Queued(i, call[a].key)
    <3>1. PICK u \in InLine(i) : u.id = call[a].key
      BY <2>4 DEF Queued, InLine
    <3>2. u.video = call[a].video
      BY <1>1, <2>1, <3>1 DEF UniformInv, Whole
    <3>3. InLine(i)' = InLine(i)
      BY <2>3, <2>4 DEF InLine
    <3>4. call[a].video = j[1] => Kept(i, j)'
      BY <3>1, <3>2, <3>3 DEF Kept
    <3> QED
      BY <1>4, <2>1, <3>3, <3>4
  <2>5. CASE ~Queued(i, call[a].key)
    <3>1. InLine(i)' = InLine(i) \cup {t}
      BY <1>1, <2>2, <2>3, <2>5, InLineAppended
    <3>2. call[a].video = j[1] => Kept(i, j)'
      BY <2>2, <3>1 DEF Kept
    <3> QED
      BY <1>4, <2>1, <3>1, <3>2
  <2> QED
    BY <2>4, <2>5
<1>9. CASE DeleteFile(a) \/ Unrecord(a) \/ Count(a) \/ ClearFlag(a)
  <2>1. UNCHANGED <<queue, status>> /\ apc[a] \notin Asking
    BY <1>9 DEF DeleteFile, Unrecord, Count, ClearFlag, Asking
  <2> QED
    BY <1>4, <2>1 DEF InLine
<1>10. CASE RequestFails(a)
  BY <1>10, ErrorIsFault DEF RequestFails
<1> QED
  BY <1>5, <1>6, <1>7, <1>8, <1>9, <1>10 DEF Handler

LEMMA EnvironmentKept ==
    ASSUME TypeInv, NEW i \in Instance, KeptInv(i), NoFaults' => NoFaults,
           Cancel \/ Age \/ LoseInput \/ Due(i) \/ Crash(i) \/ UNCHANGED vars
    PROVE  KeptInv(i)'
<1> USE DEF mediaVars, rowVars, workerVars, adminVars
<1> SUFFICES ASSUME NoFaults', NEW j \in Job, status'[j] = "pending" PROVE Kept(i, j)'
  BY DEF KeptInv, InStatus
<1>1. ~Crash(i)
  BY BoundAssumption DEF Crash, NoFaults, TypeInv, TypeOK
<1>2. UNCHANGED <<queue, found, pc, task, todo, apc, call>>
  BY <1>1 DEF Cancel, Age, LoseInput, Due, vars
<1>3. status[j] = "pending"
  BY <1>1 DEF Cancel, Age, LoseInput, Due, vars, SetStatus
<1> QED
  BY <1>2, <1>3 DEF KeptInv, InStatus, Kept, Works, InLine
-----------------------------------------------------------------------------
\* One process, every submission for the same resolutions, media files that stay: without
\* faults a pending row always is somebody's work (handlers/admin/admin_transcode.rs
\* transcode_video, task_queue.rs add_task, run_task, recover_stale_jobs).  With two
\* processes it does not hold: one may restart while a variant is deleted, recover a task
\* for some of the rows, and take it for the whole.
THEOREM PendingIsOwned ==
    ASSUME NEW i, Instance = {i}, NEW R \in SUBSET Resolution, Request = {R}, Fragile = {}
    PROVE  Spec => []PendingOwned
<1> DEFINE Inv == UniformInv(i, R) /\ KeptInv(i)
<1>1. Init => Inv
  <2> SUFFICES ASSUME Init PROVE Inv
    OBVIOUS
  <2>1. InLine(i) = {} /\ found[i] = {} /\ todo[i] = {} /\ pc[i] = "recover"
    BY DEF Init, InLine
  <2>2. \A j \in Job : status[j] = "absent"
    BY DEF Init
  <2>3. Together(R)
    <3>1. \A v \in Video, r \in R : <<v, r>> \in Job
      BY DEF Job
    <3> QED
      BY <2>2, <3>1 DEF Together, InStatus, Init
  <2> QED
    BY <2>1, <2>2, <2>3 DEF Init, UniformInv, KeptInv, InStatus, Asking
<1>2. TypeInv /\ (NoFaults' => NoFaults) /\ Inv /\ [Next]_vars => Inv'
  <2> SUFFICES ASSUME TypeInv, NoFaults' => NoFaults, UniformInv(i, R), KeptInv(i), [Next]_vars
               PROVE  UniformInv(i, R)' /\ KeptInv(i)'
    OBVIOUS
  <2>1. i \in Instance
    OBVIOUS
  <2>2. CASE Recovery(i) \/ Wake(i) \/ Drained(i) \/ Take(i) \/ PutBack(i)
    BY <2>1, <2>2, LoopUniform, LoopKept
  <2>3. CASE Attempt(i)
    BY <2>1, <2>3, AttemptUniform, AttemptKept
  <2>4. ASSUME NEW a \in Admin, Submit(a) \/ DeleteFile(a) \/ Handler(a)
        PROVE  UniformInv(i, R)' /\ KeptInv(i)'
    BY <2>4, AdminUniform, AdminKept
  <2>5. CASE Cancel \/ Age \/ LoseInput \/ Due(i) \/ Crash(i) \/ UNCHANGED vars
    BY <2>1, <2>5, EnvironmentUniform, EnvironmentKept
  <2> QED
    BY <2>2, <2>3, <2>4, <2>5 DEF Next, Worker
<1>3. TypeInv /\ Inv => PendingOwned
  <2> SUFFICES ASSUME TypeInv, Inv, NoFaults, NEW j \in Job, status[j] = "pending"
               PROVE  \/ \E k \in DOMAIN queue[i] : Covers(queue[i][k], j)
                      \/ pc[i] \in Holding /\ Covers(task[i], j)
                      \/ \E t \in found[i] : Covers(t, j)
                      \/ \E a \in Admin : apc[a] \in Asking /\ call[a].video = j[1]
    BY DEF PendingOwned, NoFaults, InStatus, Asking
  <2>1. j[2] \in R /\ Kept(i, j)
    BY DEF UniformInv, KeptInv, InStatus
  <2> QED
    BY <2>1 DEF Kept, Works, Covers, Whole, InLine, UniformInv
<1> HIDE DEF Inv
<1>4. [Next]_vars /\ TypeInv => (NoFaults' => NoFaults)
  BY FaultsStay
<1> QED
  BY <1>1, <1>2, <1>3, <1>4, TypeInvariant, PTL DEF Spec

-----------------------------------------------------------------------------
\* TranscodeQueue implements TranscodeJobs where no variant is deleted, and what
\* TranscodeJobs promises of completed jobs.


\* Where a run is, and what it has recorded by then.
Phase(i) ==
    /\ todo[i] # {} => pc[i] \in Holding \ {"check"}
    /\ pc[i] \in {"mark", "start", "transcode", "persist", "flag", "complete", "reset"} => todo[i] # {}
    /\ pc[i] = "persist" => /\ left[i] \subseteq todo[i]
                            /\ RowsOf(task[i].video, todo[i] \ left[i]) \subseteq variant
    /\ pc[i] \in {"flag", "complete"} => RowsOf(task[i].video, todo[i]) \subseteq variant
    /\ pc[i] = "complete" => task[i].video \in flagged

NoDeletion == \A a \in Admin : apc[a] \notin {"unrecord", "count", "clear"}

RunInv == NoDeletion /\ \A i \in Instance : Phase(i)

\* The phase of a run is kept when its worker stays where it is and records only grow.
LEMMA PhaseKept ==
    ASSUME NEW i \in Instance, Phase(i),
           pc'[i] = pc[i], task'[i] = task[i], todo'[i] = todo[i], left'[i] = left[i],
           variant \subseteq variant', flagged \subseteq flagged'
    PROVE  Phase(i)'
BY DEF Phase, RowsOf

\* What the steps of one worker leave alone: the other workers, the handlers and the records.
Alone(i) ==
    /\ \A k \in Instance : k # i => /\ pc'[k] = pc[k] /\ task'[k] = task[k]
                                    /\ todo'[k] = todo[k] /\ left'[k] = left[k]
    /\ apc' = apc /\ variant \subseteq variant' /\ flagged \subseteq flagged'

LEMMA AloneKeeps ==
    ASSUME RunInv, NEW i \in Instance, Alone(i), Phase(i)'
    PROVE  RunInv'
<1>1. NoDeletion'
  BY DEF Alone, RunInv, NoDeletion
<1>2. ASSUME NEW k \in Instance PROVE Phase(k)'
  <2>1. CASE k = i
    BY <2>1
  <2>2. CASE k # i
    BY <2>2, PhaseKept DEF Alone, RunInv
  <2> QED
    BY <2>1, <2>2
<1> QED
  BY <1>1, <1>2 DEF RunInv

\* Recovery, and the loop around a run: nothing is being run.
LEMMA LoopPhase ==
    ASSUME TypeInv, RunInv, NEW i \in Instance,
           Recovery(i) \/ Wake(i) \/ Drained(i) \/ Take(i) \/ PutBack(i)
    PROVE  Alone(i) /\ Phase(i)' /\ todo'[i] = {} /\ todo[i] = {} /\ UNCHANGED todo
<1> USE DEF rowVars, mediaVars, workerVars, retryVars, adminVars, boundVars, Goto, TypeInv, TypeOK
<1>1. pc[i] \notin Holding \ {"check"} /\ UNCHANGED todo
  BY DEF Recovery, RecoverReset, RecoverLoad, RecoverPush, Wake, Drained, Take, PutBack
<1>2. todo[i] = {} /\ todo'[i] = {}
  BY <1>1 DEF RunInv, Phase
<1>3. pc'[i] \in {"load", "sleep", "push", "drain", "check"}
  BY DEF Recovery, RecoverReset, RecoverLoad, RecoverPush, Wake, Drained, Take, PutBack
<1>4. Phase(i)'
  BY <1>2, <1>3 DEF Phase
<1>5. Alone(i)
  <2>1. CASE Recovery(i)
    BY <2>1 DEF Recovery, RecoverReset, RecoverLoad, RecoverPush, Alone
  <2>2. CASE Wake(i) \/ Drained(i) \/ Take(i) \/ PutBack(i)
    BY <2>2 DEF Wake, Drained, Take, PutBack, Alone
  <2> QED
    BY <2>1, <2>2
<1> QED
  BY <1>1, <1>2, <1>4, <1>5

\* The steps of a run, one by one: each phase leads to the next one.
LEMMA AttemptPhase ==
    ASSUME TypeInv, RunInv, NEW i \in Instance, Attempt(i)
    PROVE  Alone(i) /\ Phase(i)'
<1> USE DEF rowVars, mediaVars, retryVars, adminVars, boundVars, Goto, RowsOf, Phase
<1>1. Phase(i)
  BY DEF RunInv
<1>2. /\ pc \in [Instance -> WorkerPC] /\ task \in [Instance -> Task \cup {None}]
      /\ todo \in [Instance -> SUBSET Resolution] /\ left \in [Instance -> SUBSET Resolution]
  BY DEF TypeInv, TypeOK
<1>3. CASE ReadPending(i)
  <2>1. CASE PendingOf(i) = {}
    BY <1>1, <1>2, <1>3, <2>1 DEF ReadPending, EndRun, Alone
  <2>2. CASE PendingOf(i) # {}
    <3>1. /\ todo' = [todo EXCEPT ![i] = PendingOf(i)] /\ pc' = [pc EXCEPT ![i] = "mark"]
          /\ UNCHANGED <<task, left, variant, flagged, apc>>
      BY <1>3, <2>2 DEF ReadPending
    <3> QED
      BY <1>1, <1>2, <2>2, <3>1 DEF Alone
  <2> QED
    BY <2>1, <2>2
<1>4. CASE ReadPendingFails(i)
  BY <1>1, <1>2, <1>4 DEF ReadPendingFails, Alone
<1>5. CASE MarkProcessing(i)
  BY <1>1, <1>2, <1>5 DEF MarkProcessing, Alone
<1>6. CASE StartTranscode(i)
  BY <1>1, <1>2, <1>6 DEF StartTranscode, Alone
<1>7. CASE TranscodeOk(i)
  BY <1>1, <1>2, <1>7 DEF TranscodeOk, Alone
<1>8. CASE TranscodeFails(i)
  BY <1>1, <1>2, <1>8 DEF TranscodeFails, Alone
<1>9. CASE UpsertVariant(i)
  <2>1. PICK r \in left[i] :
           /\ variant' = variant \cup {<<task[i].video, r>>}
           /\ left' = [left EXCEPT ![i] = left[i] \ {r}]
           /\ pc' = [pc EXCEPT ![i] = IF left[i] = {r} THEN "flag" ELSE "persist"]
    BY <1>9 DEF UpsertVariant
  <2>2. UNCHANGED <<task, todo, flagged, apc>> /\ pc[i] = "persist"
    BY <1>9 DEF UpsertVariant
  <2>3. Alone(i)
    BY <1>2, <2>1, <2>2 DEF Alone
  <2>4. RowsOf(task[i].video, todo[i] \ (left[i] \ {r})) \subseteq variant'
    BY <1>1, <2>1, <2>2
  <2>0. /\ left'[i] = left[i] \ {r} /\ pc'[i] = IF left[i] = {r} THEN "flag" ELSE "persist"
        /\ todo'[i] = todo[i] /\ task'[i] = task[i] /\ todo[i] # {} /\ left[i] \subseteq todo[i]
    BY <1>1, <1>2, <2>1, <2>2
  <2>5. CASE left[i] = {r}
    BY <2>0, <2>3, <2>4, <2>5
  <2>6. CASE left[i] # {r}
    BY <2>0, <2>3, <2>4, <2>6
  <2> QED
    BY <2>5, <2>6
<1>10. CASE SetFlag(i)
  BY <1>1, <1>2, <1>10 DEF SetFlag, Alone
<1>11. CASE CompleteJobs(i)
  BY <1>1, <1>2, <1>11 DEF CompleteJobs, EndRun, Alone
<1>12. CASE PersistFails(i)
  BY <1>1, <1>2, <1>12 DEF PersistFails, Alone
<1>13. CASE ResetJobs(i)
  BY <1>1, <1>2, <1>13 DEF ResetJobs, Alone
<1>14. CASE ScheduleRetry(i)
  <2>1. \/ pc' = [pc EXCEPT ![i] = "dead"] /\ UNCHANGED <<task, todo, left>>
        \/ EndRun(i)
    BY <1>14 DEF ScheduleRetry
  <2>2. UNCHANGED <<variant, flagged, apc>> /\ pc[i] = "retry"
    BY <1>14 DEF ScheduleRetry
  <2> QED
    BY <1>1, <1>2, <2>1, <2>2 DEF EndRun, Alone
<1>15. CASE DeadLetter(i)
  BY <1>1, <1>2, <1>15 DEF DeadLetter, EndRun, Alone
<1> QED
  BY <1>3, <1>4, <1>5, <1>6, <1>7, <1>8, <1>9, <1>10, <1>11, <1>12, <1>13, <1>14, <1>15 DEF Attempt

\* The handlers, the environment and a crash.
LEMMA AdminRun ==
    ASSUME TypeInv, RunInv, Deletable = {}, NEW a \in Admin, Submit(a) \/ DeleteFile(a) \/ Handler(a)
    PROVE  RunInv' /\ UNCHANGED <<task, todo, variant, flagged>>
<1> USE DEF rowVars, mediaVars, workerVars, retryVars, adminVars, boundVars
<1>1. apc[a] \notin {"unrecord", "count", "clear"} /\ ~DeleteFile(a)
  BY DEF RunInv, NoDeletion, DeleteFile
<1>2. CASE Submit(a) \/ Insert(a) \/ Pick(a) \/ Add(a) \/ RequestFails(a)
  <2>1. UNCHANGED <<pc, task, todo, left, variant, flagged>>
    BY <1>2 DEF Submit, Insert, Pick, Add, RequestFails
  <2>2. \E s \in {"insert", "pick", "add", "idle"} : apc' = [apc EXCEPT ![a] = s] \/ apc' = apc
    BY <1>2 DEF Submit, Insert, Pick, Add, RequestFails, Reply
  <2>3. NoDeletion'
    BY <2>2 DEF RunInv, NoDeletion, TypeInv, TypeOK
  <2>4. \A i \in Instance : Phase(i)'
    BY <2>1, PhaseKept DEF RunInv
  <2> QED
    BY <2>1, <2>3, <2>4 DEF RunInv
<1> QED
  BY <1>1, <1>2 DEF Handler, Unrecord, Count, ClearFlag

LEMMA EnvironmentRun ==
    ASSUME RunInv, Cancel \/ Age \/ LoseInput \/ (\E i \in Instance : Due(i)) \/ UNCHANGED vars
    PROVE  RunInv' /\ UNCHANGED <<task, todo, variant, flagged>>
<1>1. UNCHANGED <<pc, task, todo, left, variant, flagged, apc>>
  BY DEF Cancel, Age, LoseInput, Due, vars, rowVars, mediaVars, workerVars, retryVars, adminVars, boundVars
<1>2. \A i \in Instance : Phase(i)'
  BY <1>1, PhaseKept DEF RunInv
<1> QED
  BY <1>1, <1>2 DEF RunInv, NoDeletion

LEMMA CrashRun ==
    ASSUME TypeInv, RunInv, NEW i \in Instance, Crash(i)
    PROVE  /\ RunInv' /\ UNCHANGED <<status, variant, flagged>> /\ todo'[i] = {}
           /\ \A k \in Instance : k # i => todo'[k] = todo[k] /\ task'[k] = task[k]
<1> USE DEF rowVars, mediaVars, Goto, TypeInv, TypeOK
<1>1. /\ UNCHANGED <<status, variant, flagged>> /\ todo'[i] = {} /\ pc'[i] = "recover"
      /\ \A k \in Instance : k # i => /\ todo'[k] = todo[k] /\ task'[k] = task[k]
                                      /\ left'[k] = left[k] /\ pc'[k] = pc[k]
  BY DEF Crash
<1>2. NoDeletion'
  BY DEF Crash, RunInv, NoDeletion
<1>3. Phase(i)'
  BY <1>1 DEF Phase
<1>4. ASSUME NEW k \in Instance, k # i PROVE Phase(k)'
  BY <1>1, <1>4, PhaseKept DEF RunInv
<1> QED
  BY <1>1, <1>2, <1>3, <1>4 DEF RunInv

\* A run is completed only when its variants are recorded and its video is flagged.
THEOREM RunInvariant == ASSUME Deletable = {} PROVE Spec => []RunInv
<1>1. Init => RunInv
  BY DEF Init, RunInv, NoDeletion, Phase
<1>2. TypeInv /\ RunInv /\ [Next]_vars => RunInv'
  <2> SUFFICES ASSUME TypeInv, RunInv, [Next]_vars PROVE RunInv'
    OBVIOUS
  <2>1. ASSUME NEW i \in Instance, Worker(i) PROVE RunInv'
    BY <2>1, LoopPhase, AttemptPhase, AloneKeeps DEF Worker
  <2> QED
    BY <2>1, AdminRun, EnvironmentRun, CrashRun DEF Next
<1> QED
  BY <1>1, <1>2, TypeInvariant, PTL DEF Spec
-----------------------------------------------------------------------------
(* Every step of TranscodeQueue is a step of TranscodeJobs or changes      *)
(* nothing there.                                                          *)

Same == UNCHANGED Jobs!jobVars

LEMMA SameJobs ==
    ASSUME UNCHANGED <<status, task, todo, variant, flagged>>
    PROVE  Same
BY DEF Same, Jobs!jobVars, Running

LEMMA RunningTyped ==
    ASSUME TypeInv, NEW i \in Instance
    PROVE  /\ Running[i] = {j \in Job : j[2] \in todo[i] /\ j[1] = task[i].video}
           /\ todo[i] = {} => Running[i] = {}
           /\ pc[i] \in Holding => /\ task[i].video \in Video
                                   /\ task[i].res \subseteq Resolution
                                   /\ Running[i] = RowsOf(task[i].video, todo[i])
<1>1. Running[i] = {j \in Job : j[2] \in todo[i] /\ j[1] = task[i].video}
  BY DEF Running
<1>2. ASSUME pc[i] \in Holding
      PROVE  /\ task[i].video \in Video /\ task[i].res \subseteq Resolution
             /\ Running[i] = RowsOf(task[i].video, todo[i])
  <2>1. task[i] \in Task
    BY <1>2 DEF TypeInv, Held
  <2>2. task[i].video \in Video /\ task[i].res \subseteq Resolution
    BY <2>1 DEF Task
  <2>3. todo[i] \subseteq Resolution
    BY DEF TypeInv, TypeOK
  <2> QED
    BY <1>1, <2>2, <2>3 DEF RowsOf, Job
<1> QED
  BY <1>1, <1>2

\* The run of one instance changes, or is over.
LEMMA RunningChanged ==
    ASSUME NEW i \in Instance, \A k \in Instance : k # i => todo'[k] = todo[k] /\ task'[k] = task[k]
    PROVE  /\ Running' = [Running EXCEPT ![i] = {j \in Job : j[2] \in todo'[i] /\ j[1] = task'[i].video}]
           /\ todo'[i] = {} => Jobs!Drop(i)
<1>1. Running' = [Running EXCEPT ![i] = {j \in Job : j[2] \in todo'[i] /\ j[1] = task'[i].video}]
  BY DEF Running
<1>2. ASSUME todo'[i] = {} PROVE {j \in Job : j[2] \in todo'[i] /\ j[1] = task'[i].video} = {}
  BY <1>2
<1> QED
  BY <1>1, <1>2 DEF Jobs!Drop

LEMMA LoopImplements ==
    ASSUME TypeInv, RunInv, NEW i \in Instance,
           Recovery(i) \/ Wake(i) \/ Drained(i) \/ Take(i) \/ PutBack(i)
    PROVE  Jobs!Next \/ Same
<1>1. todo'[i] = {} /\ todo[i] = {} /\ \A k \in Instance : k # i => todo'[k] = todo[k] /\ task'[k] = task[k]
  BY LoopPhase DEF Alone
<1>2. UNCHANGED <<variant, flagged>>
  BY DEF Recovery, RecoverReset, RecoverLoad, RecoverPush, Wake, Drained, Take, PutBack, mediaVars
<1>3. Jobs!Drop(i) /\ Running[i] = {}
  BY <1>1, RunningChanged, RunningTyped
<1>4. UNCHANGED Running
  BY <1>3 DEF Jobs!Drop, Running
<1>5. CASE UNCHANGED status
  BY <1>2, <1>4, <1>5 DEF Same, Jobs!jobVars
<1>6. CASE RecoverReset(i) /\ SetStatus(Reclaimable, "pending")
  <2>1. Reclaimable \in SUBSET Jobs!In({"processing"})
    BY DEF Reclaimable, InStatus, Jobs!In, Jobs!Job, Job
  <2>2. Jobs!Become(Reclaimable, "pending")
    BY <1>6 DEF SetStatus, Jobs!Become, Jobs!Job, Job
  <2>3. Jobs!TakeBack
    BY <1>2, <1>4, <2>1, <2>2 DEF Jobs!TakeBack
  <2> QED
    BY <2>3 DEF Jobs!Next
<1> QED
  BY <1>5, <1>6 DEF Recovery, RecoverReset, RecoverLoad, RecoverPush, Wake, Drained, Take, PutBack, rowVars

\* The rows of a video, and updates of them, in the words of TranscodeJobs.
LEMMA SameRows ==
    /\ Jobs!Job = Job
    /\ \A v : Jobs!Of(v) = RowsOf(v, Resolution)
    /\ \A S, states : S \subseteq Job => S \cap Jobs!In(states) = InStatus(S, states)
    /\ \A S, s : SetStatus(S, s) => Jobs!Become(S, s)
BY DEF Jobs!Job, Job, Jobs!Of, RowsOf, Jobs!In, InStatus, SetStatus, Jobs!Become

LEMMA RowsAreJobs ==
    ASSUME NEW v \in Video, NEW R \in SUBSET Resolution
    PROVE  RowsOf(v, R) \subseteq Job /\ RowsOf(v, R) \subseteq Jobs!Of(v)
BY DEF RowsOf, Job, Jobs!Of

LEMMA AttemptImplements ==
    ASSUME TypeInv, RunInv, NEW i \in Instance, Attempt(i)
    PROVE  Jobs!Next \/ Same
<1> DEFINE v == task[i].video
<1> USE DEF rowVars, mediaVars, Goto
<1>1. /\ pc \in [Instance -> WorkerPC] /\ task \in [Instance -> Task \cup {None}]
      /\ todo \in [Instance -> SUBSET Resolution] /\ left \in [Instance -> SUBSET Resolution]
  BY DEF TypeInv, TypeOK
<1>2. /\ v \in Video /\ task[i].res \subseteq Resolution /\ pc[i] \in Holding
      /\ Running[i] = RowsOf(v, todo[i]) /\ Running[i] \subseteq Job /\ Running[i] \subseteq Jobs!Of(v)
  <2>1. pc[i] \in Holding
    BY DEF Attempt, ReadPending, ReadPendingFails, MarkProcessing, StartTranscode, TranscodeOk,
           TranscodeFails, UpsertVariant, SetFlag, CompleteJobs, PersistFails, ResetJobs,
           ScheduleRetry, DeadLetter
  <2> QED
    BY <1>1, <2>1, RunningTyped, RowsAreJobs
<1>3. \A k \in Instance : k # i => todo'[k] = todo[k] /\ task'[k] = task[k]
  BY AttemptPhase DEF Alone
<1>4. Running' = [Running EXCEPT ![i] = {j \in Job : j[2] \in todo'[i] /\ j[1] = task'[i].video}]
  BY <1>3, RunningChanged
<1>5. todo'[i] = {} => Jobs!Drop(i)
  BY <1>3, RunningChanged
<1>6. Phase(i)
  BY DEF RunInv
<1> HIDE DEF v
<1>11. CASE ReadPending(i)
  <2>1. UNCHANGED <<status, variant, flagged>>
    BY <1>11 DEF ReadPending
  <2>2. CASE PendingOf(i) = {}
    <3>1. todo'[i] = {}
      BY <1>1, <1>11, <2>2 DEF ReadPending, EndRun
    <3>2. Jobs!End(i)
      BY <1>5, <2>1, <3>1 DEF Jobs!End
    <3> QED
      BY <3>2 DEF Jobs!Next
  <2>3. CASE PendingOf(i) # {}
    <3>1. todo'[i] = PendingOf(i) /\ task'[i] = task[i]
      BY <1>1, <1>11, <2>3 DEF ReadPending
    <3>2. Running[i] = {}
      BY <1>6, <1>11, RunningTyped DEF ReadPending, Phase
    <3> DEFINE S == {j \in Job : j[2] \in PendingOf(i) /\ j[1] = v}
    <3>3. S \in SUBSET (Jobs!Of(v) \cap Jobs!In({"pending"}))
      BY DEF PendingOf, v, Job, Jobs!Of, Jobs!In, Jobs!Job
    <3>4. Running' = [Running EXCEPT ![i] = S]
      BY <1>4, <3>1 DEF v
    <3>5. Jobs!Pick(i)
      BY <1>2, <2>1, <3>2, <3>3, <3>4 DEF Jobs!Pick
    <3> QED
      BY <3>5 DEF Jobs!Next
  <2> QED
    BY <2>2, <2>3
<1>12. CASE MarkProcessing(i)
  <2>1. UNCHANGED <<variant, flagged, task, todo>>
    BY <1>12 DEF MarkProcessing
  <2>2. CASE UNCHANGED status
    BY <2>1, <2>2, SameJobs
  <2>3. CASE SetStatus(InStatus(RowsOf(v, todo[i]), {"pending"}), "processing")
    <3>1. Jobs!Become(Running[i] \cap Jobs!In({"pending"}), "processing")
      BY <1>2, <2>3, SameRows
    <3>2. Jobs!Mark(i)
      BY <2>1, <3>1 DEF Jobs!Mark, Running
    <3> QED
      BY <3>2 DEF Jobs!Next
  <2> QED
    BY <1>12, <2>2, <2>3 DEF MarkProcessing, v
<1>13. CASE UpsertVariant(i)
  <2>1. UNCHANGED <<status, flagged, task, todo>> /\ pc[i] = "persist"
    BY <1>13 DEF UpsertVariant
  <2>2. PICK r \in left[i] : variant' = variant \cup {<<v, r>>}
    BY <1>13 DEF UpsertVariant, v
  <2>3. <<v, r>> \in Running[i]
    BY <1>2, <1>6, <2>1, <2>2 DEF Phase, RowsOf
  <2>4. Jobs!Record(i)
    BY <2>1, <2>2, <2>3 DEF Jobs!Record, Running
  <2> QED
    BY <2>4 DEF Jobs!Next
<1>14. CASE SetFlag(i)
  <2>1. UNCHANGED <<status, variant, task, todo>> /\ pc[i] = "flag" /\ flagged' = flagged \cup {v}
    BY <1>14 DEF SetFlag, v
  <2>2. todo[i] # {} /\ Running[i] \subseteq variant
    BY <1>2, <1>6, <2>1 DEF Phase, v
  <2>3. PICK j \in Running[i] : j[1] = v
    <3>1. PICK r \in todo[i] : TRUE
      BY <2>2
    <3>2. <<v, r>> \in Running[i] /\ <<v, r>>[1] = v
      BY <1>2, <3>1 DEF RowsOf
    <3> QED
      BY <3>2
  <2>4. Jobs!Offer(i)
    BY <2>1, <2>2, <2>3 DEF Jobs!Offer, Running
  <2> QED
    BY <2>4 DEF Jobs!Next
<1>15. CASE CompleteJobs(i)
  <2>1. UNCHANGED <<variant, flagged>> /\ pc[i] = "complete" /\ SetStatus(Running[i], "completed")
    BY <1>2, <1>15 DEF CompleteJobs, Completed, v
  <2>2. todo'[i] = {}
    BY <1>1, <1>15 DEF CompleteJobs, EndRun
  <2>3. Running[i] \subseteq variant /\ v \in flagged
    BY <1>2, <1>6, <2>1 DEF Phase, v
  <2>4. \A j \in Running[i] : j[1] \in flagged
    BY <1>2, <2>3 DEF RowsOf
  <2>5. Jobs!Become(Running[i], "completed") /\ Jobs!Drop(i)
    BY <1>5, <2>1, <2>2, SameRows
  <2>6. Jobs!Complete(i)
    BY <2>1, <2>3, <2>4, <2>5 DEF Jobs!Complete
  <2> QED
    BY <2>6 DEF Jobs!Next
<1>16. CASE ResetJobs(i)
  <2>1. UNCHANGED <<variant, flagged, task, todo>> /\ pc[i] = "reset"
    BY <1>16 DEF ResetJobs
  <2>2. CASE UNCHANGED status
    BY <2>1, <2>2, SameJobs
  <2>3. CASE SetStatus(Resettable(i), "pending")
    <3>1. Resettable(i) \in SUBSET (Jobs!Of(v) \cap Jobs!In({"processing"}))
      BY <1>1, <1>2, RowsAreJobs, SameRows DEF Resettable, v, InStatus, Jobs!In
    <3>2. Jobs!Become(Resettable(i), "pending")
      BY <2>3, SameRows
    <3>3. Running[i] # {}
      <4>1. PICK r \in todo[i] : TRUE
        BY <1>6, <2>1 DEF Phase
      <4>2. <<v, r>> \in Running[i]
        BY <1>2, <4>1 DEF RowsOf
      <4> QED
        BY <4>2
    <3>4. Jobs!HandBack(i)
      BY <1>2, <2>1, <3>1, <3>2, <3>3 DEF Jobs!HandBack, Running
    <3> QED
      BY <3>4 DEF Jobs!Next
  <2> QED
    BY <1>16, <2>2, <2>3 DEF ResetJobs
<1>17. CASE ScheduleRetry(i)
  <2>1. UNCHANGED <<status, variant, flagged>>
    BY <1>17 DEF ScheduleRetry
  <2>2. CASE UNCHANGED <<task, todo>>
    BY <2>1, <2>2, SameJobs
  <2>3. CASE EndRun(i)
    <3>1. Jobs!End(i)
      BY <1>1, <1>5, <2>1, <2>3 DEF EndRun, Jobs!End
    <3> QED
      BY <3>1 DEF Jobs!Next
  <2> QED
    BY <1>17, <2>2, <2>3 DEF ScheduleRetry
<1>18. CASE DeadLetter(i)
  <2>1. UNCHANGED <<variant, flagged>> /\ todo'[i] = {}
    BY <1>1, <1>18 DEF DeadLetter, EndRun
  <2>2. CASE UNCHANGED status
    <3>1. Jobs!End(i)
      BY <1>5, <2>1, <2>2 DEF Jobs!End
    <3> QED
      BY <3>1 DEF Jobs!Next
  <2>3. CASE SetStatus(DeadLettered(i), "failed")
    <3>0. DeadLettered(i) = Jobs!Of(v) \cap Jobs!In({"pending", "processing"})
      <4>1. RowsOf(v, Resolution) \subseteq Job /\ Jobs!Of(v) = RowsOf(v, Resolution)
        BY <1>2, SameRows, RowsAreJobs
      <4> QED
        BY <4>1, SameRows DEF DeadLettered, v
    <3>1. Jobs!Become(Jobs!Of(v) \cap Jobs!In({"pending", "processing"}), "failed")
      BY <2>3, <3>0, SameRows
    <3>2. Jobs!GiveUp(i)
      BY <1>2, <1>5, <2>1, <3>1 DEF Jobs!GiveUp
    <3> QED
      BY <3>2 DEF Jobs!Next
  <2> QED
    BY <1>18, <2>2, <2>3 DEF DeadLetter
<1>19. CASE \/ ReadPendingFails(i) \/ StartTranscode(i) \/ TranscodeOk(i) \/ TranscodeFails(i)
            \/ PersistFails(i)
  BY <1>19, SameJobs DEF ReadPendingFails, StartTranscode, TranscodeOk, TranscodeFails, PersistFails
<1> QED
  BY <1>11, <1>12, <1>13, <1>14, <1>15, <1>16, <1>17, <1>18, <1>19 DEF Attempt

LEMMA AdminImplements ==
    ASSUME TypeInv, RunInv, Deletable = {}, NEW a \in Admin, Submit(a) \/ DeleteFile(a) \/ Handler(a)
    PROVE  Jobs!Next \/ Same
<1>1. UNCHANGED <<task, todo, variant, flagged>>
  BY AdminRun
<1>2. UNCHANGED <<variant, flagged, Running>>
  BY <1>1 DEF Running
<1>3. CASE UNCHANGED status
  BY <1>1, <1>3, SameJobs
<1>4. CASE Submit(a)
  <2>1. PICK v \in Video : SetStatus(Revivable(v), "pending")
    BY <1>4 DEF Submit, TypeInv, TypeOK
  <2>2. Revivable(v) = (Jobs!Of(v) \cap Jobs!In({"failed", "completed"})) \ variant
    <3>1. RowsOf(v, Resolution) \subseteq Job /\ Jobs!Of(v) = RowsOf(v, Resolution)
      BY RowsAreJobs, SameRows
    <3> QED
      BY <3>1, SameRows DEF Revivable
  <2>3. Jobs!Become((Jobs!Of(v) \cap Jobs!In({"failed", "completed"})) \ variant, "pending")
    BY <2>1, <2>2, SameRows
  <2>4. Jobs!Revive
    BY <1>2, <2>3 DEF Jobs!Revive
  <2> QED
    BY <2>4 DEF Jobs!Next
<1>5. CASE Insert(a)
  <2>1. call[a] \in Call
    BY <1>5 DEF TypeInv, Held, Insert
  <2>2. call[a].video \in Video /\ call[a].res \in SUBSET Resolution
    BY <2>1 DEF Call
  <2> DEFINE new == InStatus(RowsOf(call[a].video, call[a].res), {"absent"})
  <2>3. Jobs!Become(new, "pending")
    BY <1>5, SameRows DEF Insert
  <2>4. new \in SUBSET (Jobs!Of(call[a].video) \cap Jobs!In({"absent"}))
    BY <2>2, RowsAreJobs, SameRows DEF InStatus, Jobs!In
  <2>5. Jobs!Accept
    BY <1>2, <2>2, <2>3, <2>4 DEF Jobs!Accept
  <2> QED
    BY <2>5 DEF Jobs!Next
<1> QED
  BY <1>3, <1>4, <1>5
     DEF DeleteFile, Handler, Pick, Add, Unrecord, Count, ClearFlag, RequestFails, rowVars

LEMMA EnvironmentImplements ==
    ASSUME TypeInv, RunInv,
           Cancel \/ Age \/ LoseInput \/ (\E i \in Instance : Due(i) \/ Crash(i)) \/ UNCHANGED vars
    PROVE  Jobs!Next \/ Same
<1>1. CASE Cancel
  <2>1. UNCHANGED <<variant, flagged, Running>>
    BY <1>1, EnvironmentRun DEF Running
  <2>2. PICK v \in Video : SetStatus(Cancellable(v), "failed")
    BY <1>1 DEF Cancel
  <2>3. Cancellable(v) = Jobs!Of(v) \cap Jobs!In({"pending", "processing"})
    <3>1. RowsOf(v, Resolution) \subseteq Job /\ Jobs!Of(v) = RowsOf(v, Resolution)
      BY RowsAreJobs, SameRows
    <3> QED
      BY <3>1, SameRows DEF Cancellable
  <2>4. Jobs!Cancel
    BY <2>1, <2>2, <2>3, SameRows DEF Jobs!Cancel
  <2> QED
    BY <2>4 DEF Jobs!Next
<1>2. CASE Age \/ LoseInput \/ (\E i \in Instance : Due(i)) \/ UNCHANGED vars
  <2>1. UNCHANGED <<task, todo, variant, flagged>>
    BY <1>2, EnvironmentRun
  <2>2. UNCHANGED status
    BY <1>2 DEF Age, LoseInput, Due, vars, rowVars
  <2> QED
    BY <2>1, <2>2, SameJobs
<1>3. ASSUME NEW i \in Instance, Crash(i) PROVE Jobs!Next \/ Same
  <2>1. Jobs!Drop(i) /\ UNCHANGED <<status, variant, flagged>>
    BY <1>3, CrashRun, RunningChanged
  <2>2. Jobs!End(i)
    BY <2>1 DEF Jobs!End
  <2> QED
    BY <2>2 DEF Jobs!Next
<1> QED
  BY <1>1, <1>2, <1>3

\* TranscodeQueue implements TranscodeJobs: whatever the number of processes, requests,
\* faults and crashes, a job is run only by a worker that saw it pending, completed only
\* by that run and with its variants recorded, and revived only by a submission.
THEOREM QueueImplementsJobs == ASSUME Deletable = {} PROVE Spec => JobsPromised
<1>1. Init => Jobs!Init
  BY DEF Init, Jobs!Init, Jobs!Job, Job, Running
<1>2. TypeInv /\ RunInv /\ [Next]_vars => [Jobs!Next]_(Jobs!jobVars)
  <2> SUFFICES ASSUME TypeInv, RunInv, [Next]_vars PROVE Jobs!Next \/ Same
    BY DEF Same
  <2>1. ASSUME NEW i \in Instance, Worker(i) PROVE Jobs!Next \/ Same
    BY <2>1, LoopImplements, AttemptImplements DEF Worker
  <2> QED
    BY <2>1, AdminImplements, EnvironmentImplements DEF Next
<1> QED
  BY <1>1, <1>2, TypeInvariant, RunInvariant, PTL DEF Spec, JobsPromised, Jobs!Spec
-----------------------------------------------------------------------------
\* What TranscodeJobs promises of completed jobs follows from its steps alone.
LEMMA CompletedStays ==
    ASSUME Jobs!CompletedOffered, [Jobs!Next]_(Jobs!jobVars)
    PROVE  Jobs!CompletedOffered'
<1> USE DEF Jobs!CompletedOffered, Jobs!In, Jobs!Become, Jobs!Job
<1>1. CASE UNCHANGED Jobs!jobVars
  BY <1>1 DEF Jobs!jobVars
<1>2. CASE Jobs!Accept \/ Jobs!Revive \/ Jobs!Cancel \/ Jobs!TakeBack
  BY <1>2 DEF Jobs!Accept, Jobs!Revive, Jobs!Cancel, Jobs!TakeBack
<1>3. ASSUME NEW i \in Instance, Jobs!Complete(i) PROVE Jobs!CompletedOffered'
  BY <1>3 DEF Jobs!Complete
<1>4. ASSUME NEW i \in Instance,
             Jobs!Pick(i) \/ Jobs!Mark(i) \/ Jobs!Record(i) \/ Jobs!Offer(i) \/ Jobs!HandBack(i)
               \/ Jobs!End(i) \/ Jobs!GiveUp(i)
      PROVE  Jobs!CompletedOffered'
  BY <1>4 DEF Jobs!Pick, Jobs!Mark, Jobs!Record, Jobs!Offer, Jobs!HandBack, Jobs!End, Jobs!GiveUp
<1> QED
  BY <1>1, <1>2, <1>3, <1>4 DEF Jobs!Next

\* A completed job has its variant recorded and its video flagged, through every crash and
\* failed statement of any number of processes.
THEOREM CompletedIsRecorded == ASSUME Deletable = {} PROVE Spec => []CompletedRecorded
<1>1. Jobs!Init => Jobs!CompletedOffered
  BY DEF Jobs!Init, Jobs!CompletedOffered, Jobs!In, Jobs!Job
<1>2. Jobs!Spec => []Jobs!CompletedOffered
  BY <1>1, CompletedStays, PTL DEF Jobs!Spec
<1>3. Jobs!CompletedOffered => CompletedRecorded
  BY DEF Jobs!CompletedOffered, CompletedRecorded, InStatus, Jobs!In, Jobs!Job, Job
<1> QED
  BY <1>2, <1>3, QueueImplementsJobs, PTL DEF JobsPromised
-----------------------------------------------------------------------------
(* RecordedOnDisk, for one process.  What ffmpeg is about to truncate has  *)
(* no record; a row that has one and is not settled belongs to the run     *)
(* that is recording it.                                                   *)

Recording == {"persist", "flag", "complete"}

\* The rows of the run of i.
Own(i) == RowsOf(task[i].video, todo[i])

Unsettled == InStatus(Job, {"pending", "processing"})

DiskInv(i) ==
    /\ Own(i) \cap InStatus(Job, {"absent"}) = {}
    /\ variant \cap InStatus(Job, {"absent"}) = {}
    /\ NoFaults =>
          /\ variant \subseteq file
          /\ variant \cap Unsettled # {} => pc[i] \in Recording
          /\ variant \cap Unsettled \subseteq Own(i)
          /\ pc[i] \in {"mark", "start", "transcode"} => variant \cap Own(i) = {}
          /\ pc[i] = "persist" => RowsOf(task[i].video, left[i]) \subseteq file

\* The steps that leave the run and the media alone.
LEMMA RowsOnDisk ==
    ASSUME NEW i, DiskInv(i), NoFaults' => NoFaults,
           UNCHANGED <<task, todo, left, variant, file>>,
           InStatus(Job, {"absent"})' \subseteq InStatus(Job, {"absent"}),
           NoFaults' => variant \cap Unsettled' \subseteq Unsettled,
           \/ pc'[i] = pc[i]
           \/ pc[i] \notin Recording /\ pc'[i] \notin {"mark", "start", "transcode", "persist"}
           \/ pc[i] = "mark" /\ pc'[i] = "start"
    PROVE  DiskInv(i)'
BY DEF DiskInv, Own, RowsOf, Recording

LEMMA LoopOnDisk ==
    ASSUME TypeInv, RunInv, NEW i \in Instance, DiskInv(i), NoFaults' => NoFaults,
           Recovery(i) \/ Wake(i) \/ Drained(i) \/ Take(i) \/ PutBack(i)
    PROVE  DiskInv(i)'
<1> USE DEF rowVars, mediaVars
<1>1. todo'[i] = {} /\ todo[i] = {}
  BY LoopPhase
<1>2. Own(i) = {} /\ Own(i)' = {}
  BY <1>1 DEF Own, RowsOf
<1>3. /\ UNCHANGED <<variant, file>>
      /\ pc[i] \notin Recording /\ pc'[i] \notin {"mark", "start", "transcode", "persist"}
  BY DEF Recovery, RecoverReset, RecoverLoad, RecoverPush, Wake, Drained, Take, PutBack, Goto,
         Recording, TypeInv, TypeOK
<1>4. /\ InStatus(Job, {"absent"})' \subseteq InStatus(Job, {"absent"})
      /\ Unsettled' \subseteq Unsettled
  <2>1. UNCHANGED status \/ SetStatus(Reclaimable, "pending")
    BY DEF Recovery, RecoverReset, RecoverLoad, RecoverPush, Wake, Drained, Take, PutBack
  <2> QED
    BY <2>1 DEF SetStatus, Reclaimable, InStatus, Unsettled
<1> QED
  BY <1>2, <1>3, <1>4 DEF DiskInv

LEMMA AttemptOnDisk ==
    ASSUME TypeInv, RunInv, NEW i \in Instance, DiskInv(i), NoFaults' => NoFaults, Attempt(i)
    PROVE  DiskInv(i)'
<1> USE DEF rowVars, mediaVars, Goto
<1>1. /\ pc \in [Instance -> WorkerPC] /\ task \in [Instance -> Task \cup {None}]
      /\ todo \in [Instance -> SUBSET Resolution] /\ left \in [Instance -> SUBSET Resolution]
      /\ dbErrors \in Nat
  BY BoundAssumption DEF TypeInv, TypeOK
<1>2. Phase(i)
  BY DEF RunInv
<1>3. DbError => ~NoFaults'
  BY <1>1 DEF DbError, NoFaults
<1>4. CASE ReadPending(i)
  <2>1. UNCHANGED <<status, variant, file>> /\ pc[i] = "check"
    BY <1>4 DEF ReadPending
  <2>2. Own(i) = {}
    BY <1>2, <2>1 DEF Phase, Own, RowsOf
  <2>3. NoFaults' => variant \cap Unsettled = {}
    BY <2>1 DEF DiskInv, Recording
  <2>4. CASE PendingOf(i) = {}
    <3>1. todo'[i] = {} /\ pc'[i] = "drain"
      BY <1>1, <1>4, <2>4 DEF ReadPending, EndRun
    <3>2. Own(i)' = {}
      BY <3>1 DEF Own, RowsOf
    <3> QED
      BY <2>1, <2>3, <3>1, <3>2 DEF DiskInv, Recording, Unsettled, InStatus
  <2>5. CASE PendingOf(i) # {}
    <3>1. todo'[i] = PendingOf(i) /\ task'[i] = task[i] /\ pc'[i] = "mark"
      BY <1>1, <1>4, <2>5 DEF ReadPending
    <3>2. Own(i)' \cap InStatus(Job, {"absent"}) = {}
      BY <3>1 DEF Own, RowsOf, PendingOf, InStatus
    <3>3. Own(i)' \subseteq Unsettled
      <4>1. task[i] \in Task
        BY <2>1 DEF TypeInv, Held
      <4>2. task[i].video \in Video /\ PendingOf(i) \subseteq Resolution
        BY <4>1 DEF PendingOf, Task
      <4>3. Own(i)' = {task[i].video} \X PendingOf(i)
        BY <3>1 DEF Own, RowsOf
      <4>4. ASSUME NEW r \in PendingOf(i) PROVE <<task[i].video, r>> \in Unsettled
        BY <4>2 DEF PendingOf, Unsettled, InStatus, Job
      <4> QED
        BY <4>3, <4>4
    <3> QED
      BY <2>1, <2>3, <3>1, <3>2, <3>3 DEF DiskInv, Recording, Unsettled, InStatus
  <2> QED
    BY <2>4, <2>5
<1>5. CASE MarkProcessing(i)
  <2>1. UNCHANGED <<task, todo, left, variant, file>> /\ pc[i] = "mark"
    BY <1>5 DEF MarkProcessing
  <2>2. \/ UNCHANGED status /\ pc'[i] = "retry"
        \/ SetStatus(InStatus(Own(i), {"pending"}), "processing") /\ pc'[i] = "start"
    BY <1>1, <1>5 DEF MarkProcessing, Own
  <2>3. /\ InStatus(Job, {"absent"})' \subseteq InStatus(Job, {"absent"})
        /\ Unsettled' \subseteq Unsettled
    BY <2>2 DEF SetStatus, InStatus, Unsettled
  <2> QED
    BY <2>1, <2>2, <2>3, RowsOnDisk DEF Recording
<1>6. CASE StartTranscode(i)
  <2>1. UNCHANGED <<status, variant, task, todo>> /\ pc[i] = "start"
    BY <1>6 DEF StartTranscode
  <2>2. file' \in {file, file \ Own(i)} /\ pc'[i] \in {"transcode", "reset"}
    BY <1>1, <1>6 DEF StartTranscode, Own
  <2> QED
    BY <2>1, <2>2 DEF DiskInv, Own, RowsOf, Recording, Unsettled, InStatus
<1>7. CASE TranscodeOk(i)
  <2>1. UNCHANGED <<status, variant, task, todo>> /\ pc[i] = "transcode"
    BY <1>7 DEF TranscodeOk
  <2>2. file' = file \cup Own(i) /\ pc'[i] = "persist" /\ left'[i] = todo[i]
    BY <1>1, <1>7 DEF TranscodeOk, Own
  <2> QED
    BY <2>1, <2>2 DEF DiskInv, Own, RowsOf, Recording, Unsettled, InStatus
<1>8. CASE TranscodeFails(i)
  <2>1. UNCHANGED <<status, variant, task, todo>> /\ pc[i] = "transcode"
    BY <1>8 DEF TranscodeFails
  <2>2. file \subseteq file' /\ pc'[i] = "reset"
    BY <1>1, <1>8 DEF TranscodeFails
  <2> QED
    BY <2>1, <2>2 DEF DiskInv, Own, RowsOf, Recording, Unsettled, InStatus
<1>9. CASE UpsertVariant(i)
  <2>1. UNCHANGED <<status, file, task, todo>> /\ pc[i] = "persist"
    BY <1>9 DEF UpsertVariant
  <2>2. PICK r \in left[i] :
           /\ variant' = variant \cup {<<task[i].video, r>>}
           /\ left' = [left EXCEPT ![i] = left[i] \ {r}]
           /\ pc' = [pc EXCEPT ![i] = IF left[i] = {r} THEN "flag" ELSE "persist"]
    BY <1>9 DEF UpsertVariant
  <2>3. left'[i] = left[i] \ {r} /\ pc'[i] \in {"persist", "flag"}
    BY <1>1, <2>2
  <2>4. <<task[i].video, r>> \in Own(i)
    BY <1>2, <2>1, <2>2 DEF Phase, Own, RowsOf
  <2>5. NoFaults' => <<task[i].video, r>> \in file
    BY <2>1, <2>2 DEF DiskInv, RowsOf
  <2>6. RowsOf(task[i].video, left'[i]) \subseteq RowsOf(task[i].video, left[i])
    BY <2>3 DEF RowsOf
  <2> QED
    BY <2>1, <2>2, <2>3, <2>4, <2>5, <2>6 DEF DiskInv, Own, Recording, Unsettled, InStatus
<1>10. CASE SetFlag(i)
  <2>1. UNCHANGED <<status, variant, file, task, todo>> /\ pc[i] = "flag" /\ pc'[i] = "complete"
    BY <1>1, <1>10 DEF SetFlag
  <2> QED
    BY <2>1 DEF DiskInv, Own, RowsOf, Recording, Unsettled, InStatus
<1>11. CASE CompleteJobs(i)
  <2>1. UNCHANGED <<variant, file>> /\ SetStatus(Own(i), "completed")
    BY <1>11 DEF CompleteJobs, Completed, Own
  <2>2. todo'[i] = {} /\ pc'[i] = "drain"
    BY <1>1, <1>11 DEF CompleteJobs, EndRun
  <2>3. Own(i)' = {}
    BY <2>2 DEF Own, RowsOf
  <2>4. /\ InStatus(Job, {"absent"})' \subseteq InStatus(Job, {"absent"})
        /\ Unsettled' \subseteq Unsettled \ Own(i)
    BY <2>1 DEF SetStatus, InStatus, Unsettled
  <2> QED
    BY <2>1, <2>2, <2>3, <2>4 DEF DiskInv
<1>12. CASE PersistFails(i) \/ ReadPendingFails(i)
  <2>1. UNCHANGED <<status, variant, file, task, todo>> /\ ~NoFaults'
    BY <1>3, <1>12 DEF PersistFails, ReadPendingFails
  <2> QED
    BY <2>1 DEF DiskInv, Own, RowsOf, InStatus
<1>13. CASE ResetJobs(i)
  <2>1. UNCHANGED <<task, todo, left, variant, file>> /\ pc[i] = "reset" /\ pc'[i] = "retry"
    BY <1>1, <1>13 DEF ResetJobs
  <2>2. UNCHANGED status \/ SetStatus(Resettable(i), "pending")
    BY <1>13 DEF ResetJobs
  <2>3. /\ InStatus(Job, {"absent"})' \subseteq InStatus(Job, {"absent"})
        /\ Unsettled' \subseteq Unsettled
    BY <2>2 DEF SetStatus, InStatus, Unsettled, Resettable
  <2> QED
    BY <2>1, <2>3, RowsOnDisk DEF Recording
<1>14. CASE ScheduleRetry(i) \/ DeadLetter(i)
  <2>1. UNCHANGED <<variant, file>> /\ pc[i] \in {"retry", "dead"}
    BY <1>14 DEF ScheduleRetry, DeadLetter
  <2>2. \/ pc'[i] = "dead" /\ UNCHANGED <<task, todo>>
        \/ pc'[i] = "drain" /\ todo'[i] = {}
    BY <1>1, <1>14 DEF ScheduleRetry, DeadLetter, EndRun
  <2>3. UNCHANGED status \/ SetStatus(DeadLettered(i), "failed")
    BY <1>14 DEF ScheduleRetry, DeadLetter
  <2>4. /\ InStatus(Job, {"absent"})' \subseteq InStatus(Job, {"absent"})
        /\ Unsettled' \subseteq Unsettled
    BY <2>3 DEF SetStatus, InStatus, Unsettled
  <2>5. NoFaults' => variant \cap Unsettled = {}
    BY <2>1 DEF DiskInv, Recording
  <2>6. Own(i)' \in {Own(i), {}}
    BY <2>2 DEF Own, RowsOf
  <2>7. pc'[i] \notin {"mark", "start", "transcode", "persist"}
    BY <2>2
  <2> QED
    BY <2>1, <2>4, <2>5, <2>6, <2>7 DEF DiskInv
<1> QED
  BY <1>4, <1>5, <1>6, <1>7, <1>8, <1>9, <1>10, <1>11, <1>12, <1>13, <1>14 DEF Attempt

LEMMA AdminOnDisk ==
    ASSUME TypeInv, RunInv, Deletable = {}, NEW i \in Instance, DiskInv(i), NoFaults' => NoFaults,
           NEW a \in Admin, Submit(a) \/ DeleteFile(a) \/ Handler(a)
    PROVE  DiskInv(i)'
<1> USE DEF rowVars, mediaVars, workerVars, retryVars
<1>1. apc[a] \notin {"unrecord", "count", "clear"} /\ ~DeleteFile(a)
  BY DEF RunInv, NoDeletion, DeleteFile
<1>2. UNCHANGED <<pc, task, todo, left, variant, file>>
  BY <1>1 DEF Submit, Handler, Insert, Pick, Add, Unrecord, Count, ClearFlag, RequestFails
<1>3. \/ UNCHANGED status
      \/ \E v : SetStatus(Revivable(v), "pending")
      \/ SetStatus(InStatus(RowsOf(call[a].video, call[a].res), {"absent"}), "pending")
  BY <1>1 DEF Submit, Handler, Insert, Pick, Add, Unrecord, Count, ClearFlag, RequestFails
<1>4. /\ InStatus(Job, {"absent"})' \subseteq InStatus(Job, {"absent"})
      /\ variant \cap Unsettled' \subseteq Unsettled
  <2>1. CASE UNCHANGED status
    BY <2>1 DEF InStatus, Unsettled
  <2>2. ASSUME NEW v, SetStatus(Revivable(v), "pending")
        PROVE  /\ InStatus(Job, {"absent"})' \subseteq InStatus(Job, {"absent"})
               /\ variant \cap Unsettled' \subseteq Unsettled
    BY <2>2 DEF SetStatus, Revivable, InStatus, Unsettled
  <2>3. CASE SetStatus(InStatus(RowsOf(call[a].video, call[a].res), {"absent"}), "pending")
    BY <2>3 DEF SetStatus, InStatus, Unsettled, DiskInv
  <2> QED
    BY <1>3, <2>1, <2>2, <2>3
<1> QED
  BY <1>2, <1>4, RowsOnDisk

LEMMA EnvironmentOnDisk ==
    ASSUME TypeInv, RunInv, NEW i \in Instance, DiskInv(i), NoFaults' => NoFaults,
           Cancel \/ Age \/ LoseInput \/ Due(i) \/ UNCHANGED vars
    PROVE  DiskInv(i)'
<1> USE DEF rowVars, mediaVars, workerVars, retryVars
<1>1. UNCHANGED <<pc, task, todo, left, variant, file>>
  BY DEF Cancel, Age, LoseInput, Due, vars
<1>2. UNCHANGED status \/ \E v : SetStatus(Cancellable(v), "failed")
  BY DEF Cancel, Age, LoseInput, Due, vars
<1>3. /\ InStatus(Job, {"absent"})' \subseteq InStatus(Job, {"absent"})
      /\ Unsettled' \subseteq Unsettled
  BY <1>2 DEF SetStatus, InStatus, Unsettled
<1> QED
  BY <1>1, <1>3, RowsOnDisk

LEMMA CrashOnDisk ==
    ASSUME TypeInv, NEW i \in Instance, DiskInv(i), Crash(i)
    PROVE  DiskInv(i)'
<1>1. ~NoFaults' /\ UNCHANGED <<status, variant>> /\ todo'[i] = {}
  BY BoundAssumption DEF Crash, NoFaults, rowVars, mediaVars, TypeInv, TypeOK
<1>2. Own(i)' = {}
  BY <1>1 DEF Own, RowsOf
<1> QED
  BY <1>1, <1>2 DEF DiskInv, InStatus

\* Where one process runs and no variant is deleted, a recorded variant keeps its file until
\* a statement fails: whatever is resubmitted, cancelled, retried or given up meanwhile,
\* ffmpeg -y is only started on outputs that have no record.
THEOREM RecordedStaysOnDisk ==
    ASSUME NEW i, Instance = {i}, Deletable = {}
    PROVE  Spec => []RecordedOnDisk
<1>1. Init => DiskInv(i)
  BY DEF Init, DiskInv, Own, RowsOf, Recording
<1>2. TypeInv /\ RunInv /\ DiskInv(i) /\ [Next]_vars => DiskInv(i)'
  <2> SUFFICES ASSUME TypeInv, RunInv, DiskInv(i), [Next]_vars PROVE DiskInv(i)'
    OBVIOUS
  <2>1. NoFaults' => NoFaults
    BY FaultsStay
  <2>2. CASE Worker(i)
    BY <2>1, <2>2, LoopOnDisk, AttemptOnDisk DEF Worker
  <2>3. ASSUME NEW a \in Admin, Submit(a) \/ DeleteFile(a) \/ Handler(a) PROVE DiskInv(i)'
    BY <2>1, <2>3, AdminOnDisk
  <2>4. CASE Cancel \/ Age \/ LoseInput \/ Due(i) \/ UNCHANGED vars
    BY <2>1, <2>4, EnvironmentOnDisk
  <2>5. CASE Crash(i)
    BY <2>5, CrashOnDisk
  <2> QED
    BY <2>2, <2>3, <2>4, <2>5 DEF Next
<1>3. DiskInv(i) => RecordedOnDisk
  BY DEF DiskInv, RecordedOnDisk, NoFaults
<1> QED
  BY <1>1, <1>2, <1>3, TypeInvariant, RunInvariant, PTL DEF Spec
=============================================================================
