---------------------------- MODULE UploadSession ----------------------------
(***************************************************************************)
(* The resumable upload of one content by one uploader: the upload slots   *)
(* and the temporary file (services/media_service), the two endpoints that *)
(* drive them (handlers/admin/admin_video.rs) and the upload loop of the   *)
(* web application (pages/Upload/hooks/uploadSingleWorker.ts).             *)
(*                                                                         *)
(* Slots and temporary files are keyed by (uploader, hash), so one key     *)
(* stands for all.  The content is a sequence of Size units and the hasher *)
(* is the sequence it was fed: two hashes agree when the sequences do.     *)
(* A Client is a tab running the loop.  A Handler is a request being       *)
(* served; it outlives the client's interest in it.  The steps of a        *)
(* request are the stretches of code between the awaits at which another   *)
(* request, a sweep, a crash or a disconnection can come in.               *)
(***************************************************************************)
EXTENDS Naturals, Sequences, FiniteSets

CONSTANTS
    Client, Handler,
    Slot,        \* UploadSlot allocations
    Size,        \* the length of the content, in units
    MaxOps,      \* MAX_CONCURRENT_UPLOAD_OPS
    MaxRetries,  \* MAX_CHUNK_RETRIES
    Upsets,      \* the upsets that may happen, of UpsetKind
    MaxStarts,   \* bound: uploads started in a behaviour
    MaxFaults,   \* bound: failures in a behaviour
    MaxUpsets,   \* bound: upsets in a behaviour
    None         \* no file, no slot, no client

\* Faults are what the code is written for: an error of the disk or of the database, a full
\* quota, garbled data, a timeout, a closed tab, a dropped request, a crash.  Upsets are the
\* events below; the properties say which of them they survive.
UpsetKind ==
    {"torn",      \* a write ends after some of its data reached the file
     "leftover",  \* a removal of the temporary file fails, which nobody looks at
     "unseen",    \* the temporary file is there, its metadata cannot be had: taken as no file
     "swept",     \* the sweep removes a temporary file that a slot counts on
     "detached",  \* the sweep drops a slot that a request is waiting for
     "unacked",   \* the save commits and its confirmation is lost
     "deleted"}   \* the stored video is deleted

ASSUME ClientAssumption == IsFiniteSet(Client)
ASSUME SizeAssumption == Size \in Nat \ {0}
ASSUME UpsetAssumption == Upsets \subseteq UpsetKind
ASSUME LimitAssumption ==
    /\ MaxOps \in Nat \ {0} /\ MaxRetries \in Nat
    /\ MaxStarts \in Nat /\ MaxFaults \in Nat /\ MaxUpsets \in Nat

Content == [k \in 1 .. Size |-> k]

Garbage == 0   \* a unit changed on its way

ASSUME NoneAssumption ==
    None \notin Seq(0 .. Size) /\ None \notin Slot /\ None \notin Client

VARIABLES
    \* ---- the database and the media directory ----
    row,       \* a video of this uploader with this hash exists
    stored,    \* the file that row points at
    ever,      \* such a row existed at some time
    \* ---- the temporary file ----
    tmp, tmpOld,      \* its bytes; its mtime is older than UPLOAD_TEMP_TTL
    \* ---- the process ----
    current,   \* the entry of upload_slots for this key
    slots,
    handler,
    \* ---- the browser ----
    client,
    \* ---- how much of each bound is used ----
    starts, faults, upsets

store  == <<row, stored, ever>>
disk   == <<tmp, tmpOld>>
memory == <<current, slots>>
bounds == <<starts, faults, upsets>>
vars == <<store, disk, memory, handler, client, bounds>>

\* UploadSlot: hashed stands for hasher and, by its length, for size; old says that
\* last_activity is longer ago than the slot's time to live.
SlotState == [inited : BOOLEAN, hashed : Seq(0 .. Size), done : BOOLEAN, old : BOOLEAN]

NewSlot == [inited |-> FALSE, hashed |-> << >>, done |-> FALSE, old |-> FALSE]

ResetSlot == [NewSlot EXCEPT !.inited = TRUE]

HandlerPC == {"idle", "lookup", "handle", "permit", "lock", "write", "dup", "move", "save"}

Request == [pc : HandlerPC, kind : {"status", "chunk"}, offset : 0 .. Size,
            data : Seq(0 .. Size), owner : Client \cup {None}, slot : Slot \cup {None},
            moved : Seq(0 .. Size)]

NoRequest == [pc |-> "idle", kind |-> "status", offset |-> 0, data |-> << >>,
              owner |-> None, slot |-> None, moved |-> << >>]

ClientAt == {"idle", "status", "ready", "chunk", "final", "done", "error"}

Tab == [at : ClientAt, offset : 0 .. Size, end : 0 .. Size,
        attempt : 0 .. MaxRetries, mismatches : 0 .. MaxRetries + 2]

NewTab == [at |-> "idle", offset |-> 0, end |-> 0, attempt |-> 0, mismatches |-> 0]

Init ==
    /\ row = FALSE /\ stored = << >> /\ ever = FALSE
    /\ tmp = None /\ tmpOld = FALSE
    /\ current = None
    /\ slots = [s \in Slot |-> NewSlot]
    /\ handler = [h \in Handler |-> NoRequest]
    /\ client = [c \in Client |-> NewTab]
    /\ starts = 0 /\ faults = 0 /\ upsets = 0

Fault == faults < MaxFaults /\ faults' = faults + 1

Upset(kind) == kind \in Upsets /\ upsets < MaxUpsets /\ upsets' = upsets + 1
-----------------------------------------------------------------------------
(* The upload loop of a tab.  A reply says what it is and, where the body  *)
(* has it, how many units the server has received.                         *)

Reply(is, n) == [is |-> is, received |-> n]

At(t, state) == [NewTab EXCEPT !.at = state, !.offset = t.offset]

\* The loop goes on from offset n, with a fresh chunk and fresh attempts.
Resume(t, n) == [At(t, "ready") EXCEPT !.offset = n]

AfterStatus(t, r) ==
    CASE r.is = "exists"   -> At(t, "done")
      [] r.is = "received" -> Resume(t, IF r.received > Size THEN Size ELSE r.received)
      [] r.is = "quota"    -> At(t, "error")
      [] OTHER             -> Resume(t, 0)

\* A mismatch moves the loop to the server's offset and uses up no attempt; mismatches
\* with no progress in between are limited.
Correct(t, n) ==
    IF t.mismatches + 1 > MaxRetries + 2 THEN At(t, "error")
    ELSE [Resume(t, n) EXCEPT !.mismatches = t.mismatches + 1]

\* Mutant of Retry: one attempt too many.
RetryOnceMore(t) ==
    IF t.attempt > MaxRetries THEN At(t, "error")
    ELSE [t EXCEPT !.at = "ready", !.attempt = @ + 1]

\* The same chunk again.
Retry(t) ==
    IF t.attempt + 1 > MaxRetries THEN At(t, "error")
    ELSE [t EXCEPT !.at = "ready", !.attempt = @ + 1]

\* Mutant of AfterChunk: a duplicate is an error.
DuplicateFails(t, r) ==
    CASE r.is = "created"  -> At(t, "done")
      [] r.is = "received" -> IF r.received > t.offset THEN Resume(t, r.received)
                              ELSE At(t, "error")
      [] r.is = "mismatch" -> Correct(t, r.received)
      [] r.is = "failed"   -> Retry(t)
      [] OTHER             -> At(t, "error")

AfterChunk(t, r) ==
    CASE r.is \in {"created", "duplicate"} -> At(t, "done")
      [] r.is = "received" -> IF r.received > t.offset THEN Resume(t, r.received)
                              ELSE At(t, "error")
      [] r.is = "mismatch" -> Correct(t, r.received)
      [] r.is = "failed"   -> Retry(t)
      [] OTHER             -> At(t, "error")

AfterFinal(t, r) ==
    IF r.is \in {"created", "duplicate"} THEN At(t, "done") ELSE At(t, "error")

React(t, r) ==
    CASE t.at = "status" -> AfterStatus(t, r)
      [] t.at = "chunk"  -> AfterChunk(t, r)
      [] t.at = "final"  -> AfterFinal(t, r)

\* A request reaches a handler: h serves it from now on.
Send(c, h, first, kind, offset, data) ==
    /\ handler[h].pc = "idle"
    /\ handler' = [handler EXCEPT ![h] =
                      [NoRequest EXCEPT !.pc = first, !.kind = kind, !.offset = offset,
                                        !.data = data, !.owner = c]]

\* The file is chosen (again), hashed, and its status asked for.
Start(c) ==
    /\ client[c].at \in {"idle", "done", "error"}
    /\ starts < MaxStarts /\ starts' = starts + 1
    /\ \E h \in Handler : Send(c, h, "lookup", "status", 0, << >>)
    /\ client' = [client EXCEPT ![c] = [NewTab EXCEPT !.at = "status"]]
    /\ UNCHANGED <<store, disk, memory, faults, upsets>>

\* The next chunk, of any length the adaptive size may have; a retry sends the same one.
SendChunk(c) ==
    /\ client[c].at = "ready" /\ client[c].offset < Size
    /\ \E end \in client[c].offset + 1 .. Size, h \in Handler :
          /\ client[c].attempt > 0 => end = client[c].end
          /\ client' = [client EXCEPT ![c].at = "chunk", ![c].end = end]
          /\ LET piece == SubSeq(Content, client[c].offset + 1, end) IN
             \/ /\ Send(c, h, "permit", "chunk", client[c].offset, piece)
                /\ UNCHANGED faults
             \/ /\ Send(c, h, "permit", "chunk", client[c].offset,
                        [k \in DOMAIN piece |-> Garbage])
                /\ Fault
    /\ UNCHANGED <<store, disk, memory, starts, upsets>>

\* Everything is received and there is no video id: an empty body at the end.
SendFinal(c) ==
    /\ client[c].at = "ready" /\ client[c].offset = Size
    /\ \E h \in Handler : Send(c, h, "permit", "chunk", Size, << >>)
    /\ client' = [client EXCEPT ![c].at = "final"]
    /\ UNCHANGED <<store, disk, memory, bounds>>

\* The tab stops waiting (its timeout, or its user leaves); the request is still served.
Leave(c) ==
    /\ client[c].at \in {"status", "chunk", "final"}
    /\ Fault
    /\ \E next \in {React(client[c], Reply("failed", 0)), At(client[c], "error")} :
          client' = [client EXCEPT ![c] = next]
    /\ handler' = [h \in Handler |->
                      IF handler[h].owner = c THEN [handler[h] EXCEPT !.owner = None]
                      ELSE handler[h]]
    /\ UNCHANGED <<store, disk, memory, starts, upsets>>
-----------------------------------------------------------------------------
(* Serving a request.                                                      *)

Goto(h, p) == handler' = [handler EXCEPT ![h].pc = p]

\* The request ends and its tab, if it still listens, reacts to the reply.
Answer(h, r) ==
    /\ handler' = [handler EXCEPT ![h] = NoRequest]
    /\ client' = [c \in Client |->
                     IF c = handler[h].owner THEN React(client[c], r) ELSE client[c]]

\* upload_status: is the content stored already, and is there room for it?  A query that
\* fails does not stop the upload.
Lookup(h) ==
    /\ handler[h].pc = "lookup"
    /\ \/ row /\ Answer(h, Reply("exists", 0)) /\ UNCHANGED faults
       \/ ~row /\ Goto(h, "handle") /\ UNCHANGED <<client, faults>>
       \/ row /\ Fault /\ Goto(h, "handle") /\ UNCHANGED client
       \/ ~row /\ Fault /\ Answer(h, Reply("quota", 0))
    /\ UNCHANGED <<store, disk, memory, starts, upsets>>

\* slot_handle: the entry of the map, made when absent.  A status query takes its handle
\* before its permit, a chunk after it.
GetHandle(h) ==
    /\ handler[h].pc = "handle"
    /\ \E s \in Slot :
          /\ \/ s = current /\ UNCHANGED memory
             \/ /\ current = None /\ \A g \in Handler : handler[g].slot # s
                /\ current' = s
                /\ slots' = [slots EXCEPT ![s] = NewSlot]
          /\ handler' = [handler EXCEPT
                            ![h].slot = s,
                            ![h].pc = IF handler[h].kind = "status" THEN "permit" ELSE "lock"]
    /\ UNCHANGED <<store, disk, client, bounds>>

\* The steps between taking the slot's lock and letting it go.
Inside == {"write", "dup", "move", "save"}

\* Mutant of Locked: a status query locks the slot before it waits for its permit.
LockedBeforePermit(s) ==
    \E g \in Handler : handler[g].slot = s /\ handler[g].pc \in Inside \cup {"permit"}

Locked(s) == \E g \in Handler : handler[g].slot = s /\ handler[g].pc \in Inside

Permitted(h) ==
    \/ handler[h].pc \in Inside \cup {"lock"}
    \/ handler[h].pc = "handle" /\ handler[h].kind = "chunk"

\* upload_semaphore.acquire
Permit(h) ==
    /\ handler[h].pc = "permit"
    /\ Cardinality({g \in Handler : Permitted(g)}) < MaxOps
    /\ Goto(h, IF handler[h].kind = "status" THEN "lock" ELSE "handle")
    /\ UNCHANGED <<store, disk, memory, client, bounds>>

Bytes == IF tmp = None THEN << >> ELSE tmp

\* Mutant of Opened: a slot of a restarted process starts empty.
OpenedEmpty(h) == [slots[handler[h].slot] EXCEPT !.inited = TRUE, !.old = FALSE]

\* The slot of h as it is once h has its lock: init_slot has rebuilt the hash from the
\* temporary file, and last_activity is now.
Opened(h) ==
    LET slot == slots[handler[h].slot] IN
    IF slot.inited THEN [slot EXCEPT !.old = FALSE]
    ELSE [NewSlot EXCEPT !.inited = TRUE, !.hashed = Bytes]

SetSlot(h, slot) == slots' = [slots EXCEPT ![handler[h].slot] = slot] /\ UNCHANGED current

\* Mutant of Discard: the file stays.
DiscardHash(h, file, old) == SetSlot(h, ResetSlot) /\ UNCHANGED <<disk, upsets>>

\* slot.reset(), and remove_file, whose error is ignored.  file is the temporary file by now.
Discard(h, file, old) ==
    /\ SetSlot(h, ResetSlot)
    /\ \/ tmp' = None /\ tmpOld' = FALSE /\ UNCHANGED upsets
       \/ file # None /\ Upset("leftover") /\ tmp' = file /\ tmpOld' = old

Enters(h, kind) ==
    /\ handler[h].pc = "lock" /\ handler[h].kind = kind
    /\ ~Locked(handler[h].slot)

\* upload_received_bytes
Report(h) ==
    /\ Enters(h, "status")
    /\ SetSlot(h, Opened(h))
    /\ Answer(h, Reply("received", Len(Opened(h).hashed)))
    /\ UNCHANGED <<store, disk, bounds>>

\* The temporary file cannot be read.
ReadFails(h) ==
    /\ handler[h].pc = "lock" /\ ~Locked(handler[h].slot)
    /\ ~slots[handler[h].slot].inited /\ tmp # None
    /\ Fault
    /\ Answer(h, Reply("failed", 0))
    /\ UNCHANGED <<store, disk, memory, starts, upsets>>

\* init_slot takes a temporary file without metadata for none: whoever has the slot's lock
\* next finds it empty.
Overlook(h) ==
    /\ handler[h].pc = "lock" /\ ~Locked(handler[h].slot)
    /\ ~slots[handler[h].slot].inited /\ tmp # None
    /\ Upset("unseen")
    /\ SetSlot(h, ResetSlot)
    /\ UNCHANGED <<store, disk, handler, client, starts, faults>>

\* More than was announced: start over.
Overfull(h) ==
    /\ Enters(h, "chunk") /\ Len(Opened(h).hashed) > Size
    /\ Discard(h, tmp, tmpOld)
    /\ Answer(h, Reply("mismatch", 0))
    /\ UNCHANGED <<store, starts, faults>>

\* Mutant of IsReplay: every full slot counts as completed.
IsReplayOfFull(h) ==
    /\ Len(Opened(h).hashed) = Size
    /\ handler[h].offset + Len(handler[h].data) = Size

\* The final chunk, or the empty body after it, of an upload that is complete.
IsReplay(h) ==
    /\ Opened(h).done
    /\ handler[h].offset + Len(handler[h].data) = Len(Opened(h).hashed)

Replay(h) ==
    /\ Enters(h, "chunk") /\ Len(Opened(h).hashed) <= Size
    /\ IsReplay(h)
    /\ SetSlot(h, Opened(h))
    /\ Answer(h, Reply("created", Len(Opened(h).hashed)))
    /\ UNCHANGED <<store, disk, bounds>>

\* A first chunk after completion starts the upload over; another chunk is sent back.
Reupload(h) ==
    /\ Enters(h, "chunk") /\ Len(Opened(h).hashed) <= Size
    /\ Opened(h).done /\ ~IsReplay(h) /\ handler[h].data # << >>
    /\ IF handler[h].offset = 0
       THEN /\ Discard(h, tmp, tmpOld)
            /\ Goto(h, "write") /\ UNCHANGED client
       ELSE /\ SetSlot(h, Opened(h))
            /\ Answer(h, Reply("mismatch", 0))
            /\ UNCHANGED <<disk, upsets>>
    /\ UNCHANGED <<store, starts, faults>>

\* x-upload-offset is checked against what is received.
Accept(h) ==
    /\ Enters(h, "chunk") /\ Len(Opened(h).hashed) <= Size
    /\ ~Opened(h).done /\ ~IsReplay(h) /\ handler[h].data # << >>
    /\ SetSlot(h, Opened(h))
    /\ IF handler[h].offset # Len(Opened(h).hashed)
       THEN Answer(h, Reply("mismatch", Len(Opened(h).hashed)))
       ELSE Goto(h, "write") /\ UNCHANGED client
    /\ UNCHANGED <<store, disk, bounds>>

\* finalize_slot compares the hash before anything else; file is the temporary file by now.
Verify(h, hashed, file, old) ==
    IF hashed = Content
    THEN /\ SetSlot(h, [Opened(h) EXCEPT !.hashed = hashed])
         /\ tmp' = file /\ tmpOld' = old
         /\ Goto(h, "dup")
         /\ UNCHANGED <<client, upsets>>
    ELSE /\ Discard(h, file, old)
         /\ Answer(h, Reply("hash", 0))

\* An empty body: the explicit finalize, or a query when something is missing.
Finalize(h) ==
    /\ Enters(h, "chunk") /\ Len(Opened(h).hashed) <= Size
    /\ ~IsReplay(h) /\ handler[h].data = << >>
    /\ IF handler[h].offset = Len(Opened(h).hashed) /\ Len(Opened(h).hashed) = Size
       THEN Verify(h, Opened(h).hashed, tmp, tmpOld)
       ELSE /\ SetSlot(h, Opened(h))
            /\ Answer(h, Reply("received", Len(Opened(h).hashed)))
            /\ UNCHANGED <<disk, upsets>>
    /\ UNCHANGED <<store, starts, faults>>

\* The chunk is appended to the file, then to the hash; the last one goes on to finalize_slot.
Write(h) ==
    /\ handler[h].pc = "write"
    /\ LET hashed == Opened(h).hashed \o handler[h].data
           file   == Bytes \o handler[h].data IN
       IF Len(hashed) = Size
       THEN Verify(h, hashed, file, FALSE)
       ELSE /\ SetSlot(h, [Opened(h) EXCEPT !.hashed = hashed])
            /\ tmp' = file /\ tmpOld' = FALSE
            /\ Answer(h, Reply("received", Len(hashed)))
            /\ UNCHANGED upsets
    /\ UNCHANGED <<store, starts, faults>>

\* The file cannot be opened, or the disk is full half way: the slot does not advance.
WriteFails(h) ==
    /\ handler[h].pc = "write"
    /\ Fault
    /\ \/ UNCHANGED <<disk, upsets>>
       \/ /\ Upset("torn")
          /\ \E n \in 1 .. Len(handler[h].data) :
                tmp' = Bytes \o SubSeq(handler[h].data, 1, n)
          /\ tmpOld' = FALSE
    /\ Answer(h, Reply("failed", 0))
    /\ UNCHANGED <<store, memory, starts>>
-----------------------------------------------------------------------------
(* finalize_slot, after the hash: upload_video_file_inner.                 *)

\* An internal error keeps the upload for another finalize, if its file is still there.
KeepForRetry(h) ==
    /\ SetSlot(h, IF tmp = None THEN ResetSlot ELSE Opened(h))
    /\ UNCHANGED disk

CheckDuplicate(h) ==
    /\ handler[h].pc = "dup"
    /\ \/ row /\ Discard(h, tmp, tmpOld) /\ Answer(h, Reply("duplicate", 0)) /\ UNCHANGED faults
       \/ ~row /\ Goto(h, "move") /\ UNCHANGED <<client, disk, memory, faults, upsets>>
       \/ Fault /\ KeepForRetry(h) /\ Answer(h, Reply("failed", 0)) /\ UNCHANGED upsets
    /\ UNCHANGED <<store, starts>>

\* The file is validated, synced and renamed into the media directory.
Move(h) ==
    /\ handler[h].pc = "move" /\ tmp # None
    /\ handler' = [handler EXCEPT ![h].pc = "save", ![h].moved = tmp]
    /\ tmp' = None /\ tmpOld' = FALSE
    /\ UNCHANGED <<store, memory, client, bounds>>

\* No file to validate (400), a file of another type (400), or an error of the disk (500).
MoveFails(h) ==
    /\ handler[h].pc = "move"
    /\ \/ tmp = None /\ Discard(h, tmp, tmpOld) /\ Answer(h, Reply("refused", 0)) /\ UNCHANGED faults
       \/ Fault /\ Discard(h, tmp, tmpOld) /\ Answer(h, Reply("refused", 0))
       \/ Fault /\ KeepForRetry(h) /\ Answer(h, Reply("failed", 0)) /\ UNCHANGED upsets
    /\ UNCHANGED <<store, starts>>

\* An internal error, and try_exists fails on the file that is there: the upload is not kept.
KeepFails(h) ==
    /\ handler[h].pc \in {"dup", "move"} /\ tmp # None
    /\ Fault /\ Upset("unseen")
    /\ SetSlot(h, ResetSlot)
    /\ tmp' = None /\ tmpOld' = FALSE
    /\ Answer(h, Reply("failed", 0))
    /\ UNCHANGED <<store, starts>>

Insert(file) == row' = TRUE /\ stored' = file /\ ever' = TRUE

\* save_local_video_with_quota commits.
Save(h) ==
    /\ handler[h].pc = "save" /\ ~row
    /\ Insert(handler[h].moved)
    /\ SetSlot(h, [Opened(h) EXCEPT !.done = TRUE])
    /\ Answer(h, Reply("created", Size))
    /\ UNCHANGED <<disk, bounds>>

\* It does not: the renamed file is removed.  The unique index says duplicate, the quota
\* under the user's row lock says full, and an error leaves nothing to retry from.
SaveFails(h) ==
    /\ handler[h].pc = "save"
    /\ \/ row /\ Discard(h, tmp, tmpOld) /\ Answer(h, Reply("duplicate", 0)) /\ UNCHANGED faults
       \/ Fault /\ Discard(h, tmp, tmpOld) /\ Answer(h, Reply("quota", 0))
       \/ Fault /\ KeepForRetry(h) /\ Answer(h, Reply("failed", 0)) /\ UNCHANGED upsets
    /\ UNCHANGED <<store, starts>>

\* The commit is done and the error is of its confirmation: the file is removed all the same.
SaveUnacked(h) ==
    /\ handler[h].pc = "save" /\ ~row
    /\ Upset("unacked")
    /\ Insert(<< >>)
    /\ KeepForRetry(h)
    /\ Answer(h, Reply("failed", 0))
    /\ UNCHANGED <<starts, faults>>
-----------------------------------------------------------------------------
(* Around the requests.                                                    *)

\* What a statement or file operation under way leaves behind when nobody waits for it any
\* more, because the request was dropped or the process died.
Abandoned(h) ==
    CASE handler[h].pc = "write" ->
            /\ \E n \in 0 .. Len(handler[h].data) :
                  /\ tmp' = IF n = 0 THEN tmp ELSE Bytes \o SubSeq(handler[h].data, 1, n)
                  /\ tmpOld' = IF n = 0 THEN tmpOld ELSE FALSE
            /\ UNCHANGED store
      [] handler[h].pc = "move" ->
            /\ \/ UNCHANGED disk
               \/ tmp' = None /\ tmpOld' = FALSE
            /\ UNCHANGED store
      [] handler[h].pc = "save" ->
            /\ \/ UNCHANGED store
               \/ ~row /\ Insert(handler[h].moved)
            /\ UNCHANGED disk
      [] OTHER -> UNCHANGED <<store, disk>>

\* The connection breaks, or the request runs into the timeout layer: its future is dropped
\* at an await, the lock is let go, and the slot is as the request left it.
Drop(h) ==
    /\ handler[h].pc # "idle"
    /\ Fault
    /\ Abandoned(h)
    /\ IF handler[h].pc = "write" /\ tmp' # tmp THEN Upset("torn") ELSE UNCHANGED upsets
    /\ Answer(h, Reply("failed", 0))
    /\ UNCHANGED <<memory, starts>>

\* The process dies and starts again with no slots.  What reached the temporary file is
\* there; the hash is rebuilt from it.
Crash ==
    /\ Fault
    /\ \/ \E h \in Handler : handler[h].pc \in Inside /\ Abandoned(h)
       \/ (\A h \in Handler : handler[h].pc \notin Inside) /\ UNCHANGED <<store, disk>>
    /\ current' = None
    /\ slots' = [s \in Slot |-> NewSlot]
    /\ handler' = [h \in Handler |-> NoRequest]
    /\ client' = [c \in Client |->
                     IF client[c].at \in {"status", "chunk", "final"}
                     THEN React(client[c], Reply("failed", 0)) ELSE client[c]]
    /\ UNCHANGED <<starts, upsets>>

\* The times to live are longer than any request may take.  A tab in its loop is outlasted
\* only when it is suspended.
TimePasses ==
    /\ \A h \in Handler : handler[h].pc = "idle"
    /\ \/ (\A c \in Client : client[c].at \in {"idle", "done", "error"}) /\ UNCHANGED faults
       \/ Fault

\* COMPLETED_SLOT_TTL
MinutesPass ==
    /\ current # None /\ slots[current].done /\ ~slots[current].old
    /\ TimePasses
    /\ slots' = [slots EXCEPT ![current].old = TRUE]
    /\ UNCHANGED <<store, disk, current, handler, client, starts, upsets>>

\* UPLOAD_TEMP_TTL, for the slot since it was last used and for the file since it was last
\* written.
DayPasses ==
    /\ \/ current # None /\ ~slots[current].old
       \/ tmp # None /\ ~tmpOld
    /\ TimePasses
    /\ slots' = [s \in Slot |-> [slots[s] EXCEPT !.old = @ \/ s = current]]
    /\ tmpOld' = (tmp # None)
    /\ UNCHANGED <<store, tmp, current, handler, client, starts, upsets>>

\* cleanup_upload_slots: a slot whose lock can be had now, although a request may hold its
\* handle and be about to take it.
SweepSlot ==
    /\ current # None /\ ~Locked(current) /\ slots[current].old
    /\ IF \E h \in Handler : handler[h].slot = current
       THEN Upset("detached") /\ UNCHANGED slots
       ELSE slots' = [slots EXCEPT ![current] = NewSlot] /\ UNCHANGED upsets
    /\ current' = None
    /\ UNCHANGED <<store, disk, handler, client, starts, faults>>

\* Slots that took their bytes from the temporary file and are not through with it.
Counting ==
    {s \in Slot : /\ s = current \/ \E h \in Handler : handler[h].slot = s
                  /\ Locked(s) \/ (slots[s].hashed # << >> /\ ~slots[s].done)}

\* sweep_upload_temps_blocking, after the slots were swept, looks at the file's mtime only.
SweepFile ==
    /\ tmp # None /\ tmpOld
    /\ current # None => ~slots[current].old
    /\ IF Counting = {} THEN UNCHANGED upsets ELSE Upset("swept")
    /\ tmp' = None /\ tmpOld' = FALSE
    /\ UNCHANGED <<store, memory, handler, client, starts, faults>>

\* delete_video; nothing tells the slot.
Delete ==
    /\ row
    /\ Upset("deleted")
    /\ row' = FALSE /\ stored' = << >>
    /\ UNCHANGED <<ever, disk, memory, handler, client, starts, faults>>
-----------------------------------------------------------------------------
AppendChunk(h) ==
    \/ Overfull(h) \/ Replay(h) \/ Reupload(h) \/ Accept(h) \/ Finalize(h)
    \/ Write(h) \/ WriteFails(h)

FinalizeSlot(h) ==
    \/ CheckDuplicate(h) \/ Move(h) \/ MoveFails(h) \/ KeepFails(h)
    \/ Save(h) \/ SaveFails(h) \/ SaveUnacked(h)

Serve(h) ==
    \/ Lookup(h) \/ GetHandle(h) \/ Permit(h) \/ Report(h) \/ ReadFails(h) \/ Overlook(h)
    \/ AppendChunk(h) \/ FinalizeSlot(h)

Loop(c) == SendChunk(c) \/ SendFinal(c)

Next ==
    \/ \E c \in Client : Start(c) \/ Loop(c) \/ Leave(c)
    \/ \E h \in Handler : Serve(h) \/ Drop(h)
    \/ Crash \/ MinutesPass \/ DayPasses \/ SweepSlot \/ SweepFile \/ Delete

Spec == Init /\ [][Next]_vars

\* The runtime polls every request, and a tab that is not closed keeps looping.
Fairness ==
    /\ \A h \in Handler : WF_vars(Serve(h))
    /\ \A c \in Client : WF_vars(Loop(c))

FairSpec == Spec /\ Fairness
-----------------------------------------------------------------------------
TypeOK ==
    /\ row \in BOOLEAN /\ ever \in BOOLEAN /\ tmpOld \in BOOLEAN
    /\ stored \in Seq(0 .. Size)
    /\ tmp \in Seq(0 .. Size) \cup {None}
    /\ current \in Slot \cup {None}
    /\ slots \in [Slot -> SlotState]
    /\ handler \in [Handler -> Request]
    /\ client \in [Client -> Tab]
    /\ starts \in 0 .. MaxStarts /\ faults \in 0 .. MaxFaults /\ upsets \in 0 .. MaxUpsets

\* What is stored is what was hashed: the file behind the row is the content, unit for unit,
\* although only the slot's running hash is compared and never the file.  (No write is torn, and
\* no reset of the slot leaves or overlooks bytes in the temporary file.)
StoredIntact == row => stored = Content

\* The same, one step earlier: an idle slot that is still receiving has hashed exactly the
\* bytes of the temporary file, so appending to both keeps them equal.  (A slot that is full
\* may have lost its file to a finalize that was dropped.)
HashMatchesFile ==
    current # None /\ ~Locked(current) /\ slots[current].inited /\ ~slots[current].done =>
        \/ slots[current].hashed = Bytes
        \/ Len(slots[current].hashed) = Size /\ tmp = None

\* A tab reports success only in a step in which the content is stored.
DoneMeansStored ==
    [][\A c \in Client : client[c].at # "done" /\ client'[c].at = "done" => row']_vars

\* Whatever is torn, left over, swept or deleted, a tab never reports success for a content that was
\* never stored.
DoneWasStored == \A c \in Client : client[c].at = "done" => ever

\* Without failures each of two tabs that send the same content at the same time ends in
\* success: they disturb each other's offsets and slots, and still neither gives up.  (Of three
\* one may: it was told that everything is received, and before its empty body arrives a late
\* chunk of another has started the content over.  Of two one may, when the content is long
\* enough for the other to be first each time.)
UndisturbedSucceeds ==
    /\ Cardinality(Client) <= 2 /\ Size <= MaxRetries + 3
    /\ faults = 0 /\ upsets = 0
    => \A c \in Client : client[c].at # "error"

\* Every upload ends: corrections, retries and restarts go on for a bounded time, and no
\* request waits forever for a permit or a lock.
UploadEnds == \A c \in Client : client[c].at = "status" ~> client[c].at \in {"done", "error"}
=============================================================================
