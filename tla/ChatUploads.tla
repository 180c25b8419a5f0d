---------------------------- MODULE ChatUploads ----------------------------
(***************************************************************************)
(* Uploads of pictures and videos for the chat (handlers/chat.rs,          *)
(* services/chat_video.rs): a video is streamed to a temporary file,       *)
(* checked, and kept as it is or converted by ffmpeg, a few at a time.     *)
(* Every await is a point where the request may be dropped, by a client    *)
(* that goes away; what ffmpeg and the file system answer is a choice.     *)
(***************************************************************************)
EXTENDS Naturals, FiniteSets

CONSTANTS
  Uploads,       \* the requests
  MaxTranscodes, \* MAX_CONCURRENT_TRANSCODES
  MaxDropped     \* bound: requests dropped

VARIABLES
  upload,        \* where each request is
  chatDir,       \* the files under media/chat, by the request that wrote them
  permits,       \* the requests that hold a permit of transcode_semaphore
  dropped,       \* history: the requests that were dropped, or whose write was torn
  leftovers      \* history: the files that a removal failed to remove, or that nothing tried to

uploadVars == <<upload, chatDir, permits, dropped, leftovers>>

\* A request writes at most one of each: ".upload_" while it streams, the output
\* of ffmpeg under its last name, or the file that is served.
Temp(u) == <<"temp", u>>
Output(u) == <<"output", u>>

UploadsInit ==
  /\ upload = [u \in Uploads |-> "idle"]
  /\ chatDir = {}
  /\ permits = {}
  /\ dropped = {}
  /\ leftovers = {}

\* What remove_file answers is ignored wherever it is called.
RemoveFile(f) == \/ chatDir' = chatDir \ {f} /\ UNCHANGED leftovers
                 \/ f \in chatDir /\ leftovers' = leftovers \cup {f} /\ UNCHANGED chatDir

Advance(u, from, to) == upload[u] = from /\ upload' = [upload EXCEPT ![u] = to]

\* The body is too long, empty or broken, or its first bytes are of no kind
\* that is allowed; or the rate limit refuses.
Refuse(u) ==
  /\ Advance(u, "idle", "refused")
  /\ UNCHANGED <<chatDir, permits, dropped, leftovers>>

-----------------------------------------------------------------------------
\* upload_chat_image: nothing removes what a failed write has left.
BeginImage(u) ==
  /\ Advance(u, "idle", "image")
  /\ UNCHANGED <<chatDir, permits, dropped, leftovers>>

WriteImage(u) ==
  /\ \/ Advance(u, "image", "done") /\ UNCHANGED dropped
     \/ Advance(u, "image", "refused") /\ dropped' = dropped \cup {u}
  /\ chatDir' = chatDir \cup {Output(u)}
  /\ UNCHANGED <<permits, leftovers>>

-----------------------------------------------------------------------------
\* upload_chat_video: the extension is one of ALLOWED_INPUT_EXTS.
CreateTemp(u) ==
  /\ Advance(u, "idle", "streaming")
  /\ chatDir' = chatDir \cup {Temp(u)}
  /\ UNCHANGED <<permits, dropped, leftovers>>

\* Every refusal after that tries to take the temporary file away first.
Discard(u, from) ==
  /\ Advance(u, from, "refused")
  /\ RemoveFile(Temp(u))
  /\ UNCHANGED <<permits, dropped>>

StreamChunks(u) ==
  \/ Advance(u, "streaming", "probing") /\ UNCHANGED <<chatDir, permits, dropped, leftovers>>
  \/ Discard(u, "streaming")

\* prepare_video: a WebM is kept, and so is one that ffprobe cannot read; a
\* video that is too long or unreadable is refused.
Probe(u) ==
  \/ Advance(u, "probing", "renaming") /\ UNCHANGED <<chatDir, permits, dropped, leftovers>>
  \/ Advance(u, "probing", "queued") /\ UNCHANGED <<chatDir, permits, dropped, leftovers>>
  \/ Discard(u, "probing")

RenameTemp(u) ==
  \/ /\ Advance(u, "renaming", "done")
     /\ chatDir' = (chatDir \ {Temp(u)}) \cup {Output(u)}
     /\ UNCHANGED <<permits, dropped, leftovers>>
  \/ Discard(u, "renaming")

\* An H.264 video is remuxed first.
AcquirePermit(u) ==
  /\ Cardinality(permits) < MaxTranscodes
  /\ \/ Advance(u, "queued", "remuxing")
     \/ Advance(u, "queued", "encoding")
  /\ permits' = permits \cup {u}
  /\ UNCHANGED <<chatDir, dropped, leftovers>>

\* run_ffmpeg writes its output as it goes, whatever becomes of it.
RunFfmpeg(u) ==
  /\ upload[u] \in {"remuxing", "encoding"}
  /\ Output(u) \notin chatDir
  /\ chatDir' = chatDir \cup {Output(u)}
  /\ UNCHANGED <<upload, permits, dropped, leftovers>>

\* A remux that fails is followed by an encoding.
RemuxFailed(u) ==
  /\ Advance(u, "remuxing", "encoding")
  /\ RemoveFile(Output(u))
  /\ UNCHANGED <<permits, dropped>>

EncodeFailed(u) ==
  /\ Advance(u, "encoding", "failed")
  /\ RemoveFile(Output(u))
  /\ permits' = permits \ {u}
  /\ UNCHANGED dropped

\* finalize: an empty or oversized output is removed, one whose metadata cannot be
\* read is not, and nothing else is tried.
Finalize(u) ==
  /\ upload[u] \in {"remuxing", "encoding"}
  /\ Output(u) \in chatDir
  /\ \/ Advance(u, upload[u], "converted") /\ UNCHANGED <<chatDir, leftovers>>
     \/ Advance(u, upload[u], "failed") /\ RemoveFile(Output(u))
     \/ Advance(u, upload[u], "failed") /\ leftovers' = leftovers \cup {Output(u)} /\ UNCHANGED chatDir
  /\ permits' = permits \ {u}
  /\ UNCHANGED dropped

\* A mutant: the temporary file goes only after a success.
FinishVideoConverted(u) ==
  /\ \/ Advance(u, "converted", "done") /\ RemoveFile(Temp(u))
     \/ Advance(u, "failed", "refused") /\ UNCHANGED <<chatDir, leftovers>>
  /\ UNCHANGED <<permits, dropped>>

FinishVideo(u) ==
  /\ \/ Advance(u, "converted", "done")
     \/ Advance(u, "failed", "refused")
  /\ RemoveFile(Temp(u))
  /\ UNCHANGED <<permits, dropped>>

-----------------------------------------------------------------------------
\* The future of the request is dropped where it waits: the permit is returned
\* and ffmpeg killed (kill_on_drop), and the files stay.
Waiting(u) == upload[u] \notin {"idle", "done", "refused"}

Drop(u) ==
  /\ Waiting(u)
  /\ Cardinality(dropped) < MaxDropped
  /\ upload' = [upload EXCEPT ![u] = "refused"]
  /\ permits' = permits \ {u}
  /\ dropped' = dropped \cup {u}
  /\ UNCHANGED <<chatDir, leftovers>>

UploadsNext == \E u \in Uploads :
  \/ Refuse(u) \/ BeginImage(u) \/ WriteImage(u)
  \/ CreateTemp(u) \/ StreamChunks(u) \/ Probe(u) \/ RenameTemp(u)
  \/ AcquirePermit(u) \/ RunFfmpeg(u) \/ RemuxFailed(u) \/ EncodeFailed(u)
  \/ Finalize(u) \/ FinishVideo(u) \/ Drop(u)

-----------------------------------------------------------------------------
\* The files under media/chat are those of requests under way and those that
\* were answered with an address, each of which is there.  Another is left behind
\* only by a request that was dropped, by a write that failed half way, or by a
\* removal that failed.  And a request that has ended holds no permit.
ChatFilesAccounted ==
  /\ \A u \in Uploads : upload[u] = "done" => Output(u) \in chatDir /\ {Temp(u)} \cap chatDir \subseteq leftovers
  /\ \A u \in Uploads : upload[u] \in {"idle", "refused"} /\ u \notin dropped =>
       {Temp(u), Output(u)} \cap chatDir \subseteq leftovers
  /\ permits \subseteq {u \in Uploads : Waiting(u)}
=============================================================================
