---------------------------- MODULE MediaAccess ----------------------------
(***************************************************************************)
(* Who is served a file of the media directory (middleware/auth/media.rs): *)
(* a request is judged in steps, each of which reads a cache or the        *)
(* database, while rows, logins, playback sessions, share links and chat   *)
(* messages come and go around it.                                         *)
(***************************************************************************)
EXTENDS Naturals

CONSTANTS
  Requests,    \* requests to /media, each served or refused once
  First,       \* one of them
  Asks,        \* what may be asked: [path, token, share, mismatch, referer, origin]
  Warm(_),     \* what the other requests ask beside it
  Tokens,      \* login tokens
  UserOf(_), IsAdmin(_),
  Videos,
  UploaderOf(_),  \* uploader_id
  Sessions,    \* the playback sessions there may be at first
  ChatFiles,
  MaxChanges,  \* bound: changes of what the requests read
  Anonymous,
  PublicSite,  \* [host, port] of PUBLIC_URL
  Absent, Malformed  \* a header that is not there, or cannot be read

VARIABLES
  req,         \* the requests
  logins,      \* tokens the database knows, of approved users
  unapproved,  \* tokens of users who lost their approval
  videoRows,   \* the table videos
  sessions,    \* playback_sessions: <<user, video>>
  shares,      \* videos with a valid share link
  referenced,  \* chat files that a message refers to
  auth,        \* MEDIA_AUTH_CACHE and media:auth:{token}
  details,     \* video_detail_cache
  refs,        \* CHAT_MEDIA_REF_CACHE
  changes

facts == <<logins, unapproved, videoRows, sessions, shares, referenced, changes>>
cached == <<auth, details, refs>>
accessVars == <<req, facts, cached>>

-----------------------------------------------------------------------------
NoVideo == 0

\* What a path says.  Uploads have a name that holds no id; what is made of a video
\* has it in the path.
NamedById == {"variant", "hls", "thumb", "cover"}
PathVideoId(path) == IF path.kind \in NamedById THEN path.of ELSE NoVideo
IsPublicStatic(path) == path.kind = "avatar"
IsChatMedia(path) == path.kind \in {"chat", "badchat"}
IsValidChatMedia(path) == path.kind = "chat"
IsPreview(path) == path.kind \in {"thumb", "cover", "still"}

FindByStreamUrl(path) == {v \in videoRows : path.kind \in {"stream", "still"} /\ path.of = v}
FilesOfShared(v) == [kind : {"stream", "still", "thumb", "cover"}, of : {v}]

\* What bears on a request, at this moment or in a cache.
Held(ask) ==
  {<<"login", t>> : t \in (logins \cup auth) \cap {ask.token}}
    \cup {<<"row", v>> : v \in (videoRows \cup details) \cap {ask.path.of}}
    \cup {<<"session", v>> : v \in {w \in Videos : ask.token # Anonymous /\ <<UserOf(ask.token), w>> \in sessions}}
    \cup {<<"share", v>> : v \in shares \cap {ask.share}}
    \cup {<<"message", f>> : f \in (referenced \cup refs) \cap {ask.path.of}}

Remember(new) == [r \in Requests |-> IF req[r].at \in {"served", "refused"} THEN req[r]
                                     ELSE [new[r] EXCEPT !.seen = @ \cup Held(req[r].ask)]]
Step(r, at) == req' = Remember([req EXCEPT ![r].at = at])
StepOn(r, at, v) == req' = Remember([req EXCEPT ![r].at = at, ![r].video = v])
At(r, at) == req[r].at = at
PathOf(r) == req[r].ask.path
TokenOf(r) == req[r].ask.token

AccessInit ==
  /\ \E ask \in Asks : req = [r \in Requests |-> [at |-> "resolve", video |-> NoVideo, seen |-> {},
                                                  ask |-> IF r = First THEN ask ELSE Warm(ask)]]
  /\ logins = Tokens
  /\ unapproved = {}
  /\ videoRows = Videos
  /\ sessions \in Sessions
  /\ shares = Videos
  /\ referenced \in {{}, ChatFiles}
  /\ auth = {} /\ details = {} /\ refs = {}
  /\ changes = 0

-----------------------------------------------------------------------------
\* resolve_media_user: the caches, then the database; an unknown token is as none.
ResolveMediaUser(r) ==
  /\ At(r, "resolve")
  /\ Step(r, IF TokenOf(r) = Anonymous THEN "share"
             ELSE IF TokenOf(r) \in auth THEN "judge"
             ELSE IF TokenOf(r) \in logins THEN "fillauth"
             ELSE IF TokenOf(r) \in unapproved THEN "refused" ELSE "share")
  /\ UNCHANGED <<facts, cached>>

FillAuth(r) ==
  /\ At(r, "fillauth")
  /\ auth' = auth \cup {TokenOf(r)}
  /\ UNCHANGED <<facts, details, refs>>
  /\ Step(r, "judge")

\* chat_media_is_referenced keeps what is, and asks again for what is not.
JudgeChat(r) ==
  /\ At(r, "judge")
  /\ IsChatMedia(PathOf(r))
  /\ Step(r, IF ~IsValidChatMedia(PathOf(r)) THEN "refused"
             ELSE IF PathOf(r).of \in refs THEN "passed"
             ELSE IF PathOf(r).of \in referenced THEN "fillref" ELSE "refused")
  /\ UNCHANGED <<facts, cached>>

FillRef(r) ==
  /\ At(r, "fillref")
  /\ refs' = refs \cup {PathOf(r).of}
  /\ UNCHANGED <<facts, auth, details>>
  /\ Step(r, "passed")

\* The video of the path: by its id from the cache or the table, or by its URL.
JudgeVideo(r) ==
  /\ At(r, "judge")
  /\ ~IsChatMedia(PathOf(r))
  /\ LET id == PathVideoId(PathOf(r))
         byUrl == FindByStreamUrl(PathOf(r))
     IN CASE id # NoVideo -> StepOn(r, IF id \in details THEN "owner" ELSE IF id \in videoRows THEN "filldetail" ELSE "refused", id)
          [] id = NoVideo /\ IsPublicStatic(PathOf(r)) -> Step(r, "passed")
          [] id = NoVideo /\ ~IsPublicStatic(PathOf(r)) /\ byUrl = {} -> Step(r, "refused")
          [] OTHER -> \E v \in byUrl : StepOn(r, "owner", v)
  /\ UNCHANGED <<facts, cached>>

FillDetail(r) ==
  /\ At(r, "filldetail")
  /\ details' = details \cup {req[r].video}
  /\ UNCHANGED <<facts, auth, refs>>
  /\ Step(r, "owner")

IsOwner(r) == IsAdmin(UserOf(TokenOf(r))) \/ UploaderOf(req[r].video) = UserOf(TokenOf(r))

\* A mutant: previews are served before the owner is looked at.
PreviewFirst(r) ==
  IF IsPreview(PathOf(r)) THEN "passed"
  ELSE IF ~IsOwner(r) THEN "shareonly"
  ELSE IF <<UserOf(TokenOf(r)), req[r].video>> \in sessions THEN "header" ELSE "sharetoo"

\* Others come in by a share of the video alone; the owner needs none for a
\* preview, and for the rest a session or a share.
Verdict(r) ==
  IF ~IsOwner(r) THEN "shareonly"
  ELSE IF IsPreview(PathOf(r)) THEN "passed"
  ELSE IF <<UserOf(TokenOf(r)), req[r].video>> \in sessions THEN "header" ELSE "sharetoo"

JudgeOwner(r) ==
  /\ At(r, "owner")
  /\ Step(r, Verdict(r))
  /\ UNCHANGED <<facts, cached>>

ShareTokenAuthorizes(r) == req[r].ask.share \in shares /\ req[r].ask.share = req[r].video

JudgeShare(r) ==
  \/ /\ At(r, "shareonly")
     /\ Step(r, IF ShareTokenAuthorizes(r) THEN "passed" ELSE "refused")
     /\ UNCHANGED <<facts, cached>>
  \/ /\ At(r, "sharetoo")
     /\ Step(r, IF ShareTokenAuthorizes(r) THEN "header" ELSE "refused")
     /\ UNCHANGED <<facts, cached>>

CheckHeader(r) ==
  /\ At(r, "header")
  /\ Step(r, IF req[r].ask.mismatch THEN "refused" ELSE "passed")
  /\ UNCHANGED <<facts, cached>>

\* Without a login: the share token, which has to be of the video the path names, or
\* whose row has the path.
ShareFallback(r) ==
  /\ At(r, "share")
  /\ LET s == req[r].ask.share
         id == PathVideoId(PathOf(r))
     IN Step(r, IF s \notin shares THEN "refused"
                ELSE IF id = NoVideo THEN "sharefile"
                ELSE IF id = s THEN "passed" ELSE "refused")
  /\ UNCHANGED <<facts, cached>>

ShareFile(r) ==
  /\ At(r, "sharefile")
  /\ Step(r, IF req[r].ask.share \in videoRows /\ PathOf(r) \in FilesOfShared(req[r].ask.share) THEN "passed" ELSE "refused")
  /\ UNCHANGED <<facts, cached>>

\* hotlink_guard, once access is granted: a Referer has to name this host, an Origin
\* this host and port, and either may be missing.
OffSite(ask) ==
  \/ ask.referer # Absent /\ (ask.referer = Malformed \/ ask.referer.host # PublicSite.host)
  \/ ask.origin # Absent /\ (ask.origin = Malformed \/ ask.origin # PublicSite)

HotlinkGuard(r) ==
  /\ At(r, "passed")
  /\ Step(r, IF OffSite(req[r].ask) THEN "refused" ELSE "served")
  /\ UNCHANGED <<facts, cached>>

\* A statement that fails answers with an error.
JudgeFails(r) ==
  /\ req[r].at \in {"resolve", "judge", "shareonly", "sharetoo", "share", "sharefile"}
  /\ Step(r, "refused")
  /\ UNCHANGED <<facts, cached>>

-----------------------------------------------------------------------------
\* What goes on around the requests, one change of one thing at a time.
Around == /\ changes < MaxChanges
          /\ changes' = changes + 1
          /\ UNCHANGED cached
          /\ req' = Remember(req)

LoginEnds == Around /\ \E t \in logins :
  /\ logins' = logins \ {t}
  /\ unapproved' \in {unapproved, unapproved \cup {t}}
  /\ UNCHANGED <<videoRows, sessions, shares, referenced>>

\* The share links of a video go with it.
VideoGoes == Around /\ \E v \in videoRows :
  /\ videoRows' = videoRows \ {v}
  /\ shares' = shares \ {v}
  /\ UNCHANGED <<logins, unapproved, sessions, referenced>>

SessionChanges == Around /\ \E t \in Tokens, v \in Videos :
  /\ sessions' = IF <<UserOf(t), v>> \in sessions THEN sessions \ {<<UserOf(t), v>>} ELSE sessions \cup {<<UserOf(t), v>>}
  /\ UNCHANGED <<logins, unapproved, videoRows, shares, referenced>>

ShareEnds == Around /\ \E v \in shares :
  /\ shares' = shares \ {v}
  /\ UNCHANGED <<logins, unapproved, videoRows, sessions, referenced>>

MessageChanges == Around /\ \E f \in ChatFiles :
  /\ referenced' = IF f \in referenced THEN referenced \ {f} ELSE referenced \cup {f}
  /\ UNCHANGED <<logins, unapproved, videoRows, sessions, shares>>

\* Entries run out, and invalidate_caches drops those of the videos.
EntriesExpire ==
  /\ \/ auth # {} /\ auth' = {} /\ UNCHANGED <<details, refs>>
     \/ details # {} /\ details' = {} /\ UNCHANGED <<auth, refs>>
     \/ refs # {} /\ refs' = {} /\ UNCHANGED <<auth, details>>
  /\ UNCHANGED facts
  /\ req' = Remember(req)

MediaAuth(r) ==
  \/ ResolveMediaUser(r) \/ FillAuth(r) \/ JudgeChat(r) \/ FillRef(r)
  \/ JudgeVideo(r) \/ FillDetail(r) \/ JudgeOwner(r) \/ JudgeShare(r) \/ CheckHeader(r)
  \/ ShareFallback(r) \/ ShareFile(r) \/ HotlinkGuard(r) \/ JudgeFails(r)

AccessNext ==
  \/ \E r \in Requests : MediaAuth(r)
  \/ LoginEnds \/ VideoGoes \/ SessionChanges \/ ShareEnds \/ MessageChanges \/ EntriesExpire

-----------------------------------------------------------------------------
\* A request is served only what it was entitled to by things that held, or were
\* still cached, at some time since it came: a chat file that a message refers to
\* or a picture of a user, to who is logged in; a file of a video to its uploader
\* or an administrator, who plays it unless it is a preview; and to who has a
\* share of this very video.  A file that belongs to nothing is never served, nor one asked for from another site.
ServedWasAllowed == \A r \in Requests : At(r, "served") =>
  LET path == PathOf(r)
      was(fact) == fact \in req[r].seen
      in == was(<<"login", TokenOf(r)>>)
      mine == IsAdmin(UserOf(TokenOf(r))) \/ UploaderOf(path.of) = UserOf(TokenOf(r))
      shared == was(<<"share", path.of>>)
      playing == was(<<"session", path.of>>) /\ ~req[r].ask.mismatch
      asker == {req[r].ask.referer, req[r].ask.origin} \ {Absent}
  IN /\ Malformed \notin asker /\ \A site \in asker : site.host = PublicSite.host
     /\ CASE path.kind = "avatar" -> in
          [] path.kind = "chat" -> in /\ was(<<"message", path.of>>)
          [] path.kind \in {"stray", "badchat"} -> FALSE
          [] OTHER -> \/ shared
                      \/ in /\ mine /\ was(<<"row", path.of>>) /\ (IsPreview(path) \/ playing)
=============================================================================
