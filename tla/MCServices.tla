----------------------------- MODULE MCServices -----------------------------
(***************************************************************************)
(* Six small services that share nothing, each by itself: the chat room,  *)
(* the uploads of its files, the transcodes to HLS, the limits, the        *)
(* access to media and what videos are found by.  Init picks the one that  *)
(* runs.                                                                   *)
(***************************************************************************)
EXTENDS ChatRoom, ChatUploads, HlsRuns, Throttling, MediaAccess, Discovery

CONSTANTS t1, t2, t3, u1, u2, admin, s1

VARIABLE part

vars == <<part, chatVars, uploadVars, hlsVars, limitVars, accessVars, discoveryVars>>

-----------------------------------------------------------------------------
MCUserOfTab(t) == IF t = t3 THEN u2 ELSE u1

Room(open, joins, leavers, senders, readers, stored, removals) ==
  [open |-> open, joins |-> [t \in Tabs |-> IF t \in joins THEN 1 ELSE 0], leavers |-> leavers,
   senders |-> senders, visits |-> [t \in Tabs |-> IF t \in readers THEN 1 ELSE 0],
   stored |-> stored, removals |-> removals]

\* Tabs that come and go; a sender, a reader and a removal; two senders; a page
\* with a full history and two removals; a tab that joins while one is removed; and
\* a page that is opened twice around a message and a removal.
Arrivals == Room({t3}, {t1, t2}, Tabs, {}, {}, 0, 0)
MCRooms == {Arrivals,
            Room({t1, t3}, {}, {}, {t1}, {t3}, 1, 1),
            Room({t1, t2}, {}, {}, {t1, t2}, {t1}, 1, 0),
            Room({t1}, {}, {}, {t1}, {t1}, 2, 2),
            Room({t1}, {t3}, {}, {t1}, {t3}, 2, 1),
            [Room({t1}, {}, {}, {t1}, {}, 1, 1) EXCEPT !.visits[t1] = 2]}

\* One limit with a block, and one with none.
MCPolicies == {[max |-> 2, window |-> 2, block |-> 3], [max |-> 3, window |-> 2, block |-> 0]}

Span(first, last) == [first |-> first, last |-> last]
MCRanges == {Nothing, Span(Nothing, 3), Span(0, Nothing), Span(1, 3), Span(1, 9), Span(4, 3)}

MCUserOf(t) == CASE t = "t1" -> u1 [] t = "t2" -> u2 [] OTHER -> admin
MCIsAdmin(u) == u = admin
MCUploaderOf(v) == IF v = 1 THEN u1 ELSE u2

Site(host, port) == [host |-> host, port |-> port]
MCPublicSite == Site("here", 443)
Headers == {Absent, Malformed, MCPublicSite, Site("here", 80), Site("there", 443)}

Path(kind, n) == [kind |-> kind, of |-> n]
\* Files of video 1, chat file 3, a picture and a file of nobody, asked for by
\* its uploader, another user or nobody, with a share of it, of another video or none.
MCAsks ==
  [path : {Path(k, 1) : k \in {"variant", "stream", "still", "cover"}}
            \cup {Path("chat", 3), Path("badchat", 3), Path("avatar", 4), Path("stray", 4)},
   token : {"t1", "t2", Anonymous}, share : {0, 1, 2}, mismatch : {FALSE}, referer : {Absent}, origin : {Absent}]
  \cup
  [path : {Path("variant", 1), Path("stream", 1)}, token : {"t1", "t3"}, share : {0, 1}, mismatch : BOOLEAN,
   referer : {Absent}, origin : {Absent}]
  \cup
  {[path |-> Path("avatar", 4), token |-> "t1", share |-> 0, mismatch |-> FALSE, referer |-> h[1], origin |-> h[2]] :
     h \in (Headers \X {Absent}) \cup ({MCPublicSite} \X Headers)}
MCWarm(ask) == [ask EXCEPT !.token = "t1", !.share = 0, !.referer = Absent, !.origin = Absent]
MCSessions == {{}, {<<u1, 1>>, <<admin, 1>>}}

Row(owner, category, views, local, old, score, matches) ==
  [owner |-> owner, category |-> category, views |-> views, local |-> local, old |-> old, score |-> score, matches |-> matches]
MCUploaded == Row(u1, "c", 0, TRUE, FALSE, Score(0, FALSE), {"token", "substring"})

\* A library of one user with two categories, a video that grew old, one without a
\* category or score, and the video of another user.
MCCatalogs ==
  {[v \in VideoIds |-> NoRow],
   [v \in VideoIds |-> CASE v = 1 -> Row(u1, "c", 1, TRUE, FALSE, Score(1, FALSE), {"token", "prefix", "substring"})
                   [] v = 2 -> Row(u1, "d", 1, TRUE, TRUE, Score(1, FALSE), {"word"})
                   [] v = 3 -> Row(u1, "c", 0, TRUE, FALSE, Score(0, FALSE), {"substring"})
                   [] OTHER -> NoRow],
   [v \in VideoIds |-> CASE v = 1 -> Row(u1, NoCategory, 0, TRUE, TRUE, 0, {"token"})
                   [] v = 2 -> Row(u2, "c", 1, TRUE, FALSE, Score(1, FALSE), {"token", "prefix", "word"})
                   [] v = 3 -> Row(u1, "d", 1, FALSE, FALSE, Score(1, FALSE), {"prefix"})
                   [] OTHER -> NoRow]}
MCWatched == {{}, {<<u1, 1>>}, {<<u1, 1>>, <<u1, 2>>}}

Wish(kind, user) == [kind |-> kind, user |-> user, admin |-> FALSE, video |-> 0, page |-> 1, size |-> 2, query |-> "none"]
Query(ask, q) == [ask EXCEPT !.query = q]
Pair(ask1, ask2) == [r \in Seekers |-> IF r = s1 THEN ask1 ELSE ask2]
\* Two requests for one page; two pages, one of them too large; a personal feed; and
\* searches and suggestions of a user and of an administrator.
MCSearches ==
  {Pair(Wish("trending", u1), Wish("trending", u1)),
   Pair([Wish("similar", u1) EXCEPT !.video = 1], [Wish("similar", u1) EXCEPT !.video = 1]),
   Pair(Wish("recent", u1), [Wish("recent", u1) EXCEPT !.page = 2, !.size = 9]),
   Pair(Wish("foryou", u1), Query(Wish("search", u1), "blank")),
   Pair(Query(Wish("search", u1), "cjk"), [Query(Wish("search", admin), "cjk") EXCEPT !.admin = TRUE]),
   Pair(Query(Wish("search", u1), "ascii"), Query(Wish("suggest", u2), "blank")),
   Pair(Query(Wish("search", u1), "blank"), Query(Wish("suggest", u2), "blank")),
   Pair(Query(Wish("suggest", u1), "ascii"), Query(Wish("suggest", u1), "ascii"))}

-----------------------------------------------------------------------------
Nobody == [path |-> Path("stray", 4), token |-> Anonymous, share |-> 0, mismatch |-> FALSE,
           referer |-> Absent, origin |-> Absent]

\* Playback sessions matter to files of videos, and messages to chat files.
AskedOf == /\ sessions # {} => req[First].ask.path.kind \in {"variant", "stream"}
           /\ referenced # {} => req[First].ask.path.kind \in {"chat", "badchat"}

\* The parser matters to a search, the job runs by itself, and most meet one edit.
Sought == /\ catalog # [v \in VideoIds |-> NoRow]
          /\ zhparser => Ask(s1).query = "cjk"
          /\ rounds = 0 <=> Ask(s1).query = "blank"
          /\ history # {} => Ask(s1).kind = "foryou"
          /\ edits = IF Ask(s1).kind = "foryou" THEN 0 ELSE 1
NothingSought == /\ catalog = [v \in VideoIds |-> NoRow] /\ history = {} /\ zhparser = FALSE
                 /\ Ask(s1).kind = "foryou" /\ rounds = 0 /\ edits = 0

Init ==
  /\ part \in {"chat", "files", "hls", "limits", "access", "feeds"}
  /\ ChatInit
  /\ part # "chat" => room = Arrivals
  /\ UploadsInit
  /\ HlsInit
  /\ LimitInit
  /\ part # "limits" => policy = Nothing
  /\ AccessInit
  /\ IF part = "access" THEN AskedOf ELSE req[First].ask = Nobody /\ sessions = {} /\ referenced = {}
  /\ DiscoveryInit
  /\ IF part = "feeds" THEN Sought ELSE NothingSought

Next ==
  \/ part = "chat" /\ ChatNext /\ UNCHANGED <<part, uploadVars, hlsVars, limitVars, accessVars, discoveryVars>>
  \/ part = "files" /\ UploadsNext /\ UNCHANGED <<part, chatVars, hlsVars, limitVars, accessVars, discoveryVars>>
  \/ part = "hls" /\ HlsNext /\ UNCHANGED <<part, chatVars, uploadVars, limitVars, accessVars, discoveryVars>>
  \/ part = "limits" /\ LimitNext /\ UNCHANGED <<part, chatVars, uploadVars, hlsVars, accessVars, discoveryVars>>
  \/ part = "access" /\ AccessNext /\ UNCHANGED <<part, chatVars, uploadVars, hlsVars, limitVars, discoveryVars>>
  \/ part = "feeds" /\ DiscoveryNext /\ UNCHANGED <<part, chatVars, uploadVars, hlsVars, limitVars, accessVars>>

Spec == Init /\ [][Next]_vars
=============================================================================
