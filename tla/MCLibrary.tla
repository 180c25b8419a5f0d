------------------------------ MODULE MCLibrary ------------------------------
(***************************************************************************)
(* Scenarios for Community: videos that are already there, and the         *)
(* operations that meet on them, two requests at a time.                   *)
(***************************************************************************)
EXTENDS Community, TLC

MCVideos == 1..4
MCUsers == {1, 2}
MCAdmins == {1}
MCSizeOf == [c \in Contents |-> IF c = "b" THEN 2 ELSE 1]
MCComments == 1..4
MCShares == 1..2
MCPlaylists == 1..2
MCReports == {Report(0, 0), Report(1000, 0), Report(9000, 10000), Report(10000, 10000), Report(20000, 20000)}
RequestSymmetry == Permutations(Requests)

Clip(v, owner) == [NewVideo(v, owner, "local_video", File("media", v, "a"), "a") EXCEPT !.length = Seconds]
Pictured(v, owner) == [Clip(v, owner) EXCEPT !.cover = CoverOf(v), !.thumb = ThumbOf(v)]
Photo(v, owner) == NewVideo(v, owner, "local_image", File("media", v, "p"), "p")

\* The first rows, and the rest of the table empty.
Table(rows) == [v \in Videos |-> IF v \in DOMAIN rows THEN rows[v] ELSE NoVideo]
Disk(rows) == UNION {{rows[v].file, rows[v].cover, rows[v].thumb} : v \in DOMAIN rows} \ {NoFile}
Charged(rows) == [u \in Users |-> MapThenSumSet(LAMBDA v : Bytes(rows[v]),
                                                {v \in DOMAIN rows : rows[v].owner = u})]

Scenario(rows, menu, users, asked, contents, calls, upsets) ==
  [videos |-> Table(rows), storage |-> Charged(rows), variants |-> {}, disk |-> Disk(rows),
   progress |-> [u \in Users |-> [v \in Videos |-> NoReport]],
   comments |-> [c \in Comments |-> NoComment],
   usage |-> [t \in Tags |-> [there |-> FALSE, count |-> 0]], tagged |-> {},
   lists |-> [l \in Playlists |-> 0], items |-> [l \in Playlists |-> <<>>],
   seq |-> [video |-> Len(rows) + 1, file |-> Len(rows) + 1, comment |-> 1, list |-> 1, share |-> 1],
   menu |-> menu, users |-> users, asked |-> asked, contents |-> contents, calls |-> calls,
   upsets |-> upsets]

Watched(v) == [Scenario(<<Clip(1, 2), Clip(2, 1)>>, {"burn", "playback"}, {2}, {1, 2}, {}, 3, 0)
                 EXCEPT !.progress[2][v] = Report(9000, 10000)]
Discussed == [Scenario(<<Clip(1, 2), Clip(2, 2)>>, {"comment", "uncomment", "delete"}, {1, 2}, {1, 2}, {}, 3, 0)
  EXCEPT !.comments = (1 :> [video |-> 1, user |-> 1, parent |-> 0]) @@
                      (2 :> [video |-> 1, user |-> 2, parent |-> 1]) @@ @, !.seq.comment = 3]
Tagged == [Scenario(<<Clip(1, 2), Clip(2, 2)>>, {"tag", "untag", "delete", "newtag", "deltag"}, {2}, {1, 2}, {}, 3, 0)
  EXCEPT !.usage["x"] = [there |-> TRUE, count |-> 1], !.tagged = {<<1, "x">>}]
Listed == [Scenario(<<Clip(1, 2), Clip(2, 2), Clip(3, 2)>>, {"additem", "removeitem", "reorder", "delete"},
                    {2}, {1, 2, 3}, {}, 3, 0)
  EXCEPT !.lists[1] = 2, !.items[1] = (1 :> 0) @@ (2 :> 1), !.seq.list = 2]

MCScenarios == {
  \* two users upload, and an administrator deletes
  Scenario(<<>>, {"upload", "delete"}, {1, 2}, {1}, {"a"}, 3, 1),
  \* the quota
  Scenario(<<Clip(1, 2)>>, {"upload", "delete"}, {2}, {1}, {"b", "p"}, 3, 0),
  \* a scan comes across an upload, a new cover or a deletion
  Scenario(<<Pictured(1, 2)>>, {"upload", "delete", "scan", "cover"}, {2}, {1}, {"p"}, 2, 0),
  \* all the ways to delete one video, and its file that comes and goes
  [Scenario(<<Pictured(1, 2)>>, {"delete", "deletemany", "burn", "sweep", "like"}, {1, 2}, {1}, {}, 3, 2)
     EXCEPT !.variants = {1}, !.progress[2][1] = Report(9000, 10000)],
  \* watching to the end
  Watched(2), Watched(1),
  Scenario(<<Photo(1, 2), Clip(2, 1)>>, {"burn", "start", "heartbeat", "stop", "view"}, {1, 2}, {1, 2}, {}, 3, 1),
  \* what is cached when a video goes or changes
  Scenario(<<Clip(1, 2), Clip(2, 1)>>, {"get", "list", "delete", "edit", "burn"}, {1, 2}, {1}, {}, 3, 1),
  \* administrators at work on rows that lack something
  Scenario(<<Clip(1, 2), Photo(2, 2)>>, {"backfill", "exif", "external", "category"}, {1}, {1, 2}, {}, 2, 0),
  Discussed, Tagged, Listed,
  Scenario(<<Clip(1, 2)>>, {"share", "unshare", "revoke", "like", "favorite", "danmaku", "delete", "newlist", "dellist"},
           {1, 2}, {1}, {}, 3, 1)
}
=============================================================================
