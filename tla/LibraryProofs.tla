---------------------------- MODULE LibraryProofs ----------------------------
(***************************************************************************)
(* What TLAPS proves of the video library, with everything that viewers    *)
(* attach to its videos, for every number of requests, videos and users,   *)
(* every quota and every start that LibraryAssumption allows.              *)
(*                                                                         *)
(* Three theorems: the storage charged to a user is what the videos of the *)
(* user take (StorageCorrect); nobody burns what they have not watched or  *)
(* do not own (BurnsCorrect); and the caches show nothing that is gone     *)
(* unless somebody has still to empty them, or the entry is late or was    *)
(* left by a dropped request (CachesCorrect).  All three start from Base:  *)
(* which operation may be at which step and what it has in its hands       *)
(* there, the types of the tables, and that ids are given once.            *)
(*                                                                         *)
(* Lemmas named R... show that an action keeps the requests in order, and  *)
(* those named S... that it keeps the tables and the numbering of videos.  *)
(***************************************************************************)
EXTENDS Community, FiniteSetTheorems, WellFoundedInduction, TLAPS

-----------------------------------------------------------------------------
\* The requests: what each of them holds at each step.

\* The operations, the steps, and what a request may hold.
Operations ==
  {"idle", "upload", "external", "scan", "delete", "deletemany", "edit", "category", "cover", "backfill",
   "exif", "sweep", "get", "list", "view", "burn", "playback", "start", "heartbeat", "stop",
   "like", "favorite", "comment", "uncomment", "danmaku", "newtag", "deltag", "tag", "untag",
   "newlist", "dellist", "additem", "removeitem", "reorder", "share", "unshare", "revoke"}
Steps ==
  {"idle", "hash", "external", "urls", "invalidate", "edit", "tmpcover", "covers", "noexif", "list",
   "detail", "cached", "view", "burnrow", "check", "start", "heartbeat", "stop", "refresh", "delrow",
   "getrow", "fill", "filllist", "rename", "save", "saved", "discard", "thumbnail", "ffmpeg", "coverurl",
   "scale", "thumburl", "nextcover", "placecover", "newcover", "readexif", "readdir", "adopt", "tx",
   "settle", "unlink", "finish", "exists", "nextmissing", "burnrecord", "progress", "variants", "atend",
   "upsert", "mark", "owns", "resolve", "comment", "uncomment", "findrow", "fly", "newtag", "findtag",
   "deltag", "findtags", "tag", "untag", "newlist", "ownlist", "dellist", "additem", "removeitem",
   "current", "reorder", "ownership", "share", "unshare"}
RequestSet ==
  [op : Operations, at : Steps, user : Users \cup {0}, video : Videos \cup {0}, ids : SUBSET Videos,
   rows : SUBSET Rows, todo : SUBSET Videos, file : FileSet, files : SUBSET FileSet, report : ReportSet,
   ends : BOOLEAN, charge : [Users -> Nat], held : SUBSET Videos, last : Nat, any : BOOLEAN,
   known : SUBSET FileSet, next : Steps, parent : Nat, tags : SUBSET Tags, list : Playlists \cup {0},
   order : Seq(Videos)]

\* Which operation is at which step, as far as a step depends on it.
Paths(q) ==
  /\ q.at \in {"hash", "rename", "save", "saved"} => q.op = "upload"
  /\ q.at = "discard" => q.op \in {"upload", "cover"}
  /\ q.at \in {"urls", "readdir", "adopt"} => q.op = "scan"
  /\ q.at \in {"invalidate", "delrow"} => q.op \in {"delete", "deletemany"}
  /\ q.at \in {"tx", "settle"} => q.op \in {"delete", "deletemany", "sweep", "burn", "playback"}
  /\ q.at = "unlink" => q.op \in {"delete", "deletemany", "burn", "playback"}
  /\ q.at \in {"list", "exists", "nextmissing"} => q.op = "sweep"
  /\ q.at \in {"thumbnail", "ffmpeg", "coverurl", "scale", "thumburl"} => q.op \in {"upload", "backfill"}
  /\ q.at \in {"covers", "nextcover"} => q.op = "backfill"
  /\ q.at \in {"noexif", "readexif"} => q.op = "exif"
  /\ q.at \in {"tmpcover", "placecover", "newcover"} => q.op = "cover"
  /\ q.at = "external" => q.op = "external"
  /\ q.at = "edit" => q.op \in {"edit", "category"}
  /\ q.at \in {"burnrow", "progress"} => q.op = "burn"
  /\ q.at \in {"burnrecord", "variants"} => q.op \in {"burn", "playback"}
  /\ q.at \in {"check", "atend", "upsert"} => q.op = "playback"
  /\ q.at = "refresh" => q.op \notin {"upload", "delete", "deletemany"}
  /\ q.at \in {"detail", "getrow", "fill"} => q.op = "get"
  /\ q.at \in {"cached", "filllist"} => q.op = "list"
  /\ q.at \in {"start", "heartbeat", "stop"} => q.op \in {"start", "heartbeat", "stop"}
  /\ q.at = "mark" => q.op \in {"like", "favorite"}
  /\ q.at \in {"resolve", "comment"} => q.op = "comment"
  /\ q.at = "uncomment" => q.op = "uncomment"
  /\ q.at \in {"findrow", "fly"} => q.op = "danmaku"
  /\ q.at = "newtag" => q.op = "newtag"
  /\ q.at \in {"findtag", "deltag"} => q.op = "deltag"
  /\ q.at \in {"findtags", "tag"} => q.op = "tag"
  /\ q.at = "untag" => q.op = "untag"
  /\ q.at = "owns" => \/ q.op = "comment" /\ q.next = "resolve"
                      \/ q.op = "tag" /\ q.next = "findtags"
                      \/ q.op = "untag" /\ q.next = "untag"
  /\ q.at = "newlist" => q.op = "newlist"
  /\ q.at \in {"ownlist", "dellist", "additem", "removeitem", "current", "reorder"} =>
       q.op \in {"dellist", "additem", "removeitem", "reorder"}
  /\ q.at = "additem" => q.op = "additem"
  /\ q.at \in {"ownership", "share"} => q.op = "share"
  /\ q.at = "unshare" => q.op \in {"unshare", "revoke"}

\* What a request holds at a step that uses it.
Fits(q) ==
  /\ q.op \in {"upload", "burn", "playback", "get", "view", "start", "heartbeat", "stop", "like", "favorite",
        "comment",
              "newlist", "share"} => q.user \in Users
  /\ q.op \in {"burn", "playback", "get", "view", "start", "heartbeat", "stop", "cover"} => q.video \in Videos
  /\ q.at \in {"hash", "rename", "save"} => q.file.kind = "media" /\ q.file.content \in Contents
  /\ q.at \in {"fill", "ffmpeg", "variants"} => q.rows # {}
  /\ q.op \in {"burn", "playback"} /\ q.at \in {"tx", "settle"} => q.rows # {}
  /\ q.at = "readexif" => q.todo # {}
  /\ q.op = "comment" => q.parent \in Comments \cup {0}
  /\ q.op = "uncomment" => q.parent \in Comments
  /\ q.op \in {"unshare", "revoke"} => q.parent \in Shares
  /\ q.op \in {"dellist", "additem", "removeitem", "reorder"} => q.list \in Playlists
  /\ q.at \in {"ownlist", "additem"} /\ q.op = "additem" => q.order # <<>>
  /\ IsFiniteSet(q.files)

RequestsOK == req \in [Requests -> RequestSet] /\ \A r \in Requests : Paths(req[r]) /\ Fits(req[r])

\* A request that is sent on in good order leaves all of them in order.
LEMMA GoOK ==
  ASSUME RequestsOK, NEW r \in Requests, NEW q \in RequestSet, Paths(q), Fits(q), Go(r, q)
  PROVE  RequestsOK' /\ req'[r] = q /\ \A s \in Others(r) : req'[s] = req[s]
BY DEF RequestsOK, Go, Others

SeqSet == [video : Nat \ {0}, file : Nat, comment : Nat, list : Nat, share : Nat]
SceneSet(s) ==
  [menu : {s.menu}, users : SUBSET Users, asked : {s.asked}, contents : SUBSET Contents, calls : Nat, upsets : Nat,
   left : SUBSET FileSet]
TaskSet == [video : Videos, file : FileSet, kind : {"exif", "duration"}]
\* The types of the tables and of the disk; ids below the next one are ids.
Store ==
  /\ videos \in [Videos -> Rows \cup {NoVideo}] /\ storage \in [Users -> Nat]
  /\ disk \subseteq FileSet /\ IsFiniteSet(disk) /\ taken \subseteq FileSet
  /\ seq \in SeqSet /\ Known \subseteq Videos
  /\ variants \subseteq Videos /\ progress \in [Users -> [Videos -> ReportSet]]
  /\ tasks \subseteq TaskSet /\ scene \in SceneSet(scene)
  /\ detail \in [Videos -> Rows \cup {NoVideo}]

LEMMA IdleOK == Idle \in RequestSet /\ Paths(Idle) /\ Fits(Idle)
<1>1. NoFile \in FileSet BY DEF NoFile, File, FileSet, None
<1>2. NoReport \in ReportSet BY DEF NoReport, ReportSet
<1>3. [u \in Users |-> 0] \in [Users -> Nat] OBVIOUS
<1>4. Idle \in RequestSet BY <1>1, <1>2, <1>3 DEF Idle, RequestSet, Operations, Steps
<1>5. Paths(Idle) BY DEF Idle, Paths
<1>6. Fits(Idle) BY FS_EmptySet DEF Idle, Fits
<1> QED BY <1>4, <1>5, <1>6

LEMMA DoneOK ==
  ASSUME RequestsOK, NEW r \in Requests, Done(r)
  PROVE  RequestsOK' /\ req'[r] = Idle /\ \A s \in Others(r) : req'[s] = req[s]
BY GoOK, IdleOK DEF Done

\* A request that moves on keeps what it holds.
LEMMA ToOK ==
  ASSUME RequestsOK, NEW r \in Requests, NEW s \in Steps
  PROVE  /\ To(r, s) \in RequestSet
         /\ To(r, s).at = s
         /\ To(r, s).op = req[r].op /\ To(r, s).user = req[r].user /\ To(r, s).video = req[r].video
         /\ To(r, s).ids = req[r].ids /\ To(r, s).rows = req[r].rows /\ To(r, s).todo = req[r].todo
         /\ To(r, s).file = req[r].file /\ To(r, s).files = req[r].files
         /\ To(r, s).any = req[r].any /\ To(r, s).next = req[r].next /\ To(r, s).parent = req[r].parent
         /\ To(r, s).list = req[r].list /\ To(r, s).tags = req[r].tags /\ To(r, s).report = req[r].report
         /\ To(r, s).order = req[r].order
<1>1. req[r] \in RequestSet BY DEF RequestsOK
<1> QED BY <1>1 DEF To, RequestSet

LEMMA RequestOK ==
  ASSUME RequestsOK, NEW r \in Requests
  PROVE  req[r] \in RequestSet /\ Paths(req[r]) /\ Fits(req[r])
BY DEF RequestsOK

LEMMA MoveOK ==
  ASSUME RequestsOK, NEW r \in Requests, NEW s \in Steps, Move(r, s), Paths(To(r, s)), Fits(To(r, s))
  PROVE  RequestsOK' /\ req'[r] = To(r, s) /\ \A t \in Others(r) : req'[t] = req[t]
BY GoOK, ToOK DEF Move

LEMMA CallOK ==
  ASSUME RequestsOK, NEW r \in Requests, NEW op \in Operations, NEW q \in RequestSet, Call(r, op, q),
         Paths([q EXCEPT !.op = op]), Fits([q EXCEPT !.op = op])
  PROVE  RequestsOK' /\ req'[r] = [q EXCEPT !.op = op] /\ \A t \in Others(r) : req'[t] = req[t]
<1>1. [q EXCEPT !.op = op] \in RequestSet BY DEF RequestSet
<1> QED BY <1>1, GoOK DEF Call

\* Min of a set of numbers is one of them.
LEMMA MinIn == ASSUME NEW S \in SUBSET Nat, S # {} PROVE Min(S) \in S
<1>1. PICK x \in S : \A y \in S : ~ (<<y, x>> \in OpToRel(<, Nat))
  BY WFMin, NatLessThanWellFounded, Zenon
<1>2. ASSUME NEW y \in S PROVE ~ (y < x) BY <1>1, Zenon DEF OpToRel
<1>3. \A y \in S : x =< y BY <1>2
<1> QED BY <1>3 DEF Min

\* The files of a row are finitely many.
LEMMA ThreeFinite == ASSUME NEW a, NEW b, NEW c, NEW d PROVE IsFiniteSet({a, b, c} \ {d})
<1>1. IsFiniteSet({a} \cup {b} \cup {c}) BY FS_Singleton, FS_Union
<1>2. {a, b, c} \ {d} \subseteq {a} \cup {b} \cup {c} OBVIOUS
<1> QED BY <1>1, <1>2, FS_Subset

\* What a function makes of a finite set is finite.
LEMMA ImageFinite ==
  ASSUME NEW S, IsFiniteSet(S), NEW F, F = [x \in S |-> F[x]]
  PROVE  IsFiniteSet({F[x] : x \in S})
<1>1. F \in Surjection(S, {F[x] : x \in S}) BY DEF Surjection
<1> QED BY <1>1, FS_Surjection

LEMMA VideosAre == Videos \subseteq Nat \ {0} /\ IsFiniteSet(Videos)
BY LibraryAssumption, FS_CardinalityType DEF IdAssumption

LEMMA NamesOK ==
  ASSUME NEW v \in Nat
  PROVE  CoverOf(v) \in FileSet /\ ThumbOf(v) \in FileSet /\ VariantOf(v) \in FileSet
BY DEF CoverOf, ThumbOf, VariantOf, File, FileSet, Kinds, None

LEMMA BytesOK == ASSUME NEW row \in Rows PROVE Bytes(row) \in Nat
BY LibraryAssumption DEF Bytes, Rows, FileSet, IdAssumption

\* The bytes of some videos are finitely many, so that they can be counted.
LEMMA BytesFinite ==
  ASSUME NEW table \in [Videos -> Rows \cup {NoVideo}], NEW V \in SUBSET Videos, NEW u
  PROVE  IsFiniteSet(BytesIn(table, V, u))
<1> DEFINE W == {w \in V : table[w] # NoVideo /\ table[w].owner = u}
           G == [v \in W |-> {v} \X (1..Bytes(table[v]))]
           F == {G[v] : v \in W}
<1>1. IsFiniteSet(W) BY FS_Subset, LibraryAssumption DEF IdAssumption
<1>2. \A v \in W : IsFiniteSet(G[v])
  <2> TAKE v \in W
  <2>1. Bytes(table[v]) \in Nat BY BytesOK
  <2>2. IsFiniteSet(1..Bytes(table[v])) BY <2>1, FS_Interval
  <2> QED BY <2>2, FS_Singleton, FS_Product
<1>3. IsFiniteSet(F)
  <2> HIDE DEF G, W
  <2>1. DOMAIN G = W /\ G = [v \in W |-> G[v]] BY DEF G
  <2> QED BY <1>1, <2>1, ImageFinite
<1>4. \A S \in F : IsFiniteSet(S) BY <1>2
<1>5. IsFiniteSet(UNION F)
  <2> HIDE DEF F
  <2> QED BY <1>3, <1>4, FS_UNION
<1>6. BytesIn(table, V, u) = UNION F
  <2>1. F = {{v} \X (1..Bytes(table[v])) : v \in W} OBVIOUS
  <2> HIDE DEF F
  <2> QED BY <2>1 DEF BytesIn
<1> QED BY <1>5, <1>6

LEMMA ChargeOK == ASSUME Store, NEW V \in SUBSET Videos PROVE Charge(V) \in [Users -> Nat]
<1>1. \A u \in Users : Cardinality(BytesIn(videos, V, u)) \in Nat BY BytesFinite, FS_CardinalityType DEF Store
<1> QED BY <1>1 DEF Charge

\* The steps of a request, one action after the other.
LEMMA RInvalidateFirst ==
  ASSUME RequestsOK, Store, NEW r \in Requests, InvalidateFirst(r)
  PROVE  RequestsOK'
<1>1. "delrow" \in Steps BY DEF Steps
<1>2. Paths(To(r, "delrow")) /\ Fits(To(r, "delrow"))
  BY <1>1, RequestOK, ToOK DEF InvalidateFirst, At, Paths, Fits
<1> QED BY <1>1, <1>2, GoOK, MoveOK, DoneOK DEF InvalidateFirst

LEMMA RDetailStep ==
  ASSUME RequestsOK, Store, NEW r \in Requests, DetailStep(r)
  PROVE  RequestsOK'
<1>1. "getrow" \in Steps BY DEF Steps
<1>2. Paths(To(r, "getrow")) /\ Fits(To(r, "getrow"))
  BY <1>1, RequestOK, ToOK DEF DetailStep, At, Paths, Fits
<1> QED BY <1>1, <1>2, GoOK, MoveOK, DoneOK DEF DetailStep

LEMMA RHashStep ==
  ASSUME RequestsOK, Store, NEW r \in Requests, HashStep(r)
  PROVE  RequestsOK'
<1>1. "rename" \in Steps BY DEF Steps
<1>2. Paths(To(r, "rename")) /\ Fits(To(r, "rename"))
  BY <1>1, RequestOK, ToOK DEF HashStep, At, Paths, Fits
<1> QED BY <1>1, <1>2, GoOK, MoveOK, DoneOK DEF HashStep

LEMMA RSaved ==
  ASSUME RequestsOK, Store, NEW r \in Requests, Saved(r)
  PROVE  RequestsOK'
<1>1. "thumbnail" \in Steps BY DEF Steps
<1>2. Paths(To(r, "thumbnail")) /\ Fits(To(r, "thumbnail"))
  BY <1>1, RequestOK, ToOK DEF Saved, At, Paths, Fits
<1> QED BY <1>1, <1>2, GoOK, MoveOK, DoneOK DEF Saved

LEMMA RExternalStep ==
  ASSUME RequestsOK, Store, NEW r \in Requests, ExternalStep(r)
  PROVE  RequestsOK'
<1>1. "refresh" \in Steps BY DEF Steps
<1>2. Paths(To(r, "refresh")) /\ Fits(To(r, "refresh"))
  BY <1>1, RequestOK, ToOK DEF ExternalStep, At, Paths, Fits
<1> QED BY <1>1, <1>2, GoOK, MoveOK, DoneOK DEF ExternalStep

LEMMA RCoverUrl ==
  ASSUME RequestsOK, Store, NEW r \in Requests, CoverUrl(r)
  PROVE  RequestsOK'
<1>1. "scale" \in Steps BY DEF Steps
<1>2. Paths(To(r, "scale")) /\ Fits(To(r, "scale"))
  BY <1>1, RequestOK, ToOK DEF CoverUrl, At, Paths, Fits
<1> QED BY <1>1, <1>2, GoOK, MoveOK, DoneOK DEF CoverUrl

LEMMA RNewCover ==
  ASSUME RequestsOK, Store, NEW r \in Requests, NewCover(r)
  PROVE  RequestsOK'
<1>1. CASE Move(r, "refresh")
  <2>1. "refresh" \in Steps BY DEF Steps
  <2>2. Paths(To(r, "refresh")) /\ Fits(To(r, "refresh"))
    BY <2>1, RequestOK, ToOK DEF NewCover, At, Paths, Fits
  <2> QED BY <1>1, <2>1, <2>2, MoveOK
<1> DEFINE files == {req[r].file}
            t0 == "discard"
            q0 == [To(r, t0) EXCEPT !.files = files]
<1>2. CASE Go(r, q0)
  <2>0. files \subseteq FileSet /\ IsFiniteSet(files) BY RequestOK, FS_Singleton DEF RequestSet
  <2>1. t0 \in Steps BY DEF Steps
  <2>2. To(r, t0) \in RequestSet BY <2>1, ToOK
  <2>3. q0 \in RequestSet
    BY <2>2, RequestOK, <2>0 DEF RequestSet
  <2>4. /\ q0.at = t0 /\ q0.op = req[r].op /\ q0.user = req[r].user /\ q0.video = req[r].video
        /\ q0.ids = req[r].ids
        /\ q0.rows = req[r].rows /\ q0.todo = req[r].todo /\ q0.file = req[r].file /\ q0.files = files
        /\ q0.any = req[r].any
    BY <2>1, <2>2, ToOK DEF RequestSet
  <2> HIDE DEF q0
  <2>5. Paths(q0) /\ Fits(q0)
    BY <2>1, <2>4, RequestOK, <2>0 DEF NewCover, At, Paths, Fits
  <2> QED BY <1>2, <2>3, <2>5, GoOK
<1> QED BY <1>1, <1>2 DEF NewCover

LEMMA RProgressStep ==
  ASSUME RequestsOK, Store, NEW r \in Requests, ProgressStep(r)
  PROVE  RequestsOK'
<1>1. "burnrecord" \in Steps BY DEF Steps
<1>2. Paths(To(r, "burnrecord")) /\ Fits(To(r, "burnrecord"))
  BY <1>1, RequestOK, ToOK DEF ProgressStep, At, Paths, Fits
<1> QED BY <1>1, <1>2, GoOK, MoveOK, DoneOK DEF ProgressStep

LEMMA RCheckReport ==
  ASSUME RequestsOK, Store, NEW r \in Requests, CheckReport(r)
  PROVE  RequestsOK'
<1>1. "atend" \in Steps BY DEF Steps
<1>2. Paths(To(r, "atend")) /\ Fits(To(r, "atend"))
  BY <1>1, RequestOK, ToOK DEF CheckReport, At, Paths, Fits
<1> QED BY <1>1, <1>2, GoOK, MoveOK, DoneOK DEF CheckReport

LEMMA RDiscard ==
  ASSUME RequestsOK, Store, NEW r \in Requests, Discard(r)
  PROVE  RequestsOK'
<1> QED BY GoOK, MoveOK, DoneOK DEF Discard

LEMMA RDrop ==
  ASSUME RequestsOK, Store, NEW r \in Requests, Drop(r)
  PROVE  RequestsOK'
<1>1. CASE Done(r) BY <1>1, DoneOK
<1>2. CASE At(r, "saved") /\ Move(r, "thumbnail")
  <2>1. "thumbnail" \in Steps BY DEF Steps
  <2>2. Paths(To(r, "thumbnail")) /\ Fits(To(r, "thumbnail"))
    BY <1>2, <2>1, RequestOK, ToOK DEF At, Paths, Fits
  <2> QED BY <1>2, <2>1, <2>2, MoveOK
<1> QED BY <1>1, <1>2 DEF Drop

LEMMA RViewStep ==
  ASSUME RequestsOK, Store, NEW r \in Requests, ViewStep(r)
  PROVE  RequestsOK'
<1> QED BY GoOK, MoveOK, DoneOK DEF ViewStep

LEMMA RFill ==
  ASSUME RequestsOK, Store, NEW r \in Requests, Fill(r)
  PROVE  RequestsOK'
<1> QED BY GoOK, MoveOK, DoneOK DEF Fill

LEMMA RFillList ==
  ASSUME RequestsOK, Store, NEW r \in Requests, FillList(r)
  PROVE  RequestsOK'
<1> QED BY GoOK, MoveOK, DoneOK DEF FillList

LEMMA RSessionStep ==
  ASSUME RequestsOK, Store, NEW r \in Requests, SessionStep(r)
  PROVE  RequestsOK'
<1> QED BY GoOK, MoveOK, DoneOK DEF SessionStep

LEMMA RRefresh ==
  ASSUME RequestsOK, Store, NEW r \in Requests, Refresh(r)
  PROVE  RequestsOK'
<1> QED BY GoOK, MoveOK, DoneOK DEF Refresh

LEMMA RFinish ==
  ASSUME RequestsOK, Store, NEW r \in Requests, Finish(r)
  PROVE  RequestsOK'
<1> QED BY GoOK, MoveOK, DoneOK DEF Finish

LEMMA RBurnRow ==
  ASSUME RequestsOK, Store, NEW r \in Requests, BurnRow(r)
  PROVE  RequestsOK'
<1>1. "burnrecord" \in Steps BY DEF Steps
<1>2. Paths(To(r, "burnrecord")) /\ Fits(To(r, "burnrecord"))
  BY <1>1, RequestOK, ToOK DEF BurnRow, At, Paths, Fits
<1>3. "progress" \in Steps BY DEF Steps
<1>4. Paths(To(r, "progress")) /\ Fits(To(r, "progress"))
  BY <1>3, RequestOK, ToOK DEF BurnRow, At, Paths, Fits
<1> QED BY <1>1, <1>2, <1>3, <1>4, GoOK, MoveOK, DoneOK DEF BurnRow

LEMMA REditStep ==
  ASSUME RequestsOK, Store, NEW r \in Requests, EditStep(r)
  PROVE  RequestsOK'
<1> DEFINE t0 == "refresh"
            q0 == [To(r, t0) EXCEPT !.any = TRUE]
<1>1. t0 \in Steps BY DEF Steps
<1>2. To(r, t0) \in RequestSet BY <1>1, ToOK
<1>3. q0 \in RequestSet
  BY <1>2, RequestOK DEF RequestSet
<1>4. /\ q0.at = t0 /\ q0.op = req[r].op /\ q0.user = req[r].user /\ q0.video = req[r].video
      /\ q0.ids = req[r].ids
      /\ q0.rows = req[r].rows /\ q0.todo = req[r].todo /\ q0.file = req[r].file /\ q0.files = req[r].files
      /\ q0.any = TRUE
  BY <1>1, <1>2, ToOK DEF RequestSet
<1> HIDE DEF q0
<1>5. Paths(q0) /\ Fits(q0)
  BY <1>1, <1>4, RequestOK DEF EditStep, At, Paths, Fits
<1> USE DEF q0
<1> QED BY <1>1, <1>3, <1>5, GoOK, MoveOK, DoneOK DEF EditStep

LEMMA RUnlink ==
  ASSUME RequestsOK, Store, NEW r \in Requests, Unlink(r)
  PROVE  RequestsOK'
<1> DEFINE s0 == IF req[r].op \in {"delete", "deletemany"} THEN "finish" ELSE "refresh"
<1>1. s0 \in Steps BY DEF Steps
<1>2. Paths(To(r, s0)) /\ Fits(To(r, s0))
  <2>1. CASE req[r].op \in {"delete", "deletemany"}
    <3>1. s0 = "finish" BY <2>1
    <3> HIDE DEF s0
    <3> QED BY <2>1, <3>1, <1>1, RequestOK, ToOK DEF Unlink, At, Paths, Fits
  <2>2. CASE req[r].op \notin {"delete", "deletemany"}
    <3>1. s0 = "refresh" BY <2>2
    <3> HIDE DEF s0
    <3> QED BY <2>2, <3>1, <1>1, RequestOK, ToOK DEF Unlink, At, Paths, Fits
  <2> QED BY <2>1, <2>2
<1> QED BY <1>1, <1>2, GoOK, MoveOK, DoneOK DEF Unlink

LEMMA RThumbUrl ==
  ASSUME RequestsOK, Store, NEW r \in Requests, ThumbUrl(r)
  PROVE  RequestsOK'
<1>1. "nextcover" \in Steps BY DEF Steps
<1>2. req[r].op = "backfill" => Paths(To(r, "nextcover")) /\ Fits(To(r, "nextcover"))
  BY <1>1, RequestOK, ToOK DEF ThumbUrl, At, Paths, Fits, AfterThumbnail
<1> QED BY <1>1, <1>2, GoOK, MoveOK, DoneOK DEF ThumbUrl, AfterThumbnail

LEMMA RGetRow ==
  ASSUME RequestsOK, Store, NEW r \in Requests, GetRow(r)
  PROVE  RequestsOK'
<1> DEFINE rows == {row \in FindById(req[r].video) : OwnerOrAdmin(req[r].user, row)}
<1>0. rows \subseteq Rows BY DEF FindById, Existing, Store
<1> DEFINE t0 == "fill"
            q0 == [To(r, t0) EXCEPT !.rows = rows]
<1>1. t0 \in Steps BY DEF Steps
<1>2. To(r, t0) \in RequestSet BY <1>1, ToOK
<1>3. rows # {} => q0 \in RequestSet
  BY <1>2, RequestOK, <1>0 DEF RequestSet
<1>4. /\ q0.at = t0 /\ q0.op = req[r].op /\ q0.user = req[r].user /\ q0.video = req[r].video
      /\ q0.ids = req[r].ids
      /\ q0.rows = rows /\ q0.todo = req[r].todo /\ q0.file = req[r].file /\ q0.files = req[r].files
      /\ q0.any = req[r].any
  BY <1>1, <1>2, ToOK DEF RequestSet
<1> HIDE DEF q0
<1>5. rows # {} => Paths(q0) /\ Fits(q0)
  BY <1>1, <1>4, RequestOK, <1>0 DEF GetRow, At, Paths, Fits
<1> USE DEF q0
<1> QED BY <1>1, <1>3, <1>5, GoOK, MoveOK, DoneOK, <1>0 DEF GetRow

LEMMA RListStep ==
  ASSUME RequestsOK, Store, NEW r \in Requests, ListStep(r)
  PROVE  RequestsOK'
<1> DEFINE ids == FindAllPaged(req[r].user)
<1>0. ids \subseteq Videos BY DEF FindAllPaged, Existing
<1> DEFINE t0 == "filllist"
            q0 == [To(r, t0) EXCEPT !.ids = ids]
<1>1. t0 \in Steps BY DEF Steps
<1>2. To(r, t0) \in RequestSet BY <1>1, ToOK
<1>3. q0 \in RequestSet
  BY <1>2, RequestOK, <1>0 DEF RequestSet
<1>4. /\ q0.at = t0 /\ q0.op = req[r].op /\ q0.user = req[r].user /\ q0.video = req[r].video /\ q0.ids = ids
      /\ q0.rows = req[r].rows /\ q0.todo = req[r].todo /\ q0.file = req[r].file /\ q0.files = req[r].files
      /\ q0.any = req[r].any
  BY <1>1, <1>2, ToOK DEF RequestSet
<1> HIDE DEF q0
<1>5. Paths(q0) /\ Fits(q0)
  BY <1>1, <1>4, RequestOK, <1>0 DEF ListStep, At, Paths, Fits
<1> USE DEF q0
<1> QED BY <1>1, <1>3, <1>5, GoOK, MoveOK, DoneOK, <1>0 DEF ListStep

LEMMA RRenameStep ==
  ASSUME RequestsOK, Store, NEW r \in Requests, RenameStep(r)
  PROVE  RequestsOK'
<1> DEFINE file == DestName(req[r].file.content)
<1>0. file \in FileSet /\ file.kind = "media" /\ file.content \in Contents
  BY RequestOK DEF RenameStep, DestName, File, FileSet, Kinds, Store, SeqSet, RequestSet, Fits, At
<1> DEFINE t0 == "save"
            q0 == [To(r, t0) EXCEPT !.file = file]
<1>1. t0 \in Steps BY DEF Steps
<1>2. To(r, t0) \in RequestSet BY <1>1, ToOK
<1>3. q0 \in RequestSet
  BY <1>2, RequestOK, <1>0 DEF RequestSet
<1>4. /\ q0.at = t0 /\ q0.op = req[r].op /\ q0.user = req[r].user /\ q0.video = req[r].video
      /\ q0.ids = req[r].ids
      /\ q0.rows = req[r].rows /\ q0.todo = req[r].todo /\ q0.file = file /\ q0.files = req[r].files
      /\ q0.any = req[r].any
  BY <1>1, <1>2, ToOK DEF RequestSet
<1> HIDE DEF q0
<1>5. Paths(q0) /\ Fits(q0)
  BY <1>1, <1>4, RequestOK, <1>0 DEF RenameStep, At, Paths, Fits
<1> USE DEF q0
<1> QED BY <1>1, <1>3, <1>5, GoOK, MoveOK, DoneOK, <1>0 DEF RenameStep

LEMMA RSaveStep ==
  ASSUME RequestsOK, Store, NEW r \in Requests, SaveStep(r)
  PROVE  RequestsOK'
<1> DEFINE v == seq.video
           files == {req[r].file}
<1>a. Outcome(req[r].user, req[r].file) = "ok" => v \in Videos
  BY DEF SaveStep, SaveLocalVideoWithQuota, RoomFor, Store, SeqSet
<1>b. files \subseteq FileSet /\ IsFiniteSet(files) BY RequestOK, FS_Singleton DEF RequestSet
<1> DEFINE t0 == "saved"
            q0 == [To(r, t0) EXCEPT !.video = v]
<1>1. t0 \in Steps BY DEF Steps
<1>2. To(r, t0) \in RequestSet BY <1>1, ToOK
<1>3. v \in Videos => q0 \in RequestSet
  BY <1>2, RequestOK, <1>a, <1>b DEF RequestSet
<1>4. /\ q0.at = t0 /\ q0.op = req[r].op /\ q0.user = req[r].user /\ q0.video = v /\ q0.ids = req[r].ids
      /\ q0.rows = req[r].rows /\ q0.todo = req[r].todo /\ q0.file = req[r].file /\ q0.files = req[r].files
      /\ q0.any = req[r].any
  BY <1>1, <1>2, ToOK DEF RequestSet
<1> HIDE DEF q0
<1>5. v \in Videos => Paths(q0) /\ Fits(q0)
  BY <1>1, <1>4, RequestOK, <1>a, <1>b DEF SaveStep, At, Paths, Fits
<1> DEFINE t1 == "discard"
            q1 == [To(r, t1) EXCEPT !.files = files]
<1>6. t1 \in Steps BY DEF Steps
<1>7. To(r, t1) \in RequestSet BY <1>6, ToOK
<1>8. q1 \in RequestSet
  BY <1>7, RequestOK, <1>a, <1>b DEF RequestSet
<1>9. /\ q1.at = t1 /\ q1.op = req[r].op /\ q1.user = req[r].user /\ q1.video = req[r].video
      /\ q1.ids = req[r].ids
      /\ q1.rows = req[r].rows /\ q1.todo = req[r].todo /\ q1.file = req[r].file /\ q1.files = files
      /\ q1.any = req[r].any
  BY <1>6, <1>7, ToOK DEF RequestSet
<1> HIDE DEF q1
<1>10. Paths(q1) /\ Fits(q1)
  BY <1>6, <1>9, RequestOK, <1>a, <1>b DEF SaveStep, At, Paths, Fits
<1> USE DEF q0
<1> USE DEF q1
<1> QED BY <1>1, <1>3, <1>5, <1>6, <1>8, <1>10, GoOK, MoveOK, DoneOK, <1>a, <1>b DEF SaveStep

LEMMA RSaveFails ==
  ASSUME RequestsOK, Store, NEW r \in Requests, SaveFails(r)
  PROVE  RequestsOK'
<1> DEFINE files == {req[r].file}
<1>0. files \subseteq FileSet /\ IsFiniteSet(files) BY RequestOK, FS_Singleton DEF RequestSet
<1> DEFINE t0 == "discard"
            q0 == [To(r, t0) EXCEPT !.files = files]
<1>1. t0 \in Steps BY DEF Steps
<1>2. To(r, t0) \in RequestSet BY <1>1, ToOK
<1>3. q0 \in RequestSet
  BY <1>2, RequestOK, <1>0 DEF RequestSet
<1>4. /\ q0.at = t0 /\ q0.op = req[r].op /\ q0.user = req[r].user /\ q0.video = req[r].video
      /\ q0.ids = req[r].ids
      /\ q0.rows = req[r].rows /\ q0.todo = req[r].todo /\ q0.file = req[r].file /\ q0.files = files
      /\ q0.any = req[r].any
  BY <1>1, <1>2, ToOK DEF RequestSet
<1> HIDE DEF q0
<1>5. Paths(q0) /\ Fits(q0)
  BY <1>1, <1>4, RequestOK, <1>0 DEF SaveFails, At, Paths, Fits
<1> USE DEF q0
<1> QED BY <1>1, <1>3, <1>5, GoOK, MoveOK, DoneOK, <1>0 DEF SaveFails

LEMMA RThumbnailStep ==
  ASSUME RequestsOK, Store, NEW r \in Requests, ThumbnailStep(r)
  PROVE  RequestsOK'
<1> DEFINE rows == {row \in FindById(req[r].video) : IsLocal(row)}
<1>0. rows \subseteq Rows BY DEF FindById, Existing, Store
<1>1. "nextcover" \in Steps BY DEF Steps
<1>2. req[r].op = "backfill" => Paths(To(r, "nextcover")) /\ Fits(To(r, "nextcover"))
  BY <1>1, RequestOK, ToOK, <1>0 DEF ThumbnailStep, At, Paths, Fits, AfterThumbnail
<1> DEFINE t0 == "ffmpeg"
            q0 == [To(r, t0) EXCEPT !.rows = rows]
<1>3. t0 \in Steps BY DEF Steps
<1>4. To(r, t0) \in RequestSet BY <1>3, ToOK
<1>5. rows # {} => q0 \in RequestSet
  BY <1>4, RequestOK, <1>0 DEF RequestSet
<1>6. /\ q0.at = t0 /\ q0.op = req[r].op /\ q0.user = req[r].user /\ q0.video = req[r].video
      /\ q0.ids = req[r].ids
      /\ q0.rows = rows /\ q0.todo = req[r].todo /\ q0.file = req[r].file /\ q0.files = req[r].files
      /\ q0.any = req[r].any
  BY <1>3, <1>4, ToOK DEF RequestSet
<1> HIDE DEF q0
<1>7. rows # {} => Paths(q0) /\ Fits(q0)
  BY <1>3, <1>6, RequestOK, <1>0 DEF ThumbnailStep, At, Paths, Fits, AfterThumbnail
<1> USE DEF q0
<1> QED BY <1>1, <1>2, <1>3, <1>5, <1>7, GoOK, MoveOK, DoneOK, <1>0 DEF ThumbnailStep, AfterThumbnail

LEMMA RFfmpegStep ==
  ASSUME RequestsOK, Store, NEW r \in Requests, FfmpegStep(r)
  PROVE  RequestsOK'
<1> DEFINE file == IF IsImageSource(Row(r)) THEN ThumbOf(Row(r).id) ELSE CoverOf(Row(r).id)
<1>8. Row(r) \in Rows
  <2>1. req[r].rows # {} /\ req[r].rows \subseteq Rows BY RequestOK DEF FfmpegStep, At, Fits, RequestSet
  <2> QED BY <2>1 DEF Row
<1>0. file \in FileSet BY <1>8, VideosAre, NamesOK DEF Rows
<1> HIDE DEF file
<1>1. "nextcover" \in Steps BY DEF Steps
<1>2. req[r].op = "backfill" => Paths(To(r, "nextcover")) /\ Fits(To(r, "nextcover"))
  BY <1>1, RequestOK, ToOK, <1>0 DEF FfmpegStep, At, Paths, Fits, AfterThumbnail
<1> DEFINE t0 == IF IsImageSource(Row(r)) THEN "thumburl" ELSE "coverurl"
            q0 == [To(r, t0) EXCEPT !.file = file]
<1>3. t0 \in Steps BY DEF Steps
<1> HIDE DEF t0
<1>4. To(r, t0) \in RequestSet BY <1>3, ToOK
<1>5. q0 \in RequestSet
  BY <1>4, RequestOK, <1>0 DEF RequestSet
<1>6. /\ q0.at = t0 /\ q0.op = req[r].op /\ q0.user = req[r].user /\ q0.video = req[r].video
      /\ q0.ids = req[r].ids
      /\ q0.rows = req[r].rows /\ q0.todo = req[r].todo /\ q0.file = file /\ q0.files = req[r].files
      /\ q0.any = req[r].any
  BY <1>3, <1>4, ToOK DEF RequestSet
<1> HIDE DEF q0
<1> USE DEF t0
<1>7. Paths(q0) /\ Fits(q0)
  BY <1>3, <1>6, RequestOK, <1>0 DEF FfmpegStep, At, Paths, Fits, AfterThumbnail
<1> USE DEF q0, t0
<1> USE DEF file
<1> QED BY <1>1, <1>2, <1>3, <1>5, <1>7, GoOK, MoveOK, DoneOK, <1>0 DEF FfmpegStep, AfterThumbnail

LEMMA RScaleCover ==
  ASSUME RequestsOK, Store, NEW r \in Requests, ScaleCover(r)
  PROVE  RequestsOK'
<1> DEFINE file == ThumbOf(req[r].video)
<1>0. file \in FileSet BY RequestOK, VideosAre, NamesOK DEF RequestSet
<1>1. "nextcover" \in Steps BY DEF Steps
<1>2. req[r].op = "backfill" => Paths(To(r, "nextcover")) /\ Fits(To(r, "nextcover"))
  BY <1>1, RequestOK, ToOK, <1>0 DEF ScaleCover, At, Paths, Fits, AfterThumbnail
<1> DEFINE t0 == "thumburl"
            q0 == [To(r, t0) EXCEPT !.file = file]
<1>3. t0 \in Steps BY DEF Steps
<1>4. To(r, t0) \in RequestSet BY <1>3, ToOK
<1>5. q0 \in RequestSet
  BY <1>4, RequestOK, <1>0 DEF RequestSet
<1>6. /\ q0.at = t0 /\ q0.op = req[r].op /\ q0.user = req[r].user /\ q0.video = req[r].video
      /\ q0.ids = req[r].ids
      /\ q0.rows = req[r].rows /\ q0.todo = req[r].todo /\ q0.file = file /\ q0.files = req[r].files
      /\ q0.any = req[r].any
  BY <1>3, <1>4, ToOK DEF RequestSet
<1> HIDE DEF q0
<1>7. Paths(q0) /\ Fits(q0)
  BY <1>3, <1>6, RequestOK, <1>0 DEF ScaleCover, At, Paths, Fits, AfterThumbnail
<1> USE DEF q0
<1> QED BY <1>1, <1>2, <1>3, <1>5, <1>7, GoOK, MoveOK, DoneOK, <1>0 DEF ScaleCover, AfterThumbnail

LEMMA RCoversStep ==
  ASSUME RequestsOK, Store, NEW r \in Requests, CoversStep(r)
  PROVE  RequestsOK'
<1> DEFINE todo == FindVideosWithoutCover(req[r].last)
<1>0. todo \subseteq Videos BY DEF FindVideosWithoutCover, Existing
<1>1. "refresh" \in Steps BY DEF Steps
<1>2. Paths(To(r, "refresh")) /\ Fits(To(r, "refresh"))
  BY <1>1, RequestOK, ToOK, <1>0 DEF CoversStep, At, Paths, Fits
<1> DEFINE t0 == "nextcover"
            q0 == [To(r, t0) EXCEPT !.todo = todo]
<1>3. t0 \in Steps BY DEF Steps
<1>4. To(r, t0) \in RequestSet BY <1>3, ToOK
<1>5. q0 \in RequestSet
  BY <1>4, RequestOK, <1>0 DEF RequestSet
<1>6. /\ q0.at = t0 /\ q0.op = req[r].op /\ q0.user = req[r].user /\ q0.video = req[r].video
      /\ q0.ids = req[r].ids
      /\ q0.rows = req[r].rows /\ q0.todo = todo /\ q0.file = req[r].file /\ q0.files = req[r].files
      /\ q0.any = req[r].any
  BY <1>3, <1>4, ToOK DEF RequestSet
<1> HIDE DEF q0
<1>7. Paths(q0) /\ Fits(q0)
  BY <1>3, <1>6, RequestOK, <1>0 DEF CoversStep, At, Paths, Fits
<1> USE DEF q0
<1> QED BY <1>1, <1>2, <1>3, <1>5, <1>7, GoOK, MoveOK, DoneOK, <1>0 DEF CoversStep

LEMMA RNextCover ==
  ASSUME RequestsOK, Store, NEW r \in Requests, NextCover(r)
  PROVE  RequestsOK'
<1> DEFINE v == Min(req[r].todo)
           todo == req[r].todo \ {v}
<1>a. req[r].todo \subseteq Videos BY RequestOK DEF RequestSet
<1>0. req[r].todo # {} => v \in Videos /\ v \in Nat BY <1>a, MinIn, VideosAre
<1>b. todo \subseteq Videos BY RequestOK DEF RequestSet
<1> HIDE DEF v
<1>1. "covers" \in Steps BY DEF Steps
<1>2. Paths(To(r, "covers")) /\ Fits(To(r, "covers"))
  BY <1>1, RequestOK, ToOK, <1>0, <1>b DEF NextCover, At, Paths, Fits
<1> DEFINE t0 == "thumbnail"
            q0 == [To(r, t0) EXCEPT !.video = v, !.last = v, !.todo = todo]
<1>3. t0 \in Steps BY DEF Steps
<1>4. To(r, t0) \in RequestSet BY <1>3, ToOK
<1>5. v \in Videos /\ v \in Nat => q0 \in RequestSet
  BY <1>4, RequestOK, <1>0, <1>b DEF RequestSet
<1>6. /\ q0.at = t0 /\ q0.op = req[r].op /\ q0.user = req[r].user /\ q0.video = v /\ q0.ids = req[r].ids
      /\ q0.rows = req[r].rows /\ q0.todo = todo /\ q0.file = req[r].file /\ q0.files = req[r].files
      /\ q0.any = req[r].any
  BY <1>3, <1>4, ToOK DEF RequestSet
<1> HIDE DEF q0
<1>7. v \in Videos /\ v \in Nat => Paths(q0) /\ Fits(q0)
  BY <1>3, <1>6, RequestOK, <1>0, <1>b DEF NextCover, At, Paths, Fits
<1> USE DEF q0
<1> USE DEF v
<1> QED BY <1>1, <1>2, <1>3, <1>5, <1>7, GoOK, MoveOK, DoneOK, <1>0, <1>b DEF NextCover

LEMMA RTmpCover ==
  ASSUME RequestsOK, Store, NEW r \in Requests, TmpCover(r)
  PROVE  RequestsOK'
<1> DEFINE file == File("tmpcover", seq.file, None)
<1>0. file \in FileSet BY DEF File, FileSet, Kinds, Store, SeqSet, None
<1> DEFINE t0 == "placecover"
            q0 == [To(r, t0) EXCEPT !.file = file]
<1>1. t0 \in Steps BY DEF Steps
<1>2. To(r, t0) \in RequestSet BY <1>1, ToOK
<1>3. q0 \in RequestSet
  BY <1>2, RequestOK, <1>0 DEF RequestSet
<1>4. /\ q0.at = t0 /\ q0.op = req[r].op /\ q0.user = req[r].user /\ q0.video = req[r].video
      /\ q0.ids = req[r].ids
      /\ q0.rows = req[r].rows /\ q0.todo = req[r].todo /\ q0.file = file /\ q0.files = req[r].files
      /\ q0.any = req[r].any
  BY <1>1, <1>2, ToOK DEF RequestSet
<1> HIDE DEF q0
<1>5. Paths(q0) /\ Fits(q0)
  BY <1>1, <1>4, RequestOK, <1>0 DEF TmpCover, At, Paths, Fits
<1> USE DEF q0
<1> QED BY <1>1, <1>3, <1>5, GoOK, MoveOK, DoneOK, <1>0 DEF TmpCover

LEMMA RPlaceCover ==
  ASSUME RequestsOK, Store, NEW r \in Requests, PlaceCover(r)
  PROVE  RequestsOK'
<1> DEFINE file == File("newcover", req[r].file.n, None)
<1>0. file \in FileSet BY RequestOK DEF RequestSet, File, FileSet, Kinds, Store, SeqSet, None
<1> DEFINE t0 == "newcover"
            q0 == [To(r, t0) EXCEPT !.file = file]
<1>1. t0 \in Steps BY DEF Steps
<1>2. To(r, t0) \in RequestSet BY <1>1, ToOK
<1>3. q0 \in RequestSet
  BY <1>2, RequestOK, <1>0 DEF RequestSet
<1>4. /\ q0.at = t0 /\ q0.op = req[r].op /\ q0.user = req[r].user /\ q0.video = req[r].video
      /\ q0.ids = req[r].ids
      /\ q0.rows = req[r].rows /\ q0.todo = req[r].todo /\ q0.file = file /\ q0.files = req[r].files
      /\ q0.any = req[r].any
  BY <1>1, <1>2, ToOK DEF RequestSet
<1> HIDE DEF q0
<1>5. Paths(q0) /\ Fits(q0)
  BY <1>1, <1>4, RequestOK, <1>0 DEF PlaceCover, At, Paths, Fits
<1> USE DEF q0
<1> QED BY <1>1, <1>3, <1>5, GoOK, MoveOK, DoneOK, <1>0 DEF PlaceCover

LEMMA RNoExifStep ==
  ASSUME RequestsOK, Store, NEW r \in Requests, NoExifStep(r)
  PROVE  RequestsOK'
<1> DEFINE todo == FindImagesWithoutExif \ req[r].ids
<1>0. todo \subseteq Videos BY DEF FindImagesWithoutExif, Existing
<1>1. "refresh" \in Steps BY DEF Steps
<1>2. Paths(To(r, "refresh")) /\ Fits(To(r, "refresh"))
  BY <1>1, RequestOK, ToOK, <1>0 DEF NoExifStep, At, Paths, Fits
<1> DEFINE t0 == "readexif"
            q0 == [To(r, t0) EXCEPT !.todo = todo]
<1>3. t0 \in Steps BY DEF Steps
<1>4. To(r, t0) \in RequestSet BY <1>3, ToOK
<1>5. todo # {} => q0 \in RequestSet
  BY <1>4, RequestOK, <1>0 DEF RequestSet
<1>6. /\ q0.at = t0 /\ q0.op = req[r].op /\ q0.user = req[r].user /\ q0.video = req[r].video
      /\ q0.ids = req[r].ids
      /\ q0.rows = req[r].rows /\ q0.todo = todo /\ q0.file = req[r].file /\ q0.files = req[r].files
      /\ q0.any = req[r].any
  BY <1>3, <1>4, ToOK DEF RequestSet
<1> HIDE DEF q0
<1>7. todo # {} => Paths(q0) /\ Fits(q0)
  BY <1>3, <1>6, RequestOK, <1>0 DEF NoExifStep, At, Paths, Fits
<1> USE DEF q0
<1> QED BY <1>1, <1>2, <1>3, <1>5, <1>7, GoOK, MoveOK, DoneOK, <1>0 DEF NoExifStep

LEMMA RReadExif ==
  ASSUME RequestsOK, Store, NEW r \in Requests, ReadExif(r)
  PROVE  RequestsOK'
<1> DEFINE v == Min(req[r].todo)
           rest == req[r].todo \ {v}
           ids == req[r].ids \cup {v}
<1>7. req[r].todo \subseteq Videos /\ req[r].todo # {} BY RequestOK DEF RequestSet, ReadExif, At, Fits
<1>8. v \in Videos BY <1>7, MinIn, VideosAre
<1> HIDE DEF v
<1>0. rest \subseteq Videos /\ ids \subseteq Videos BY <1>8, RequestOK DEF RequestSet
<1> DEFINE t0 == IF rest = {} THEN "noexif" ELSE "readexif"
            q0 == [To(r, t0) EXCEPT !.todo = rest, !.ids = ids]
<1>1. t0 \in Steps BY DEF Steps
<1> HIDE DEF t0
<1>2. To(r, t0) \in RequestSet BY <1>1, ToOK
<1>3. q0 \in RequestSet
  BY <1>2, RequestOK, <1>0 DEF RequestSet
<1>4. /\ q0.at = t0 /\ q0.op = req[r].op /\ q0.user = req[r].user /\ q0.video = req[r].video /\ q0.ids = ids
      /\ q0.rows = req[r].rows /\ q0.todo = rest /\ q0.file = req[r].file /\ q0.files = req[r].files
      /\ q0.any = req[r].any
  BY <1>1, <1>2, ToOK DEF RequestSet
<1> HIDE DEF q0
<1> USE DEF t0
<1>5. Paths(q0) /\ Fits(q0)
  BY <1>1, <1>4, RequestOK, <1>0 DEF ReadExif, At, Paths, Fits
<1> USE DEF q0, t0
<1> USE DEF v
<1> QED BY <1>1, <1>3, <1>5, GoOK, MoveOK, DoneOK, <1>0 DEF ReadExif

LEMMA RUrlsStep ==
  ASSUME RequestsOK, Store, NEW r \in Requests, UrlsStep(r)
  PROVE  RequestsOK'
<1> DEFINE known == FindAllLocalFileNames
<1>0. known \subseteq FileSet BY DEF FindAllLocalFileNames, Existing, Store, Rows, NoVideo
<1> DEFINE t0 == "readdir"
            q0 == [To(r, t0) EXCEPT !.known = known]
<1>1. t0 \in Steps BY DEF Steps
<1>2. To(r, t0) \in RequestSet BY <1>1, ToOK
<1>3. q0 \in RequestSet
  BY <1>2, RequestOK, <1>0 DEF RequestSet
<1>4. /\ q0.at = t0 /\ q0.op = req[r].op /\ q0.user = req[r].user /\ q0.video = req[r].video
      /\ q0.ids = req[r].ids
      /\ q0.rows = req[r].rows /\ q0.todo = req[r].todo /\ q0.file = req[r].file /\ q0.files = req[r].files
      /\ q0.any = req[r].any
  BY <1>1, <1>2, ToOK DEF RequestSet
<1> HIDE DEF q0
<1>5. Paths(q0) /\ Fits(q0)
  BY <1>1, <1>4, RequestOK, <1>0 DEF UrlsStep, At, Paths, Fits
<1> USE DEF q0
<1> QED BY <1>1, <1>3, <1>5, GoOK, MoveOK, DoneOK, <1>0 DEF UrlsStep

LEMMA RReadDir ==
  ASSUME RequestsOK, Store, NEW r \in Requests, ReadDir(r)
  PROVE  RequestsOK'
<1> DEFINE new == Candidates(req[r].known)
<1>0. new \subseteq FileSet /\ IsFiniteSet(new) BY FS_Subset DEF Candidates, Store
<1>1. "refresh" \in Steps BY DEF Steps
<1>2. Paths(To(r, "refresh")) /\ Fits(To(r, "refresh"))
  BY <1>1, RequestOK, ToOK, <1>0 DEF ReadDir, At, Paths, Fits
<1> DEFINE t0 == "adopt"
            q0 == [To(r, t0) EXCEPT !.files = new]
<1>3. t0 \in Steps BY DEF Steps
<1>4. To(r, t0) \in RequestSet BY <1>3, ToOK
<1>5. q0 \in RequestSet
  BY <1>4, RequestOK, <1>0 DEF RequestSet
<1>6. /\ q0.at = t0 /\ q0.op = req[r].op /\ q0.user = req[r].user /\ q0.video = req[r].video
      /\ q0.ids = req[r].ids
      /\ q0.rows = req[r].rows /\ q0.todo = req[r].todo /\ q0.file = req[r].file /\ q0.files = new
      /\ q0.any = req[r].any
  BY <1>3, <1>4, ToOK DEF RequestSet
<1> HIDE DEF q0
<1>7. Paths(q0) /\ Fits(q0)
  BY <1>3, <1>6, RequestOK, <1>0 DEF ReadDir, At, Paths, Fits
<1> USE DEF q0
<1> QED BY <1>1, <1>2, <1>3, <1>5, <1>7, GoOK, MoveOK, DoneOK, <1>0 DEF ReadDir

LEMMA RAdopt ==
  ASSUME RequestsOK, Store, NEW r \in Requests, Adopt(r)
  PROVE  RequestsOK'
<1>1. "refresh" \in Steps BY DEF Steps
<1>2. Paths(To(r, "refresh")) /\ Fits(To(r, "refresh"))
  BY <1>1, RequestOK, ToOK DEF Adopt, At, Paths, Fits
<1> QED BY <1>1, <1>2, GoOK, MoveOK, DoneOK DEF Adopt

LEMMA RDelRow ==
  ASSUME RequestsOK, Store, NEW r \in Requests, DelRow(r)
  PROVE  RequestsOK'
<1> DEFINE rows == {videos[v] : v \in req[r].ids \cap Existing}
           files == UNION {FilesOf(row) : row \in rows}
<1>0. files \subseteq FileSet /\ IsFiniteSet(files)
  <2>1. \A row \in rows : FilesOf(row) \subseteq FileSet BY DEF FilesOf, Existing, Store, Rows
  <2>2. \A row \in rows : IsFiniteSet(FilesOf(row))
    <3>1. \A a, b, c : IsFiniteSet({a, b, c} \ {NoFile}) BY ThreeFinite
    <3> QED BY <3>1 DEF FilesOf
  <2>3. IsFiniteSet({FilesOf(row) : row \in rows})
    <3>1. {FilesOf(row) : row \in rows} = {FilesOf(videos[v]) : v \in req[r].ids \cap Existing} OBVIOUS
    <3>2. IsFiniteSet(req[r].ids \cap Existing)
      BY FS_Subset, LibraryAssumption, RequestOK DEF IdAssumption, RequestSet
    <3> DEFINE f == [v \in req[r].ids \cap Existing |-> FilesOf(videos[v])]
    <3>3. {FilesOf(videos[v]) : v \in req[r].ids \cap Existing} = {f[v] : v \in req[r].ids \cap Existing} OBVIOUS
    <3>4. IsFiniteSet({f[v] : v \in req[r].ids \cap Existing})
      <4>1. f = [v \in req[r].ids \cap Existing |-> f[v]] OBVIOUS
      <4> HIDE DEF f
      <4> QED BY <3>2, <4>1, ImageFinite
    <3> QED BY <3>1, <3>3, <3>4
  <2>4. IsFiniteSet(files)
    <3> DEFINE F == {FilesOf(row) : row \in rows}
    <3>1. \A S \in F : IsFiniteSet(S) BY <2>2
    <3>2. IsFiniteSet(F) BY <2>3
    <3> HIDE DEF F
    <3>3. IsFiniteSet(UNION F) BY <3>1, <3>2, FS_UNION
    <3> QED BY <3>3 DEF F
  <2> QED BY <2>1, <2>4
<1> DEFINE t0 == "tx"
            q0 == [To(r, t0) EXCEPT !.files = files]
<1>1. t0 \in Steps BY DEF Steps
<1>2. To(r, t0) \in RequestSet BY <1>1, ToOK
<1>3. q0 \in RequestSet
  BY <1>2, RequestOK, <1>0 DEF RequestSet
<1>4. /\ q0.at = t0 /\ q0.op = req[r].op /\ q0.user = req[r].user /\ q0.video = req[r].video
      /\ q0.ids = req[r].ids
      /\ q0.rows = req[r].rows /\ q0.todo = req[r].todo /\ q0.file = req[r].file /\ q0.files = files
      /\ q0.any = req[r].any
  BY <1>1, <1>2, ToOK DEF RequestSet
<1> HIDE DEF q0
<1>5. Paths(q0) /\ Fits(q0)
  BY <1>1, <1>4, RequestOK, <1>0 DEF DelRow, At, Paths, Fits
<1> USE DEF q0
<1> QED BY <1>1, <1>3, <1>5, GoOK, MoveOK, DoneOK, <1>0 DEF DelRow

LEMMA RBeginDelete ==
  ASSUME RequestsOK, Store, NEW r \in Requests, BeginDelete(r)
  PROVE  RequestsOK'
<1> DEFINE charge == Charge(req[r].ids)
           held == {v \in req[r].ids \cap Existing : HasRows(v)}
<1>a. req[r].ids \subseteq Videos BY RequestOK DEF RequestSet
<1>0. charge \in [Users -> Nat] /\ held \subseteq Videos BY <1>a, ChargeOK
<1> HIDE DEF charge
<1> DEFINE t0 == "settle"
            q0 == [To(r, t0) EXCEPT !.charge = charge, !.held = held]
<1>1. t0 \in Steps BY DEF Steps
<1>2. To(r, t0) \in RequestSet BY <1>1, ToOK
<1>3. q0 \in RequestSet
  BY <1>2, RequestOK, <1>0 DEF RequestSet
<1>4. /\ q0.at = t0 /\ q0.op = req[r].op /\ q0.user = req[r].user /\ q0.video = req[r].video
      /\ q0.ids = req[r].ids
      /\ q0.rows = req[r].rows /\ q0.todo = req[r].todo /\ q0.file = req[r].file /\ q0.files = req[r].files
      /\ q0.any = req[r].any
  BY <1>1, <1>2, ToOK DEF RequestSet
<1> HIDE DEF q0
<1>5. Paths(q0) /\ Fits(q0)
  BY <1>1, <1>4, RequestOK, <1>0 DEF BeginDelete, At, Paths, Fits
<1> USE DEF q0
<1> USE DEF charge
<1> QED BY <1>1, <1>3, <1>5, GoOK, MoveOK, DoneOK, <1>0 DEF BeginDelete

LEMMA RListMedia ==
  ASSUME RequestsOK, Store, NEW r \in Requests, ListMedia(r)
  PROVE  RequestsOK'
<1> DEFINE rows == {videos[v] : v \in ListLocalVideoMedia}
<1>0. rows \subseteq Rows BY DEF ListLocalVideoMedia, Existing, Store
<1> DEFINE t0 == "exists"
            q0 == [To(r, t0) EXCEPT !.rows = rows]
<1>1. t0 \in Steps BY DEF Steps
<1>2. To(r, t0) \in RequestSet BY <1>1, ToOK
<1>3. q0 \in RequestSet
  BY <1>2, RequestOK, <1>0 DEF RequestSet
<1>4. /\ q0.at = t0 /\ q0.op = req[r].op /\ q0.user = req[r].user /\ q0.video = req[r].video
      /\ q0.ids = req[r].ids
      /\ q0.rows = rows /\ q0.todo = req[r].todo /\ q0.file = req[r].file /\ q0.files = req[r].files
      /\ q0.any = req[r].any
  BY <1>1, <1>2, ToOK DEF RequestSet
<1> HIDE DEF q0
<1>5. Paths(q0) /\ Fits(q0)
  BY <1>1, <1>4, RequestOK, <1>0 DEF ListMedia, At, Paths, Fits
<1> USE DEF q0
<1> QED BY <1>1, <1>3, <1>5, GoOK, MoveOK, DoneOK, <1>0 DEF ListMedia

LEMMA RCheckFiles ==
  ASSUME RequestsOK, Store, NEW r \in Requests, CheckFiles(r)
  PROVE  RequestsOK'
<1> DEFINE todo == MissingOf(req[r].rows)
<1>0. todo \subseteq Videos BY RequestOK DEF MissingOf, RequestSet, Rows
<1> DEFINE t0 == "nextmissing"
            q0 == [To(r, t0) EXCEPT !.todo = todo, !.rows = {}]
<1>1. t0 \in Steps BY DEF Steps
<1>2. To(r, t0) \in RequestSet BY <1>1, ToOK
<1>3. q0 \in RequestSet
  BY <1>2, RequestOK, <1>0 DEF RequestSet
<1>4. /\ q0.at = t0 /\ q0.op = req[r].op /\ q0.user = req[r].user /\ q0.video = req[r].video
      /\ q0.ids = req[r].ids
      /\ q0.rows = {} /\ q0.todo = todo /\ q0.file = req[r].file /\ q0.files = req[r].files
      /\ q0.any = req[r].any
  BY <1>1, <1>2, ToOK DEF RequestSet
<1> HIDE DEF q0
<1>5. Paths(q0) /\ Fits(q0)
  BY <1>1, <1>4, RequestOK, <1>0 DEF CheckFiles, At, Paths, Fits
<1> USE DEF q0
<1> QED BY <1>1, <1>3, <1>5, GoOK, MoveOK, DoneOK, <1>0 DEF CheckFiles

LEMMA RNextMissing ==
  ASSUME RequestsOK, Store, NEW r \in Requests, NextMissing(r)
  PROVE  RequestsOK'
<1> DEFINE v == Min(req[r].todo)
           todo == req[r].todo \ {v}
<1>a. req[r].todo \subseteq Videos BY RequestOK DEF RequestSet
<1>0. req[r].todo # {} => v \in Videos BY <1>a, MinIn, VideosAre
<1>b. todo \subseteq Videos BY RequestOK DEF RequestSet
<1> HIDE DEF v
<1> DEFINE s0 == IF req[r].any THEN "refresh" ELSE "finish"
<1>1. s0 \in Steps BY DEF Steps
<1>2. Paths(To(r, s0)) /\ Fits(To(r, s0))
  <2>1. s0 = "refresh" \/ s0 = "finish" OBVIOUS
  <2> HIDE DEF s0, todo
  <2>2. CASE s0 = "refresh" BY <2>2, <1>1, RequestOK, ToOK DEF NextMissing, At, Paths, Fits
  <2>3. CASE s0 = "finish" BY <2>3, <1>1, RequestOK, ToOK DEF NextMissing, At, Paths, Fits
  <2> QED BY <2>1, <2>2, <2>3
<1> DEFINE t0 == "tx"
            q0 == [To(r, t0) EXCEPT !.ids = {v}, !.todo = todo]
<1>3. t0 \in Steps BY DEF Steps
<1>4. To(r, t0) \in RequestSet BY <1>3, ToOK
<1>5. v \in Videos => q0 \in RequestSet
  BY <1>4, RequestOK, <1>0, <1>b DEF RequestSet
<1>6. /\ q0.at = t0 /\ q0.op = req[r].op /\ q0.user = req[r].user /\ q0.video = req[r].video /\ q0.ids = {v}
      /\ q0.rows = req[r].rows /\ q0.todo = todo /\ q0.file = req[r].file /\ q0.files = req[r].files
      /\ q0.any = req[r].any
  BY <1>3, <1>4, ToOK DEF RequestSet
<1> HIDE DEF q0
<1>7. v \in Videos => Paths(q0) /\ Fits(q0)
  BY <1>3, <1>6, RequestOK, <1>0, <1>b DEF NextMissing, At, Paths, Fits
<1> USE DEF q0
<1> USE DEF v
<1> QED BY <1>1, <1>2, <1>3, <1>5, <1>7, GoOK, MoveOK, DoneOK, <1>0, <1>b DEF NextMissing

LEMMA RBurnRecord ==
  ASSUME RequestsOK, Store, NEW r \in Requests, BurnRecord(r)
  PROVE  RequestsOK'
<1> DEFINE rows == {row \in FindById(req[r].video) : MayBurn(req[r].user, row)}
           ids == {req[r].video}
<1>0. rows \subseteq Rows BY DEF FindById, Existing, Store
<1>b. ids \subseteq Videos BY RequestOK DEF BurnRecord, At, Paths, Fits
<1> DEFINE t0 == "variants"
            q0 == [To(r, t0) EXCEPT !.rows = rows, !.ids = ids]
<1>1. t0 \in Steps BY DEF Steps
<1>2. To(r, t0) \in RequestSet BY <1>1, ToOK
<1>3. rows # {} => q0 \in RequestSet
  BY <1>2, RequestOK, <1>0, <1>b DEF RequestSet
<1>4. /\ q0.at = t0 /\ q0.op = req[r].op /\ q0.user = req[r].user /\ q0.video = req[r].video /\ q0.ids = ids
      /\ q0.rows = rows /\ q0.todo = req[r].todo /\ q0.file = req[r].file /\ q0.files = req[r].files
      /\ q0.any = req[r].any
  BY <1>1, <1>2, ToOK DEF RequestSet
<1> HIDE DEF q0
<1>5. rows # {} => Paths(q0) /\ Fits(q0)
  BY <1>1, <1>4, RequestOK, <1>0, <1>b DEF BurnRecord, At, Paths, Fits
<1> USE DEF q0
<1> QED BY <1>1, <1>3, <1>5, GoOK, MoveOK, DoneOK, <1>0, <1>b DEF BurnRecord

LEMMA RListVariants ==
  ASSUME RequestsOK, Store, NEW r \in Requests, ListVariants(r)
  PROVE  RequestsOK'
<1> DEFINE files == FilesOf(Row(r)) \cup {VariantOf(v) : v \in variants \cap {req[r].video}}
<1>a. Row(r) \in Rows
  <2>1. req[r].rows # {} /\ req[r].rows \subseteq Rows BY RequestOK DEF ListVariants, At, Fits, RequestSet
  <2> QED BY <2>1 DEF Row
<1>b. FilesOf(Row(r)) \subseteq FileSet BY <1>a DEF FilesOf, Rows
<1>c. {VariantOf(v) : v \in variants \cap {req[r].video}} \subseteq FileSet BY NamesOK, VideosAre DEF Store
<1>d. IsFiniteSet(FilesOf(Row(r)))
  <2>1. \A a, b, c : IsFiniteSet({a, b, c} \ {NoFile}) BY ThreeFinite
  <2> QED BY <2>1 DEF FilesOf
<1>e. {VariantOf(v) : v \in variants \cap {req[r].video}} \subseteq {VariantOf(req[r].video)}
  <2>1. CASE variants \cap {req[r].video} = {} BY <2>1
  <2>2. CASE variants \cap {req[r].video} = {req[r].video} BY <2>2
  <2> QED BY <2>1, <2>2
<1>f. IsFiniteSet({VariantOf(v) : v \in variants \cap {req[r].video}})
  <2> DEFINE V == {VariantOf(v) : v \in variants \cap {req[r].video}}
             x == VariantOf(req[r].video)
  <2>1. V \subseteq {x} BY <1>e
  <2> HIDE DEF V, x
  <2>2. IsFiniteSet(V) BY <2>1, FS_Singleton, FS_Subset
  <2> QED BY <2>2 DEF V
<1>0. files \subseteq FileSet /\ IsFiniteSet(files) BY <1>b, <1>c, <1>d, <1>f, FS_Union
<1> HIDE DEF files
<1> DEFINE t0 == "tx"
            q0 == [To(r, t0) EXCEPT !.files = files]
<1>1. t0 \in Steps BY DEF Steps
<1>2. To(r, t0) \in RequestSet BY <1>1, ToOK
<1>3. q0 \in RequestSet
  BY <1>2, RequestOK, <1>0 DEF RequestSet
<1>4. /\ q0.at = t0 /\ q0.op = req[r].op /\ q0.user = req[r].user /\ q0.video = req[r].video
      /\ q0.ids = req[r].ids
      /\ q0.rows = req[r].rows /\ q0.todo = req[r].todo /\ q0.file = req[r].file /\ q0.files = files
      /\ q0.any = req[r].any
  BY <1>1, <1>2, ToOK DEF RequestSet
<1> HIDE DEF q0
<1>5. Paths(q0) /\ Fits(q0)
  BY <1>1, <1>4, RequestOK, <1>0 DEF ListVariants, At, Paths, Fits
<1> USE DEF q0
<1> USE DEF files
<1> QED BY <1>1, <1>3, <1>5, GoOK, MoveOK, DoneOK, <1>0 DEF ListVariants

LEMMA RAtEnd ==
  ASSUME RequestsOK, Store, NEW r \in Requests, AtEnd(r)
  PROVE  RequestsOK'
<1> DEFINE ends == \E row \in FindById(req[r].video) : IsAtEnd(req[r].report, row.length)
<1>0. ends \in BOOLEAN OBVIOUS
<1> HIDE DEF ends
<1> DEFINE t0 == "upsert"
            q0 == [To(r, t0) EXCEPT !.ends = ends]
<1>1. t0 \in Steps BY DEF Steps
<1>2. To(r, t0) \in RequestSet BY <1>1, ToOK
<1>3. q0 \in RequestSet
  BY <1>2, RequestOK, <1>0 DEF RequestSet
<1>4. /\ q0.at = t0 /\ q0.op = req[r].op /\ q0.user = req[r].user /\ q0.video = req[r].video
      /\ q0.ids = req[r].ids
      /\ q0.rows = req[r].rows /\ q0.todo = req[r].todo /\ q0.file = req[r].file /\ q0.files = req[r].files
      /\ q0.any = req[r].any
  BY <1>1, <1>2, ToOK DEF RequestSet
<1> HIDE DEF q0
<1>5. Paths(q0) /\ Fits(q0)
  BY <1>1, <1>4, RequestOK, <1>0 DEF AtEnd, At, Paths, Fits
<1> USE DEF q0
<1> USE DEF ends
<1> QED BY <1>1, <1>3, <1>5, GoOK, MoveOK, DoneOK, <1>0 DEF AtEnd

LEMMA RUpsert ==
  ASSUME RequestsOK, Store, NEW r \in Requests, Upsert(r)
  PROVE  RequestsOK'
<1>1. "burnrecord" \in Steps BY DEF Steps
<1>2. Paths(To(r, "burnrecord")) /\ Fits(To(r, "burnrecord"))
  BY <1>1, RequestOK, ToOK DEF Upsert, At, Paths, Fits
<1> QED BY <1>1, <1>2, GoOK, MoveOK, DoneOK DEF Upsert

LEMMA RCommitDelete ==
  ASSUME RequestsOK, Store, NEW r \in Requests, CommitDelete(r)
  PROVE  RequestsOK'
<1> DEFINE some == req[r].ids \cap Existing # {}
           any == req[r].any \/ some
<1>0. some \in BOOLEAN /\ any \in BOOLEAN BY RequestOK DEF RequestSet
<1>a. req[r].op \in {"delete", "deletemany", "sweep", "burn", "playback"}
  BY RequestOK DEF CommitDelete, At, Paths
<1> HIDE DEF some, any
<1>1. "unlink" \in Steps BY DEF Steps
<1>2. req[r].op \in {"delete", "deletemany"} => Paths(To(r, "unlink")) /\ Fits(To(r, "unlink"))
  BY <1>1, RequestOK, ToOK, <1>0, <1>a DEF CommitDelete, At, Paths, Fits, AfterDelete, Move
<1> DEFINE t0 == "nextmissing"
            q0 == [To(r, t0) EXCEPT !.any = any]
<1>3. t0 \in Steps BY DEF Steps
<1>4. To(r, t0) \in RequestSet BY <1>3, ToOK
<1>5. req[r].op = "sweep" => q0 \in RequestSet
  BY <1>4, RequestOK, <1>0, <1>a DEF RequestSet
<1>6. /\ q0.at = t0 /\ q0.op = req[r].op /\ q0.user = req[r].user /\ q0.video = req[r].video
      /\ q0.ids = req[r].ids
      /\ q0.rows = req[r].rows /\ q0.todo = req[r].todo /\ q0.file = req[r].file /\ q0.files = req[r].files
      /\ q0.any = any
  BY <1>3, <1>4, ToOK DEF RequestSet
<1> HIDE DEF q0
<1>7. req[r].op = "sweep" => Paths(q0) /\ Fits(q0)
  BY <1>3, <1>6, RequestOK, <1>0, <1>a DEF CommitDelete, At, Paths, Fits, AfterDelete, Move
<1> DEFINE t1 == IF some THEN "unlink" ELSE "finish"
            q1 == [To(r, t1) EXCEPT !.any = some]
<1>8. t1 \in Steps BY DEF Steps
<1> HIDE DEF t1
<1>9. To(r, t1) \in RequestSet BY <1>8, ToOK
<1>10. req[r].op \in {"burn", "playback"} => q1 \in RequestSet
  BY <1>9, RequestOK, <1>0, <1>a DEF RequestSet
<1>11. /\ q1.at = t1 /\ q1.op = req[r].op /\ q1.user = req[r].user /\ q1.video = req[r].video
       /\ q1.ids = req[r].ids
      /\ q1.rows = req[r].rows /\ q1.todo = req[r].todo /\ q1.file = req[r].file /\ q1.files = req[r].files
      /\ q1.any = some
  BY <1>8, <1>9, ToOK DEF RequestSet
<1> HIDE DEF q1
<1> USE DEF t1
<1>12. req[r].op \in {"burn", "playback"} => Paths(q1) /\ Fits(q1)
  BY <1>8, <1>11, RequestOK, <1>0, <1>a DEF CommitDelete, At, Paths, Fits, AfterDelete, Move
<1> USE DEF q0
<1> USE DEF q1, t1
<1> USE DEF some, any
<1> QED
  BY <1>1, <1>2, <1>3, <1>5, <1>7, <1>8, <1>10, <1>12, GoOK, MoveOK, DoneOK, <1>0, <1>a DEF CommitDelete,
     AfterDelete, Move

\* The calls, one after the other: each begins with an idle request.
LEMMA StepOK ==
  ASSUME NEW s \in Steps
  PROVE  /\ Step(s) \in RequestSet /\ Step(s).at = s /\ Step(s).op = "idle"
         /\ Step(s).user = 0 /\ Step(s).video = 0 /\ Step(s).ids = {} /\ Step(s).rows = {}
         /\ Step(s).todo = {}
         /\ Step(s).file = NoFile /\ Step(s).files = {} /\ Step(s).any = FALSE
<1>1. Step(s) \in RequestSet BY IdleOK DEF Step, RequestSet
<1> QED BY <1>1 DEF Step, Idle

LEMMA WatcherOK ==
  ASSUME RequestsOK, Store, NEW r \in Requests, NEW op \in Operations, NEW q \in RequestSet, Watcher(r, op, q),
         \A u \in Users, v \in Videos : LET p == [[q EXCEPT !.user = u, !.video = v] EXCEPT !.op = op]
                                        IN Paths(p) /\ Fits(p)
  PROVE  RequestsOK'
<1>1. PICK u \in scene.users, v \in Asked : Call(r, op, [q EXCEPT !.user = u, !.video = v])
  BY DEF Watcher
<1>2. u \in Users /\ v \in Videos BY DEF Store, SceneSet, Asked
<1> DEFINE p == [q EXCEPT !.user = u, !.video = v]
<1>3. p \in RequestSet BY <1>2 DEF RequestSet
<1>4. Paths([p EXCEPT !.op = op]) /\ Fits([p EXCEPT !.op = op]) BY <1>2
<1> HIDE DEF p
<1> QED BY <1>1, <1>3, <1>4, CallOK DEF p

LEMMA RUploadVideo ==
  ASSUME RequestsOK, Store, NEW r \in Requests, UploadVideo(r)
  PROVE  RequestsOK'
<1>a. PICK u \in scene.users, c \in scene.contents :
         Call(r, "upload", [Step("hash") EXCEPT !.user = u, !.file = File("media", 0, c)])
  BY DEF UploadVideo
<1> DEFINE file == File("media", 0, c)
<1>0. u \in Users /\ file \in FileSet /\ file.kind = "media" /\ file.content \in Contents
  BY DEF Store, SceneSet, File, FileSet, Kinds
<1> DEFINE q == [Step("hash") EXCEPT !.user = u, !.file = file]
            p == [q EXCEPT !.op = "upload"]
<1>1. "hash" \in Steps /\ "upload" \in Operations BY DEF Steps, Operations
<1>2. Step("hash") \in RequestSet BY <1>1, StepOK
<1>3. q \in RequestSet BY <1>2, <1>a, <1>0 DEF RequestSet
<1>4. /\ p.op = "upload" /\ p.at = "hash" /\ p.user = u /\ p.video = 0 /\ p.ids = {}
      /\ p.rows = {} /\ p.todo = {} /\ p.file = file /\ p.files = {} /\ p.any = FALSE
  BY <1>1, <1>2, <1>3, StepOK DEF RequestSet
<1> HIDE DEF p
<1>5. Paths(p) /\ Fits(p) BY <1>4, FS_EmptySet, <1>a, <1>0 DEF Paths, Fits, NoFile, File
<1> USE DEF p
<1> QED BY <1>1, <1>3, <1>5, CallOK, <1>a, <1>0 DEF UploadVideo

LEMMA RAddExternalVideo ==
  ASSUME RequestsOK, Store, NEW r \in Requests, AddExternalVideo(r)
  PROVE  RequestsOK'
<1>a. PICK u \in Admins : Call(r, "external", [Step("external") EXCEPT !.user = u])
  BY DEF AddExternalVideo
<1>0. u \in Users BY LibraryAssumption DEF IdAssumption
<1> DEFINE q == [Step("external") EXCEPT !.user = u]
            p == [q EXCEPT !.op = "external"]
<1>1. "external" \in Steps /\ "external" \in Operations BY DEF Steps, Operations
<1>2. Step("external") \in RequestSet BY <1>1, StepOK
<1>3. q \in RequestSet BY <1>2, <1>a, <1>0 DEF RequestSet
<1>4. /\ p.op = "external" /\ p.at = "external" /\ p.user = u /\ p.video = 0 /\ p.ids = {}
      /\ p.rows = {} /\ p.todo = {} /\ p.file = NoFile /\ p.files = {} /\ p.any = FALSE
  BY <1>1, <1>2, <1>3, StepOK DEF RequestSet
<1> HIDE DEF p
<1>5. Paths(p) /\ Fits(p) BY <1>4, FS_EmptySet, <1>a, <1>0 DEF Paths, Fits, NoFile, File
<1> USE DEF p
<1> QED BY <1>1, <1>3, <1>5, CallOK, <1>a, <1>0 DEF AddExternalVideo

LEMMA RScanMedia ==
  ASSUME RequestsOK, Store, NEW r \in Requests, ScanMedia(r)
  PROVE  RequestsOK'
<1> DEFINE q == Step("urls")
            p == [q EXCEPT !.op = "scan"]
<1>1. "urls" \in Steps /\ "scan" \in Operations BY DEF Steps, Operations
<1>2. Step("urls") \in RequestSet BY <1>1, StepOK
<1>3. q \in RequestSet BY <1>2 DEF RequestSet
<1>4. /\ p.op = "scan" /\ p.at = "urls" /\ p.user = 0 /\ p.video = 0 /\ p.ids = {}
      /\ p.rows = {} /\ p.todo = {} /\ p.file = NoFile /\ p.files = {} /\ p.any = FALSE
  BY <1>1, <1>2, <1>3, StepOK DEF RequestSet
<1> HIDE DEF p
<1>5. Paths(p) /\ Fits(p) BY <1>4, FS_EmptySet DEF Paths, Fits, NoFile, File
<1> USE DEF p
<1> QED BY <1>1, <1>3, <1>5, CallOK DEF ScanMedia

LEMMA RDeleteVideo ==
  ASSUME RequestsOK, Store, NEW r \in Requests, DeleteVideo(r)
  PROVE  RequestsOK'
<1>a. PICK v \in Asked : Call(r, "delete", [Step("invalidate") EXCEPT !.ids = {v}])
  BY DEF DeleteVideo
<1>0. v \in Videos BY DEF Asked, Store
<1> DEFINE q == [Step("invalidate") EXCEPT !.ids = {v}]
            p == [q EXCEPT !.op = "delete"]
<1>1. "invalidate" \in Steps /\ "delete" \in Operations BY DEF Steps, Operations
<1>2. Step("invalidate") \in RequestSet BY <1>1, StepOK
<1>3. q \in RequestSet BY <1>2, <1>a, <1>0 DEF RequestSet
<1>4. /\ p.op = "delete" /\ p.at = "invalidate" /\ p.user = 0 /\ p.video = 0 /\ p.ids = {v}
      /\ p.rows = {} /\ p.todo = {} /\ p.file = NoFile /\ p.files = {} /\ p.any = FALSE
  BY <1>1, <1>2, <1>3, StepOK DEF RequestSet
<1> HIDE DEF p
<1>5. Paths(p) /\ Fits(p) BY <1>4, FS_EmptySet, <1>a, <1>0 DEF Paths, Fits, NoFile, File
<1> USE DEF p
<1> QED BY <1>1, <1>3, <1>5, CallOK, <1>a, <1>0 DEF DeleteVideo

LEMMA RDeleteVideos ==
  ASSUME RequestsOK, Store, NEW r \in Requests, DeleteVideos(r)
  PROVE  RequestsOK'
<1>0. Asked \subseteq Videos BY DEF Asked, Store
<1> DEFINE q == [Step("invalidate") EXCEPT !.ids = Asked]
            p == [q EXCEPT !.op = "deletemany"]
<1>1. "invalidate" \in Steps /\ "deletemany" \in Operations BY DEF Steps, Operations
<1>2. Step("invalidate") \in RequestSet BY <1>1, StepOK
<1>3. q \in RequestSet BY <1>2, <1>0 DEF RequestSet
<1>4. /\ p.op = "deletemany" /\ p.at = "invalidate" /\ p.user = 0 /\ p.video = 0 /\ p.ids = Asked
      /\ p.rows = {} /\ p.todo = {} /\ p.file = NoFile /\ p.files = {} /\ p.any = FALSE
  BY <1>1, <1>2, <1>3, StepOK DEF RequestSet
<1> HIDE DEF p
<1>5. Paths(p) /\ Fits(p) BY <1>4, FS_EmptySet, <1>0 DEF Paths, Fits, NoFile, File
<1> USE DEF p
<1> QED BY <1>1, <1>3, <1>5, CallOK, <1>0 DEF DeleteVideos

LEMMA RUpdateVideo ==
  ASSUME RequestsOK, Store, NEW r \in Requests, UpdateVideo(r)
  PROVE  RequestsOK'
<1>a. PICK v \in Asked : Call(r, "edit", [Step("edit") EXCEPT !.ids = {v}])
  BY DEF UpdateVideo
<1>0. v \in Videos BY DEF Asked, Store
<1> DEFINE q == [Step("edit") EXCEPT !.ids = {v}]
            p == [q EXCEPT !.op = "edit"]
<1>1. "edit" \in Steps /\ "edit" \in Operations BY DEF Steps, Operations
<1>2. Step("edit") \in RequestSet BY <1>1, StepOK
<1>3. q \in RequestSet BY <1>2, <1>a, <1>0 DEF RequestSet
<1>4. /\ p.op = "edit" /\ p.at = "edit" /\ p.user = 0 /\ p.video = 0 /\ p.ids = {v}
      /\ p.rows = {} /\ p.todo = {} /\ p.file = NoFile /\ p.files = {} /\ p.any = FALSE
  BY <1>1, <1>2, <1>3, StepOK DEF RequestSet
<1> HIDE DEF p
<1>5. Paths(p) /\ Fits(p) BY <1>4, FS_EmptySet, <1>a, <1>0 DEF Paths, Fits, NoFile, File
<1> USE DEF p
<1> QED BY <1>1, <1>3, <1>5, CallOK, <1>a, <1>0 DEF UpdateVideo

LEMMA RBatchUpdateCategory ==
  ASSUME RequestsOK, Store, NEW r \in Requests, BatchUpdateCategory(r)
  PROVE  RequestsOK'
<1>0. Asked \subseteq Videos BY DEF Asked, Store
<1> DEFINE q == [Step("edit") EXCEPT !.ids = Asked]
            p == [q EXCEPT !.op = "category"]
<1>1. "edit" \in Steps /\ "category" \in Operations BY DEF Steps, Operations
<1>2. Step("edit") \in RequestSet BY <1>1, StepOK
<1>3. q \in RequestSet BY <1>2, <1>0 DEF RequestSet
<1>4. /\ p.op = "category" /\ p.at = "edit" /\ p.user = 0 /\ p.video = 0 /\ p.ids = Asked
      /\ p.rows = {} /\ p.todo = {} /\ p.file = NoFile /\ p.files = {} /\ p.any = FALSE
  BY <1>1, <1>2, <1>3, StepOK DEF RequestSet
<1> HIDE DEF p
<1>5. Paths(p) /\ Fits(p) BY <1>4, FS_EmptySet, <1>0 DEF Paths, Fits, NoFile, File
<1> USE DEF p
<1> QED BY <1>1, <1>3, <1>5, CallOK, <1>0 DEF BatchUpdateCategory

LEMMA RUploadCover ==
  ASSUME RequestsOK, Store, NEW r \in Requests, UploadCover(r)
  PROVE  RequestsOK'
<1>a. PICK v \in Asked : Call(r, "cover", [Step("tmpcover") EXCEPT !.video = v])
  BY DEF UploadCover
<1>0. v \in Videos BY DEF Asked, Store
<1> DEFINE q == [Step("tmpcover") EXCEPT !.video = v]
            p == [q EXCEPT !.op = "cover"]
<1>1. "tmpcover" \in Steps /\ "cover" \in Operations BY DEF Steps, Operations
<1>2. Step("tmpcover") \in RequestSet BY <1>1, StepOK
<1>3. q \in RequestSet BY <1>2, <1>a, <1>0 DEF RequestSet
<1>4. /\ p.op = "cover" /\ p.at = "tmpcover" /\ p.user = 0 /\ p.video = v /\ p.ids = {}
      /\ p.rows = {} /\ p.todo = {} /\ p.file = NoFile /\ p.files = {} /\ p.any = FALSE
  BY <1>1, <1>2, <1>3, StepOK DEF RequestSet
<1> HIDE DEF p
<1>5. Paths(p) /\ Fits(p) BY <1>4, FS_EmptySet, <1>a, <1>0 DEF Paths, Fits, NoFile, File
<1> USE DEF p
<1> QED BY <1>1, <1>3, <1>5, CallOK, <1>a, <1>0 DEF UploadCover

LEMMA RBackfillThumbnails ==
  ASSUME RequestsOK, Store, NEW r \in Requests, BackfillThumbnails(r)
  PROVE  RequestsOK'
<1> DEFINE q == Step("covers")
            p == [q EXCEPT !.op = "backfill"]
<1>1. "covers" \in Steps /\ "backfill" \in Operations BY DEF Steps, Operations
<1>2. Step("covers") \in RequestSet BY <1>1, StepOK
<1>3. q \in RequestSet BY <1>2 DEF RequestSet
<1>4. /\ p.op = "backfill" /\ p.at = "covers" /\ p.user = 0 /\ p.video = 0 /\ p.ids = {}
      /\ p.rows = {} /\ p.todo = {} /\ p.file = NoFile /\ p.files = {} /\ p.any = FALSE
  BY <1>1, <1>2, <1>3, StepOK DEF RequestSet
<1> HIDE DEF p
<1>5. Paths(p) /\ Fits(p) BY <1>4, FS_EmptySet DEF Paths, Fits, NoFile, File
<1> USE DEF p
<1> QED BY <1>1, <1>3, <1>5, CallOK DEF BackfillThumbnails

LEMMA RBackfillExif ==
  ASSUME RequestsOK, Store, NEW r \in Requests, BackfillExif(r)
  PROVE  RequestsOK'
<1> DEFINE q == Step("noexif")
            p == [q EXCEPT !.op = "exif"]
<1>1. "noexif" \in Steps /\ "exif" \in Operations BY DEF Steps, Operations
<1>2. Step("noexif") \in RequestSet BY <1>1, StepOK
<1>3. q \in RequestSet BY <1>2 DEF RequestSet
<1>4. /\ p.op = "exif" /\ p.at = "noexif" /\ p.user = 0 /\ p.video = 0 /\ p.ids = {}
      /\ p.rows = {} /\ p.todo = {} /\ p.file = NoFile /\ p.files = {} /\ p.any = FALSE
  BY <1>1, <1>2, <1>3, StepOK DEF RequestSet
<1> HIDE DEF p
<1>5. Paths(p) /\ Fits(p) BY <1>4, FS_EmptySet DEF Paths, Fits, NoFile, File
<1> USE DEF p
<1> QED BY <1>1, <1>3, <1>5, CallOK DEF BackfillExif

LEMMA RSweepMissing ==
  ASSUME RequestsOK, Store, NEW r \in Requests, SweepMissing(r)
  PROVE  RequestsOK'
<1> DEFINE q == Step("list")
            p == [q EXCEPT !.op = "sweep"]
<1>1. "list" \in Steps /\ "sweep" \in Operations BY DEF Steps, Operations
<1>2. Step("list") \in RequestSet BY <1>1, StepOK
<1>3. q \in RequestSet BY <1>2 DEF RequestSet
<1>4. /\ p.op = "sweep" /\ p.at = "list" /\ p.user = 0 /\ p.video = 0 /\ p.ids = {}
      /\ p.rows = {} /\ p.todo = {} /\ p.file = NoFile /\ p.files = {} /\ p.any = FALSE
  BY <1>1, <1>2, <1>3, StepOK DEF RequestSet
<1> HIDE DEF p
<1>5. Paths(p) /\ Fits(p) BY <1>4, FS_EmptySet DEF Paths, Fits, NoFile, File
<1> USE DEF p
<1> QED BY <1>1, <1>3, <1>5, CallOK DEF SweepMissing

LEMMA RListVideos ==
  ASSUME RequestsOK, Store, NEW r \in Requests, ListVideos(r)
  PROVE  RequestsOK'
<1>a. PICK u \in scene.users : Call(r, "list", [Step("cached") EXCEPT !.user = IF u \in Admins THEN 0 ELSE u])
  BY DEF ListVideos
<1>0. u \in Users BY DEF Store, SceneSet
<1> DEFINE q == [Step("cached") EXCEPT !.user = (IF u \in Admins THEN 0 ELSE u)]
            p == [q EXCEPT !.op = "list"]
<1>1. "cached" \in Steps /\ "list" \in Operations BY DEF Steps, Operations
<1>2. Step("cached") \in RequestSet BY <1>1, StepOK
<1>3. q \in RequestSet BY <1>2, <1>a, <1>0 DEF RequestSet
<1>4. /\ p.op = "list" /\ p.at = "cached" /\ p.user = (IF u \in Admins THEN 0 ELSE u) /\ p.video = 0 /\ p.ids = {}
      /\ p.rows = {} /\ p.todo = {} /\ p.file = NoFile /\ p.files = {} /\ p.any = FALSE
  BY <1>1, <1>2, <1>3, StepOK DEF RequestSet
<1> HIDE DEF p
<1>5. Paths(p) /\ Fits(p) BY <1>4, FS_EmptySet, <1>a, <1>0 DEF Paths, Fits, NoFile, File
<1> USE DEF p
<1> QED BY <1>1, <1>3, <1>5, CallOK, <1>a, <1>0 DEF ListVideos

LEMMA RGetVideo ==
  ASSUME RequestsOK, Store, NEW r \in Requests, GetVideo(r)
  PROVE  RequestsOK'
<1> DEFINE q == Step("detail")
<1>1. "detail" \in Steps /\ "get" \in Operations BY DEF Steps, Operations
<1>2. Step("detail") \in RequestSet BY <1>1, StepOK
<1>3. q \in RequestSet BY <1>2 DEF RequestSet
<1>4. ASSUME NEW u \in Users, NEW v \in Videos
      PROVE  LET p == [[q EXCEPT !.user = u, !.video = v] EXCEPT !.op = "get"] IN Paths(p) /\ Fits(p)
  <2> DEFINE p == [[q EXCEPT !.user = u, !.video = v] EXCEPT !.op = "get"]
  <2>1. /\ p.op = "get" /\ p.at = "detail" /\ p.user = u /\ p.video = v /\ p.ids = {}
        /\ p.rows = {} /\ p.todo = {} /\ p.file = NoFile /\ p.files = {} /\ p.any = FALSE
    BY <1>1, <1>2, StepOK DEF RequestSet
  <2> HIDE DEF p
  <2>2. Paths(p) /\ Fits(p) BY <2>1, FS_EmptySet DEF Paths, Fits, NoFile, File
  <2> QED BY <2>2 DEF p
<1> QED BY <1>1, <1>3, <1>4, WatcherOK DEF GetVideo

LEMMA RViewVideo ==
  ASSUME RequestsOK, Store, NEW r \in Requests, ViewVideo(r)
  PROVE  RequestsOK'
<1> DEFINE q == Step("view")
<1>1. "view" \in Steps /\ "view" \in Operations BY DEF Steps, Operations
<1>2. Step("view") \in RequestSet BY <1>1, StepOK
<1>3. q \in RequestSet BY <1>2 DEF RequestSet
<1>4. ASSUME NEW u \in Users, NEW v \in Videos
      PROVE  LET p == [[q EXCEPT !.user = u, !.video = v] EXCEPT !.op = "view"] IN Paths(p) /\ Fits(p)
  <2> DEFINE p == [[q EXCEPT !.user = u, !.video = v] EXCEPT !.op = "view"]
  <2>1. /\ p.op = "view" /\ p.at = "view" /\ p.user = u /\ p.video = v /\ p.ids = {}
        /\ p.rows = {} /\ p.todo = {} /\ p.file = NoFile /\ p.files = {} /\ p.any = FALSE
    BY <1>1, <1>2, StepOK DEF RequestSet
  <2> HIDE DEF p
  <2>2. Paths(p) /\ Fits(p) BY <2>1, FS_EmptySet DEF Paths, Fits, NoFile, File
  <2> QED BY <2>2 DEF p
<1> QED BY <1>1, <1>3, <1>4, WatcherOK DEF ViewVideo

LEMMA RBurnVideo ==
  ASSUME RequestsOK, Store, NEW r \in Requests, BurnVideo(r)
  PROVE  RequestsOK'
<1> DEFINE q == Step("burnrow")
<1>1. "burnrow" \in Steps /\ "burn" \in Operations BY DEF Steps, Operations
<1>2. Step("burnrow") \in RequestSet BY <1>1, StepOK
<1>3. q \in RequestSet BY <1>2 DEF RequestSet
<1>4. ASSUME NEW u \in Users, NEW v \in Videos
      PROVE  LET p == [[q EXCEPT !.user = u, !.video = v] EXCEPT !.op = "burn"] IN Paths(p) /\ Fits(p)
  <2> DEFINE p == [[q EXCEPT !.user = u, !.video = v] EXCEPT !.op = "burn"]
  <2>1. /\ p.op = "burn" /\ p.at = "burnrow" /\ p.user = u /\ p.video = v /\ p.ids = {}
        /\ p.rows = {} /\ p.todo = {} /\ p.file = NoFile /\ p.files = {} /\ p.any = FALSE
    BY <1>1, <1>2, StepOK DEF RequestSet
  <2> HIDE DEF p
  <2>2. Paths(p) /\ Fits(p) BY <2>1, FS_EmptySet DEF Paths, Fits, NoFile, File
  <2> QED BY <2>2 DEF p
<1> QED BY <1>1, <1>3, <1>4, WatcherOK DEF BurnVideo

LEMMA RStartSession ==
  ASSUME RequestsOK, Store, NEW r \in Requests, StartSession(r)
  PROVE  RequestsOK'
<1> DEFINE q == Step("start")
<1>1. "start" \in Steps /\ "start" \in Operations BY DEF Steps, Operations
<1>2. Step("start") \in RequestSet BY <1>1, StepOK
<1>3. q \in RequestSet BY <1>2 DEF RequestSet
<1>4. ASSUME NEW u \in Users, NEW v \in Videos
      PROVE  LET p == [[q EXCEPT !.user = u, !.video = v] EXCEPT !.op = "start"] IN Paths(p) /\ Fits(p)
  <2> DEFINE p == [[q EXCEPT !.user = u, !.video = v] EXCEPT !.op = "start"]
  <2>1. /\ p.op = "start" /\ p.at = "start" /\ p.user = u /\ p.video = v /\ p.ids = {}
        /\ p.rows = {} /\ p.todo = {} /\ p.file = NoFile /\ p.files = {} /\ p.any = FALSE
    BY <1>1, <1>2, StepOK DEF RequestSet
  <2> HIDE DEF p
  <2>2. Paths(p) /\ Fits(p) BY <2>1, FS_EmptySet DEF Paths, Fits, NoFile, File
  <2> QED BY <2>2 DEF p
<1> QED BY <1>1, <1>3, <1>4, WatcherOK DEF StartSession

LEMMA RHeartbeat ==
  ASSUME RequestsOK, Store, NEW r \in Requests, Heartbeat(r)
  PROVE  RequestsOK'
<1> DEFINE q == Step("heartbeat")
<1>1. "heartbeat" \in Steps /\ "heartbeat" \in Operations BY DEF Steps, Operations
<1>2. Step("heartbeat") \in RequestSet BY <1>1, StepOK
<1>3. q \in RequestSet BY <1>2 DEF RequestSet
<1>4. ASSUME NEW u \in Users, NEW v \in Videos
      PROVE  LET p == [[q EXCEPT !.user = u, !.video = v] EXCEPT !.op = "heartbeat"] IN Paths(p) /\ Fits(p)
  <2> DEFINE p == [[q EXCEPT !.user = u, !.video = v] EXCEPT !.op = "heartbeat"]
  <2>1. /\ p.op = "heartbeat" /\ p.at = "heartbeat" /\ p.user = u /\ p.video = v /\ p.ids = {}
        /\ p.rows = {} /\ p.todo = {} /\ p.file = NoFile /\ p.files = {} /\ p.any = FALSE
    BY <1>1, <1>2, StepOK DEF RequestSet
  <2> HIDE DEF p
  <2>2. Paths(p) /\ Fits(p) BY <2>1, FS_EmptySet DEF Paths, Fits, NoFile, File
  <2> QED BY <2>2 DEF p
<1> QED BY <1>1, <1>3, <1>4, WatcherOK DEF Heartbeat

LEMMA RStopSession ==
  ASSUME RequestsOK, Store, NEW r \in Requests, StopSession(r)
  PROVE  RequestsOK'
<1> DEFINE q == Step("stop")
<1>1. "stop" \in Steps /\ "stop" \in Operations BY DEF Steps, Operations
<1>2. Step("stop") \in RequestSet BY <1>1, StepOK
<1>3. q \in RequestSet BY <1>2 DEF RequestSet
<1>4. ASSUME NEW u \in Users, NEW v \in Videos
      PROVE  LET p == [[q EXCEPT !.user = u, !.video = v] EXCEPT !.op = "stop"] IN Paths(p) /\ Fits(p)
  <2> DEFINE p == [[q EXCEPT !.user = u, !.video = v] EXCEPT !.op = "stop"]
  <2>1. /\ p.op = "stop" /\ p.at = "stop" /\ p.user = u /\ p.video = v /\ p.ids = {}
        /\ p.rows = {} /\ p.todo = {} /\ p.file = NoFile /\ p.files = {} /\ p.any = FALSE
    BY <1>1, <1>2, StepOK DEF RequestSet
  <2> HIDE DEF p
  <2>2. Paths(p) /\ Fits(p) BY <2>1, FS_EmptySet DEF Paths, Fits, NoFile, File
  <2> QED BY <2>2 DEF p
<1> QED BY <1>1, <1>3, <1>4, WatcherOK DEF StopSession

LEMMA RUpdatePlaybackHistory ==
  ASSUME RequestsOK, Store, NEW r \in Requests, UpdatePlaybackHistory(r)
  PROVE  RequestsOK'
<1>a. PICK rep \in Reports : Watcher(r, "playback", [Step("check") EXCEPT !.report = rep])
  BY DEF UpdatePlaybackHistory
<1>0. rep \in ReportSet BY LibraryAssumption DEF IdAssumption
<1> DEFINE q == [Step("check") EXCEPT !.report = rep]
<1>1. "check" \in Steps /\ "playback" \in Operations BY DEF Steps, Operations
<1>2. Step("check") \in RequestSet BY <1>1, StepOK
<1>3. q \in RequestSet BY <1>2, <1>a, <1>0 DEF RequestSet
<1>4. ASSUME NEW u \in Users, NEW v \in Videos
      PROVE  LET p == [[q EXCEPT !.user = u, !.video = v] EXCEPT !.op = "playback"] IN Paths(p) /\ Fits(p)
  <2> DEFINE p == [[q EXCEPT !.user = u, !.video = v] EXCEPT !.op = "playback"]
  <2>1. /\ p.op = "playback" /\ p.at = "check" /\ p.user = u /\ p.video = v /\ p.ids = {}
        /\ p.rows = {} /\ p.todo = {} /\ p.file = NoFile /\ p.files = {} /\ p.any = FALSE
    BY <1>1, <1>2, StepOK DEF RequestSet
  <2> HIDE DEF p
  <2>2. Paths(p) /\ Fits(p) BY <2>1, FS_EmptySet DEF Paths, Fits, NoFile, File
  <2> QED BY <2>2 DEF p
<1> QED BY <1>1, <1>3, <1>4, WatcherOK, <1>a, <1>0 DEF UpdatePlaybackHistory

-----------------------------------------------------------------------------
\* The tables: the types, and that the ids of videos are those given so far.

Numbered == \A v \in Existing : videos[v].id = v /\ v < seq.video

\* What an update of rows leaves as it is.
RowsKept ==
  /\ videos' \in [Videos -> Rows \cup {NoVideo}]
  /\ Existing' = Existing
  /\ \A v \in Existing : /\ videos'[v].id = videos[v].id /\ videos'[v].owner = videos[v].owner
                         /\ videos'[v].source = videos[v].source /\ videos'[v].file = videos[v].file

LEMMA RowIsNoVideo == ASSUME NEW row \in Rows PROVE row # NoVideo
BY VideosAre DEF Rows, NoVideo

LEMMA ExistingAre == ASSUME Store PROVE \A v \in Existing : v \in Videos /\ videos[v] \in Rows
BY DEF Store, Existing

\* The updates of rows by id keep them as RowsKept says.
LEMMA EditVideosKeeps ==
  ASSUME Store, NEW V, EditVideos(V)
  PROVE  RowsKept /\ \A v \in Existing \ V : videos'[v].edited = videos[v].edited
<1>1. \A v \in Existing : [videos[v] EXCEPT !.edited = @ + 1] \in Rows BY ExistingAre DEF Rows
<1>2. \A v \in Videos : videos'[v]
         = IF v \in V \cap Existing THEN [videos[v] EXCEPT !.edited = @ + 1] ELSE videos[v]
  BY DEF EditVideos, UpdateRows
<1>3. videos' \in [Videos -> Rows \cup {NoVideo}]
  <2>1. \A v \in Videos : videos'[v] \in Rows \cup {NoVideo} BY <1>1, <1>2 DEF Store
  <2> QED BY <2>1 DEF EditVideos, UpdateRows
<1>4. Existing' = Existing BY <1>1, <1>2, RowIsNoVideo DEF Existing
<1>5. \A v \in Existing : /\ videos'[v].id = videos[v].id /\ videos'[v].owner = videos[v].owner
                         /\ videos'[v].source = videos[v].source /\ videos'[v].file = videos[v].file
  BY <1>2, ExistingAre DEF Rows
<1>6. \A v \in Existing \ V : videos'[v].edited = videos[v].edited BY <1>2, ExistingAre
<1> QED BY <1>3, <1>4, <1>5, <1>6 DEF RowsKept

LEMMA ExifKeeps == ASSUME NEW row \in Rows, NEW b \in BOOLEAN PROVE [row EXCEPT !.exif = b] \in Rows
BY DEF Rows

LEMMA IncrementViewsKeeps ==
  ASSUME Store, NEW w, IncrementViews(w)
  PROVE  RowsKept /\ \A v \in Existing : videos'[v].edited = videos[v].edited
<1>1. \A v \in Existing : [videos[v] EXCEPT !.views = @ + 1] \in Rows BY ExistingAre DEF Rows
<1>2. \A v \in Videos : videos'[v]
         = IF v \in {w} \cap Existing THEN [videos[v] EXCEPT !.views = @ + 1] ELSE videos[v]
  BY DEF IncrementViews, UpdateRows
<1>3. videos' \in [Videos -> Rows \cup {NoVideo}]
  <2>1. \A v \in Videos : videos'[v] \in Rows \cup {NoVideo}
    <3> TAKE v \in Videos
    <3>1. videos[v] \in Rows \cup {NoVideo} BY DEF Store
    <3>2. CASE v \in {w} \cap Existing BY <3>2, <1>1, <1>2
    <3>3. CASE v \notin {w} \cap Existing BY <3>1, <3>3, <1>2
    <3> QED BY <3>2, <3>3
  <2> QED BY <2>1 DEF IncrementViews, UpdateRows
<1>4. Existing' = Existing BY <1>1, <1>2, RowIsNoVideo DEF Existing
<1>5. \A v \in Existing : /\ videos'[v].id = videos[v].id /\ videos'[v].owner = videos[v].owner
                         /\ videos'[v].source = videos[v].source /\ videos'[v].file = videos[v].file
                         /\ videos'[v].edited = videos[v].edited
  BY <1>2, ExistingAre DEF Rows
<1> QED BY <1>3, <1>4, <1>5 DEF RowsKept

LEMMA UpdateDurationKeeps ==
  ASSUME Store, NEW w, NEW n \in Nat, UpdateDuration(w, n)
  PROVE  RowsKept /\ \A v \in Existing : videos'[v].edited = videos[v].edited
<1>1. \A v \in Existing : [videos[v] EXCEPT !.length = n] \in Rows BY ExistingAre DEF Rows
<1>2. \A v \in Videos : videos'[v] = IF v \in {w} \cap Existing THEN [videos[v] EXCEPT !.length = n] ELSE videos[v]
  BY DEF UpdateDuration, UpdateRows
<1>3. videos' \in [Videos -> Rows \cup {NoVideo}]
  <2>1. \A v \in Videos : videos'[v] \in Rows \cup {NoVideo} BY <1>1, <1>2 DEF Store
  <2> QED BY <2>1 DEF UpdateDuration, UpdateRows
<1>4. Existing' = Existing BY <1>1, <1>2, RowIsNoVideo DEF Existing
<1>5. \A v \in Existing : /\ videos'[v].id = videos[v].id /\ videos'[v].owner = videos[v].owner
                         /\ videos'[v].source = videos[v].source /\ videos'[v].file = videos[v].file
                         /\ videos'[v].edited = videos[v].edited
  BY <1>2, ExistingAre DEF Rows
<1> QED BY <1>3, <1>4, <1>5 DEF RowsKept

LEMMA UpdateCoverUrlKeeps ==
  ASSUME Store, NEW w, NEW file \in FileSet, UpdateCoverUrl(w, file)
  PROVE  RowsKept /\ \A v \in Existing : videos'[v].edited = videos[v].edited
<1>1. \A v \in Existing : [videos[v] EXCEPT !.cover = file] \in Rows BY ExistingAre DEF Rows
<1>2. \A v \in Videos : videos'[v]
         = IF v \in {w} \cap Existing THEN [videos[v] EXCEPT !.cover = file] ELSE videos[v]
  BY DEF UpdateCoverUrl, UpdateRows
<1>3. videos' \in [Videos -> Rows \cup {NoVideo}]
  <2>1. \A v \in Videos : videos'[v] \in Rows \cup {NoVideo} BY <1>1, <1>2 DEF Store
  <2> QED BY <2>1 DEF UpdateCoverUrl, UpdateRows
<1>4. Existing' = Existing BY <1>1, <1>2, RowIsNoVideo DEF Existing
<1>5. \A v \in Existing : /\ videos'[v].id = videos[v].id /\ videos'[v].owner = videos[v].owner
                         /\ videos'[v].source = videos[v].source /\ videos'[v].file = videos[v].file
                         /\ videos'[v].edited = videos[v].edited
  BY <1>2, ExistingAre DEF Rows
<1> QED BY <1>3, <1>4, <1>5 DEF RowsKept

LEMMA UpdateThumbUrlKeeps ==
  ASSUME Store, NEW w, NEW file \in FileSet, UpdateThumbUrl(w, file)
  PROVE  RowsKept /\ \A v \in Existing : videos'[v].edited = videos[v].edited
<1>1. \A v \in Existing : [videos[v] EXCEPT !.thumb = file] \in Rows BY ExistingAre DEF Rows
<1>2. \A v \in Videos : videos'[v]
         = IF v \in {w} \cap Existing THEN [videos[v] EXCEPT !.thumb = file] ELSE videos[v]
  BY DEF UpdateThumbUrl, UpdateRows
<1>3. videos' \in [Videos -> Rows \cup {NoVideo}]
  <2>1. \A v \in Videos : videos'[v] \in Rows \cup {NoVideo} BY <1>1, <1>2 DEF Store
  <2> QED BY <2>1 DEF UpdateThumbUrl, UpdateRows
<1>4. Existing' = Existing BY <1>1, <1>2, RowIsNoVideo DEF Existing
<1>5. \A v \in Existing : /\ videos'[v].id = videos[v].id /\ videos'[v].owner = videos[v].owner
                         /\ videos'[v].source = videos[v].source /\ videos'[v].file = videos[v].file
                         /\ videos'[v].edited = videos[v].edited
  BY <1>2, ExistingAre DEF Rows
<1> QED BY <1>3, <1>4, <1>5 DEF RowsKept

LEMMA MarkExifExtractedKeeps ==
  ASSUME Store, NEW w, MarkExifExtracted(w)
  PROVE  RowsKept /\ \A v \in Existing : videos'[v].edited = videos[v].edited
<1>1. \A v \in Existing : [videos[v] EXCEPT !.exif = TRUE] \in Rows BY ExistingAre, ExifKeeps
<1>2. \A v \in Videos : videos'[v] = IF v \in {w} \cap Existing THEN [videos[v] EXCEPT !.exif = TRUE] ELSE videos[v]
  BY DEF MarkExifExtracted, UpdateRows
<1>3. videos' \in [Videos -> Rows \cup {NoVideo}]
  <2>1. \A v \in Videos : videos'[v] \in Rows \cup {NoVideo} BY <1>1, <1>2 DEF Store
  <2> QED BY <2>1 DEF MarkExifExtracted, UpdateRows
<1>4. Existing' = Existing BY <1>1, <1>2, RowIsNoVideo DEF Existing
<1>5. \A v \in Existing : /\ videos'[v].id = videos[v].id /\ videos'[v].owner = videos[v].owner
                         /\ videos'[v].source = videos[v].source /\ videos'[v].file = videos[v].file
                         /\ videos'[v].edited = videos[v].edited
  BY <1>2, ExistingAre DEF Rows
<1> QED BY <1>3, <1>4, <1>5 DEF RowsKept

\* The tables are in order after what leaves them alone, changes rows only as
\* RowsKept says, or changes only the disk.
LEMMA StoreSame ==
  ASSUME Store, Numbered,
         UNCHANGED <<videos, storage, disk, taken, seq, variants, progress, tasks, scene, detail>>
  PROVE  Store' /\ Numbered'
BY DEF Store, Numbered, Existing, Known

LEMMA StoreRows ==
  ASSUME Store, Numbered, RowsKept,
         UNCHANGED <<storage, disk, taken, seq, variants, progress, scene, detail>>, tasks' \subseteq tasks
  PROVE  Store' /\ Numbered'
BY DEF Store, Numbered, Known, RowsKept

LEMMA StoreDisk ==
  ASSUME Store, Numbered, UNCHANGED <<videos, storage, taken, variants, progress, tasks, detail>>,
         disk' \subseteq FileSet, IsFiniteSet(disk'), seq' \in SeqSet, seq'.video = seq.video,
         scene' \in SceneSet(scene')
  PROVE  Store' /\ Numbered'
BY DEF Store, Numbered, Known, Existing

LEMMA StoreFiles ==
  ASSUME Store, NEW f \in FileSet, NEW S
  PROVE  /\ disk \cup {f} \subseteq FileSet /\ IsFiniteSet(disk \cup {f})
         /\ disk \ S \subseteq FileSet /\ IsFiniteSet(disk \ S)
         /\ (disk \ S) \cup {f} \subseteq FileSet /\ IsFiniteSet((disk \ S) \cup {f})
BY FS_AddElement, FS_Subset DEF Store

LEMMA SceneOK ==
  ASSUME Store
  PROVE  scene.calls > 0 => [scene EXCEPT !.calls = @ - 1] \in SceneSet([scene EXCEPT !.calls = @ - 1])
<1>1. scene \in SceneSet(scene) BY DEF Store
<1> QED BY <1>1 DEF SceneSet

\* An upset leaves files, and forgets none that was left before.
LEMMA UpsetOK ==
  ASSUME Store, NEW F \in SUBSET FileSet, Upset(F)
  PROVE  scene' \in SceneSet(scene') /\ scene'.left = scene.left \cup F
<1>1. scene \in SceneSet(scene) BY DEF Store
<1>2. scene' = [scene EXCEPT !.upsets = scene.upsets - 1, !.left = scene.left \cup F] /\ scene.upsets > 0
  BY DEF Upset
<1>3. scene.left \cup F \in SUBSET FileSet /\ scene.upsets - 1 \in Nat BY <1>1, <1>2 DEF SceneSet
<1>4. PICK n, L : n = scene.upsets - 1 /\ L = scene.left \cup F OBVIOUS
<1>5. scene' = [scene EXCEPT !.upsets = n, !.left = L] BY <1>2, <1>4
<1>6. n \in Nat /\ L \in SUBSET FileSet BY <1>3, <1>4
<1>7. scene'.left = L /\ scene'.menu = scene.menu /\ scene'.asked = scene.asked BY <1>1, <1>5 DEF SceneSet
<1>8. scene' \in SceneSet(scene) BY ONLY <1>1, <1>5, <1>6 DEF SceneSet
<1> QED BY <1>4, <1>7, <1>8 DEF SceneSet

\* What a removal should have removed is removed or left.
LEMMA RemoveOK ==
  ASSUME Store, NEW F \in SUBSET FileSet, RemoveFiles(F)
  PROVE  /\ disk' \subseteq disk /\ disk \ F \subseteq disk'
         /\ scene' \in SceneSet(scene') /\ scene.left \subseteq scene'.left
         /\ F \cap disk' \subseteq scene'.left
<1>1. CASE disk' = disk \ F /\ UNCHANGED scene BY <1>1 DEF Store
<1>2. ASSUME NEW kept \in SUBSET (F \cap disk), Upset(kept), disk' = disk \ (F \ kept)
      PROVE  /\ disk' \subseteq disk /\ disk \ F \subseteq disk'
             /\ scene' \in SceneSet(scene') /\ scene.left \subseteq scene'.left
             /\ F \cap disk' \subseteq scene'.left
  <2>1. scene' \in SceneSet(scene') /\ scene'.left = scene.left \cup kept BY <1>2, UpsetOK
  <2> QED BY <1>2, <2>1
<1> QED BY <1>1, <1>2 DEF RemoveFiles

LEMMA StoreScene ==
  ASSUME Store, Numbered, UNCHANGED <<videos, storage, disk, taken, seq, variants, progress, tasks, detail>>,
         scene' \in SceneSet(scene')
  PROVE  Store' /\ Numbered'
BY DEF Store, Numbered, Existing, Known

\* A step that only reads, or only moves its request on.
LEMMA SQuiet == ASSUME Store, Numbered, Quiet PROVE Store' /\ Numbered'
BY StoreSame DEF Quiet, attached, world, caches, history

LEMMA SSessionStep ==
  ASSUME RequestsOK, Store, Numbered, NEW r \in Requests, SessionStep(r)
  PROVE  Store' /\ Numbered'
BY StoreSame DEF SessionStep, Upset, attached, world, caches, history

LEMMA SFillList ==
  ASSUME RequestsOK, Store, Numbered, NEW r \in Requests, FillList(r)
  PROVE  Store' /\ Numbered'
BY StoreSame DEF FillList, Upset, attached, world, caches, history

LEMMA SRefresh ==
  ASSUME RequestsOK, Store, Numbered, NEW r \in Requests, Refresh(r)
  PROVE  Store' /\ Numbered'
BY DEF Refresh, InvalidateCaches, Store, Numbered, Existing, Known, attached, world, caches, history

LEMMA SInvalidateFirst ==
  ASSUME RequestsOK, Store, Numbered, NEW r \in Requests, InvalidateFirst(r)
  PROVE  Store' /\ Numbered'
BY DEF InvalidateFirst, InvalidateCaches, Store, Numbered, Existing, Known, attached, world, caches, history

LEMMA SSaved ==
  ASSUME RequestsOK, Store, Numbered, NEW r \in Requests, Saved(r)
  PROVE  Store' /\ Numbered'
BY DEF Saved, InvalidateCaches, Store, Numbered, Existing, Known, attached, world, caches, history

LEMMA SEditStep ==
  ASSUME RequestsOK, Store, Numbered, NEW r \in Requests, EditStep(r)
  PROVE  Store' /\ Numbered'
BY StoreRows, EditVideosKeeps DEF EditStep, attached, world, caches, history

LEMMA SViewStep ==
  ASSUME RequestsOK, Store, Numbered, NEW r \in Requests, ViewStep(r)
  PROVE  Store' /\ Numbered'
BY StoreRows, IncrementViewsKeeps DEF ViewStep, attached, world, caches, history

LEMMA SReadExif ==
  ASSUME RequestsOK, Store, Numbered, NEW r \in Requests, ReadExif(r)
  PROVE  Store' /\ Numbered'
BY StoreRows, MarkExifExtractedKeeps DEF ReadExif, attached, world, caches, history

LEMMA SCoverUrl ==
  ASSUME RequestsOK, Store, Numbered, NEW r \in Requests, CoverUrl(r)
  PROVE  Store' /\ Numbered'
<1>1. req[r].file \in FileSet BY RequestOK DEF RequestSet
<1> QED BY <1>1, StoreRows, UpdateCoverUrlKeeps DEF CoverUrl, attached, world, caches, history

LEMMA SNewCover ==
  ASSUME RequestsOK, Store, Numbered, NEW r \in Requests, NewCover(r)
  PROVE  Store' /\ Numbered'
<1>1. req[r].file \in FileSet BY RequestOK DEF RequestSet
<1>2. CASE UpdateCoverUrl(req[r].video, req[r].file) /\ UNCHANGED scene
  BY <1>1, <1>2, StoreRows, UpdateCoverUrlKeeps DEF NewCover, attached, world, caches, history
<1>3. CASE Upset({}) /\ UNCHANGED videos
  BY <1>3, StoreScene, UpsetOK DEF NewCover, attached, world, caches, history
<1> QED BY <1>2, <1>3 DEF NewCover

LEMMA SThumbUrl ==
  ASSUME RequestsOK, Store, Numbered, NEW r \in Requests, ThumbUrl(r)
  PROVE  Store' /\ Numbered'
<1>1. req[r].file \in FileSet BY RequestOK DEF RequestSet
<1> QED BY <1>1, StoreRows, UpdateThumbUrlKeeps DEF ThumbUrl, attached, world, caches, history

LEMMA SDiscard ==
  ASSUME RequestsOK, Store, Numbered, NEW r \in Requests, Discard(r)
  PROVE  Store' /\ Numbered'
<1>1. RemoveFiles(req[r].files) /\ seq' = seq BY DEF Discard
<1>2. req[r].files \in SUBSET FileSet BY RequestOK DEF RequestSet
<1>3. disk' \subseteq disk /\ scene' \in SceneSet(scene') BY <1>1, <1>2, RemoveOK
<1>4. disk' \subseteq FileSet /\ IsFiniteSet(disk') BY <1>3, FS_Subset DEF Store
<1>5. UNCHANGED <<videos, storage, taken, variants, progress, tasks, detail>>
  BY DEF Discard, attached, world, caches, history
<1> QED BY <1>1, <1>3, <1>4, <1>5, StoreDisk DEF Store

LEMMA SSaveFails ==
  ASSUME RequestsOK, Store, Numbered, NEW r \in Requests, SaveFails(r)
  PROVE  Store' /\ Numbered'
BY StoreScene, UpsetOK DEF SaveFails, attached, world, caches, history

\* What a dropped request leaves are files.
LEMMA LooseOK == ASSUME RequestsOK, NEW r \in Requests PROVE Loose(r) \in SUBSET FileSet
<1>1. req[r].file \in FileSet /\ req[r].files \in SUBSET FileSet BY RequestOK DEF RequestSet
<1>2. CASE At(r, "save") BY <1>1, <1>2 DEF Loose, At
<1>3. CASE ~At(r, "save") /\ req[r].at \in {"discard", "unlink"} BY <1>1, <1>3 DEF Loose
<1>4. CASE ~At(r, "save") /\ req[r].at \notin {"discard", "unlink"} BY <1>1, <1>4 DEF Loose
<1> QED BY <1>2, <1>3, <1>4

LEMMA SDrop ==
  ASSUME RequestsOK, Store, Numbered, NEW r \in Requests, Drop(r)
  PROVE  Store' /\ Numbered'
BY LooseOK, StoreScene, UpsetOK DEF Drop, attached, world, history

LEMMA STimePasses ==
  ASSUME RequestsOK, Store, Numbered, TimePasses
  PROVE  Store' /\ Numbered'
<1>1. scene' \in SceneSet(scene') BY UpsetOK DEF TimePasses
<1> QED BY <1>1 DEF TimePasses, Store, Numbered, Existing, Known, attached, world, caches, history

LEMMA SLoseFile ==
  ASSUME RequestsOK, Store, Numbered, LoseFile
  PROVE  Store' /\ Numbered'
<1>1. disk' \subseteq FileSet /\ IsFiniteSet(disk') /\ taken' \subseteq FileSet
  BY FS_Subset DEF LoseFile, Store
<1>2. scene' \in SceneSet(scene') BY UpsetOK DEF LoseFile
<1> QED BY <1>1, <1>2 DEF LoseFile, Store, Numbered, Existing, Known, attached, world, caches, history

LEMMA SRestoreFile ==
  ASSUME RequestsOK, Store, Numbered, RestoreFile
  PROVE  Store' /\ Numbered'
<1>1. disk' \subseteq FileSet /\ IsFiniteSet(disk')
  <2>1. PICK f \in taken \ disk : disk' = disk \cup {f} BY DEF RestoreFile
  <2>2. f \in FileSet BY DEF Store
  <2> QED BY <2>1, <2>2, StoreFiles
<1>2. scene' \in SceneSet(scene') BY UpsetOK DEF RestoreFile
<1> QED BY <1>1, <1>2 DEF RestoreFile, Store, Numbered, Existing, Known, attached, world, caches, history

LEMMA SUnlink ==
  ASSUME RequestsOK, Store, Numbered, NEW r \in Requests, Unlink(r)
  PROVE  Store' /\ Numbered'
<1>1. RemoveFiles(req[r].files) /\ seq' = seq BY DEF Unlink
<1>2. req[r].files \in SUBSET FileSet BY RequestOK DEF RequestSet
<1>3. disk' \subseteq disk /\ scene' \in SceneSet(scene') BY <1>1, <1>2, RemoveOK
<1>4. disk' \subseteq FileSet /\ IsFiniteSet(disk') BY <1>3, FS_Subset DEF Store
<1>5. UNCHANGED <<videos, storage, taken, variants, progress, tasks, detail>>
  BY DEF Unlink, attached, world, caches, history
<1> QED BY <1>1, <1>3, <1>4, <1>5, StoreDisk DEF Store

LEMMA SRenameStep ==
  ASSUME RequestsOK, Store, Numbered, NEW r \in Requests, RenameStep(r)
  PROVE  Store' /\ Numbered'
<1> DEFINE file == DestName(req[r].file.content)
<1>1. file \in FileSet
  BY RequestOK DEF RenameStep, DestName, File, FileSet, Kinds, Store, SeqSet, RequestSet, Fits, At
<1>2. disk \cup {file} \subseteq FileSet /\ IsFiniteSet(disk \cup {file}) BY <1>1, StoreFiles
<1>3. seq' \in SeqSet /\ seq'.video = seq.video BY DEF RenameStep, Store, SeqSet
<1>4. disk' = disk \cup {file} BY DEF RenameStep
<1>5. scene' \in SceneSet(scene') BY DEF RenameStep, Store
<1> HIDE DEF file
<1> QED BY <1>2, <1>3, <1>4, <1>5, StoreDisk DEF RenameStep, attached, world, caches, history

LEMMA STmpCover ==
  ASSUME RequestsOK, Store, Numbered, NEW r \in Requests, TmpCover(r)
  PROVE  Store' /\ Numbered'
<1> DEFINE file == File("tmpcover", seq.file, None)
<1>1. file \in FileSet BY DEF File, FileSet, Kinds, Store, SeqSet, None
<1>2. disk \cup {file} \subseteq FileSet /\ IsFiniteSet(disk \cup {file}) BY <1>1, StoreFiles
<1>3. seq' \in SeqSet /\ seq'.video = seq.video BY DEF TmpCover, Store, SeqSet
<1>4. disk' = disk \cup {file} BY DEF TmpCover
<1>5. scene' \in SceneSet(scene') BY DEF TmpCover, Store
<1> HIDE DEF file
<1> QED BY <1>2, <1>3, <1>4, <1>5, StoreDisk DEF TmpCover, attached, world, caches, history

LEMMA SPlaceCover ==
  ASSUME RequestsOK, Store, Numbered, NEW r \in Requests, PlaceCover(r)
  PROVE  Store' /\ Numbered'
<1> DEFINE file == File("newcover", req[r].file.n, None)
           old == req[r].file
<1>1. file \in FileSet /\ old \in FileSet BY RequestOK DEF RequestSet, File, FileSet, Kinds, None
<1>2. (disk' = (disk \ {old}) \cup {file} /\ UNCHANGED scene) \/ RemoveFiles({old}) BY DEF PlaceCover
<1> HIDE DEF file, old
<1>3. CASE disk' = (disk \ {old}) \cup {file} /\ UNCHANGED scene
  <2>1. disk' \subseteq FileSet /\ IsFiniteSet(disk') /\ scene' \in SceneSet(scene')
    BY <1>1, <1>3, StoreFiles DEF Store
  <2> QED BY <2>1, StoreDisk DEF PlaceCover, Store, attached, world, caches, history
<1>4. CASE RemoveFiles({old})
  <2>1. disk' \subseteq disk /\ scene' \in SceneSet(scene') BY <1>1, <1>4, RemoveOK
  <2>2. disk' \subseteq FileSet /\ IsFiniteSet(disk') BY <2>1, FS_Subset DEF Store
  <2> QED BY <2>1, <2>2, StoreDisk DEF PlaceCover, Store, attached, world, caches, history
<1> QED BY <1>2, <1>3, <1>4

LEMMA SFfmpegStep ==
  ASSUME RequestsOK, Store, Numbered, NEW r \in Requests, FfmpegStep(r)
  PROVE  Store' /\ Numbered'
<1> DEFINE file == IF IsImageSource(Row(r)) THEN ThumbOf(Row(r).id) ELSE CoverOf(Row(r).id)
<1>0. Row(r) \in Rows
  <2>1. req[r].rows # {} /\ req[r].rows \subseteq Rows BY RequestOK DEF FfmpegStep, At, Fits, RequestSet
  <2> QED BY <2>1 DEF Row
<1>1. file \in FileSet BY <1>0, VideosAre, NamesOK DEF Rows
<1>2. disk' = disk \cup {file} \/ disk' = disk BY DEF FfmpegStep
<1> HIDE DEF file
<1>3. disk' \subseteq FileSet /\ IsFiniteSet(disk') BY <1>1, <1>2, StoreFiles DEF Store
<1> QED BY <1>3, StoreDisk DEF FfmpegStep, Store, attached, world, caches, history

LEMMA SScaleCover ==
  ASSUME RequestsOK, Store, Numbered, NEW r \in Requests, ScaleCover(r)
  PROVE  Store' /\ Numbered'
<1> DEFINE file == ThumbOf(req[r].video)
<1>1. file \in FileSet BY RequestOK, VideosAre, NamesOK DEF RequestSet
<1>2. disk' = disk \cup {file} \/ disk' = disk BY DEF ScaleCover
<1> HIDE DEF file
<1>3. disk' \subseteq FileSet /\ IsFiniteSet(disk') BY <1>1, <1>2, StoreFiles DEF Store
<1> QED BY <1>3, StoreDisk DEF ScaleCover, Store, attached, world, caches, history

LEMMA SFill ==
  ASSUME RequestsOK, Store, Numbered, NEW r \in Requests, Fill(r)
  PROVE  Store' /\ Numbered'
<1>0. Row(r) \in Rows
  <2>1. req[r].rows # {} /\ req[r].rows \subseteq Rows BY RequestOK DEF Fill, At, Fits, RequestSet
  <2> QED BY <2>1 DEF Row
<1>1. detail' \in [Videos -> Rows \cup {NoVideo}] BY <1>0 DEF Fill, Store, Rows
<1> QED BY <1>1 DEF Fill, Store, Numbered, Existing, Known, attached, world, caches, history

LEMMA SUpsert ==
  ASSUME RequestsOK, Store, Numbered, NEW r \in Requests, Upsert(r)
  PROVE  Store' /\ Numbered'
<1>0. req[r].op = "playback" BY RequestOK DEF Upsert, At, Paths
<1>1. req[r].user \in Users /\ req[r].video \in Videos /\ req[r].report \in ReportSet
  BY <1>0, RequestOK DEF Fits, RequestSet
<1> DEFINE u == req[r].user
           v == req[r].video
           p == req[r].report
<1>2. progress' = progress \/ progress' = [progress EXCEPT ![u][v] = p] BY Zenon DEF Upsert, UpsertPlayback
<1>3. u \in Users /\ v \in Videos /\ p \in ReportSet BY <1>1
<1>4. progress \in [Users -> [Videos -> ReportSet]] BY DEF Store
<1> HIDE DEF u, v, p
<1>5. [progress EXCEPT ![u][v] = p] \in [Users -> [Videos -> ReportSet]] BY <1>3, <1>4
<1>6. progress' \in [Users -> [Videos -> ReportSet]] BY <1>2, <1>4, <1>5
<1> QED BY <1>6 DEF Upsert, Store, Numbered, Existing, Known, attached, world, caches, history

LEMMA SRunTask ==
  ASSUME RequestsOK, Store, Numbered, RunTask
  PROVE  Store' /\ Numbered'
<1>1. PICK t \in tasks : /\ tasks' = tasks \ {t}
                        /\ \/ UNCHANGED videos
                           \/ UpdateDuration(t.video, Seconds)
                           \/ MarkExifExtracted(t.video)
  BY DEF RunTask
<1>2. Seconds \in Nat BY LibraryAssumption DEF IdAssumption
<1>3. CASE UNCHANGED videos
  BY <1>1, <1>3 DEF RunTask, Store, Numbered, Existing, Known, attached, world, caches, history
<1>4. CASE ~UNCHANGED videos
  <2>1. RowsKept BY <1>1, <1>2, <1>4, UpdateDurationKeeps, MarkExifExtractedKeeps
  <2> QED BY <1>1, <2>1, StoreRows DEF RunTask, attached, world, caches, history
<1> QED BY <1>3, <1>4

\* The files of a scan are put in an order, each once.
LEMMA SetToSeqOK ==
  ASSUME NEW S, IsFiniteSet(S)
  PROVE  /\ SetToSeq(S) \in [1..Cardinality(S) -> S]
         /\ \A i, j \in 1..Cardinality(S) : SetToSeq(S)[i] = SetToSeq(S)[j] => i = j
         /\ \A x \in S : \E i \in 1..Cardinality(S) : SetToSeq(S)[i] = x
         /\ Cardinality(S) \in Nat
<1> DEFINE I == 1..Cardinality(S)
           f == SetToSeq(S)
<1>0. Cardinality(S) \in Nat /\ ExistsBijection(I, S) BY FS_CardinalityType
<1>1. \E g \in [I -> S] : IsInjective(g)
  BY <1>0 DEF ExistsBijection, Bijection, Injection, IsInjective
<1>2. f \in [I -> S] /\ IsInjective(f) BY <1>1 DEF SetToSeq
<1>3. IsFiniteSet(I) /\ Cardinality(I) = Cardinality(S) BY <1>0, FS_Interval
<1>4. \A i, j \in I : f[i] = f[j] => i = j BY <1>2 DEF IsInjective
<1> HIDE DEF f, I
<1>5. f \in Injection(I, S) BY <1>2 DEF Injection
<1>6. f \in Surjection(I, S) BY <1>3, <1>5, FS_Injection
<1>7. \A x \in S : \E i \in I : f[i] = x BY <1>6 DEF Surjection
<1> USE DEF f, I
<1> QED BY <1>0, <1>2, <1>4, <1>7

\* A new row is a row, and the picture of an image that is adopted changes no more.
LEMMA NewVideoOK ==
  ASSUME NEW id \in Videos, NEW u \in Users \cup {0}, NEW source \in {"local_video", "local_image", "external"},
         NEW f \in FileSet, NEW h \in Contents \cup {None}
  PROVE  /\ NewVideo(id, u, source, f, h) \in Rows
         /\ NewVideo(id, u, source, f, h).cover = NoFile /\ NewVideo(id, u, source, f, h).thumb = NoFile
         /\ NewVideo(id, u, source, f, h).id = id /\ NewVideo(id, u, source, f, h).owner = u
         /\ NewVideo(id, u, source, f, h).source = source /\ NewVideo(id, u, source, f, h).file = f
         /\ NewVideo(id, u, source, f, h).hash = h
<1>1. NoFile \in FileSet BY DEF NoFile, File, FileSet, None
<1> QED BY <1>1 DEF NewVideo, Rows

LEMMA PictureKeeps ==
  ASSUME NEW row \in Rows, NEW b \in BOOLEAN, NEW f \in FileSet
  PROVE  /\ [row EXCEPT !.thumb = f, !.exif = b] \in Rows
         /\ [row EXCEPT !.thumb = f, !.exif = b].thumb = f
         /\ [row EXCEPT !.thumb = f, !.exif = b].cover = row.cover
         /\ [row EXCEPT !.thumb = f, !.exif = b].id = row.id
         /\ [row EXCEPT !.thumb = f, !.exif = b].owner = row.owner
         /\ [row EXCEPT !.thumb = f, !.exif = b].source = row.source
         /\ [row EXCEPT !.thumb = f, !.exif = b].file = row.file
         /\ [row EXCEPT !.exif = b] \in Rows
         /\ [row EXCEPT !.exif = b].thumb = row.thumb
         /\ [row EXCEPT !.exif = b].cover = row.cover
         /\ [row EXCEPT !.exif = b].id = row.id
         /\ [row EXCEPT !.exif = b].owner = row.owner
         /\ [row EXCEPT !.exif = b].source = row.source
         /\ [row EXCEPT !.exif = b].file = row.file
BY DEF Rows

LEMMA AdoptedKeeps ==
  ASSUME NEW row \in Rows, NEW f \in FileSet, NEW new,
         new = [row EXCEPT !.thumb = f, !.exif = TRUE] \/ new = [row EXCEPT !.exif = TRUE]
  PROVE  /\ new \in Rows /\ new.id = row.id /\ new.owner = row.owner /\ new.file = row.file
         /\ new.source = row.source /\ new.cover = row.cover /\ new.thumb \in {row.thumb, f}
<1>1. CASE new = [row EXCEPT !.thumb = f, !.exif = TRUE] BY <1>1, PictureKeeps, TRUE \in BOOLEAN
<1>2. CASE new = [row EXCEPT !.exif = TRUE] BY <1>2, PictureKeeps, TRUE \in BOOLEAN
<1> QED BY <1>1, <1>2

\* The ids from the next one on are free.
LEMMA NumberedBelow == ASSUME Numbered, NEW v \in Videos, Store, v >= seq.video PROVE videos[v] = NoVideo
BY VideosAre DEF Numbered, Existing, Store, SeqSet

\* The rows of a scan: one for each file, with the next ids.
LEMMA AdoptedRows ==
  ASSUME Store, Numbered, NEW files \in SUBSET FileSet, IsFiniteSet(files), BatchSaveLocalVideos(files)
  PROVE  /\ videos' \in [Videos -> Rows \cup {NoVideo}]
         /\ \A v \in Videos : v < seq.video => videos'[v] = videos[v]
         /\ \A v \in Existing' : v >= seq.video => /\ v < seq'.video /\ videos'[v].id = v /\ videos'[v].owner = 0
                                         /\ videos'[v].file \in files /\ IsLocal(videos'[v])
                                         /\ videos'[v].cover = NoFile
                                         /\ videos'[v].thumb \in {NoFile, videos'[v].file}
         /\ \A v, w \in Existing' : v >= seq.video /\ w >= seq.video /\ videos'[v].file = videos'[w].file => v = w
         /\ seq' = [seq EXCEPT !.video = @ + Cardinality(files)]
         /\ Cardinality(files) \in Nat
         /\ 1..(seq.video + Cardinality(files) - 1) \subseteq Videos
<1> DEFINE at == SetToSeq(files)
           N == Cardinality(files)
           new(i) == NewVideo(seq.video + i - 1, 0, SourceOf(at[i]), at[i], at[i].content)
           row(i) == IF IsImageSource(new(i)) THEN [new(i) EXCEPT !.thumb = at[i], !.exif = TRUE]
                      ELSE [new(i) EXCEPT !.exif = TRUE]
<1>1. /\ at \in [1..N -> files]
      /\ \A i, j \in 1..N : at[i] = at[j] => i = j
      /\ N \in Nat
  BY SetToSeqOK
<1>2. videos' = [v \in Videos |-> IF v - seq.video + 1 \in 1..N /\ v >= seq.video
                                  THEN row(v - seq.video + 1) ELSE videos[v]]
  BY DEF BatchSaveLocalVideos
<1>3. seq' = [seq EXCEPT !.video = @ + N] /\ RoomFor(N) BY DEF BatchSaveLocalVideos
<1>4. seq.video \in Nat \ {0} BY DEF Store, SeqSet
<1>5. 1..(seq.video + N - 1) \subseteq Videos
  <2>1. CASE N = 0 BY <2>1, <1>4 DEF Store, Known
  <2>2. CASE N # 0
    BY <2>2, <1>1, <1>3, <1>4, LibraryAssumption, VideosAre, FS_CardinalityType DEF RoomFor, IdAssumption
  <2> QED BY <2>1, <2>2
<1>6. \A i \in 1..N : /\ row(i) \in Rows /\ row(i).id = seq.video + i - 1 /\ row(i).owner = 0 /\ row(i).file = at[i]
                      /\ IsLocal(row(i)) /\ row(i).cover = NoFile /\ row(i).thumb \in {NoFile, at[i]}
  <2> TAKE i \in 1..N
  <2>1. seq.video + i - 1 \in Videos /\ at[i] \in FileSet BY <1>1, <1>4, <1>5
  <2>2. at[i].content \in Contents \cup {None} BY <2>1 DEF FileSet
  <2>3. SourceOf(at[i]) \in {"local_video", "local_image"} BY DEF SourceOf
  <2>4. /\ new(i) \in Rows /\ new(i).id = seq.video + i - 1 /\ new(i).owner = 0 /\ new(i).file = at[i]
        /\ new(i).source = SourceOf(at[i]) /\ new(i).cover = NoFile /\ new(i).thumb = NoFile
    BY <2>1, <2>2, <2>3, NewVideoOK
  <2>5. row(i) = [new(i) EXCEPT !.thumb = at[i], !.exif = TRUE] \/ row(i) = [new(i) EXCEPT !.exif = TRUE] OBVIOUS
  <2> HIDE DEF new, at, row
  <2>6. /\ row(i) \in Rows /\ row(i).id = new(i).id /\ row(i).owner = new(i).owner
        /\ row(i).file = new(i).file
        /\ row(i).source = new(i).source /\ row(i).cover = new(i).cover
        /\ row(i).thumb \in {new(i).thumb, at[i]}
    <3> DEFINE n == new(i)
               f == at[i]
               p == row(i)
    <3>1. n \in Rows /\ f \in FileSet BY <2>1, <2>4
    <3>2. p = [n EXCEPT !.thumb = f, !.exif = TRUE] \/ p = [n EXCEPT !.exif = TRUE] BY <2>5
    <3> HIDE DEF n, f, p
    <3>3. /\ p \in Rows /\ p.id = n.id /\ p.owner = n.owner /\ p.file = n.file
          /\ p.source = n.source /\ p.cover = n.cover /\ p.thumb \in {n.thumb, f}
      BY <3>1, <3>2, AdoptedKeeps
    <3> QED BY <3>3 DEF n, f, p
  <2> QED BY <2>3, <2>4, <2>6 DEF IsLocal
<1>7. \A v \in Videos : /\ v < seq.video => videos'[v] = videos[v]
                        /\ v >= seq.video + N => videos'[v] = videos[v]
                        /\ v >= seq.video /\ v < seq.video + N =>
                             v - seq.video + 1 \in 1..N /\ videos'[v] = row(v - seq.video + 1)
  <2> HIDE DEF row, N
  <2> QED BY <1>1, <1>2, <1>4, VideosAre
<1>8. \A v \in Videos : v >= seq.video + N => videos[v] = NoVideo
  BY <1>1, <1>4, VideosAre, NumberedBelow
<1> HIDE DEF row, N, at
<1>9. \A v \in Videos : videos'[v] \in Rows \cup {NoVideo}
  <2> TAKE v \in Videos
  <2>1. v \in Nat BY VideosAre
  <2>2. CASE v < seq.video \/ v >= seq.video + N BY <2>2, <1>7 DEF Store
  <2>3. CASE v >= seq.video /\ v < seq.video + N BY <2>3, <1>6, <1>7
  <2> QED BY <2>1, <2>2, <2>3, <1>1, <1>4 DEF N
<1>10. videos' \in [Videos -> Rows \cup {NoVideo}] BY <1>2, <1>9
<1>11. \A v \in Existing' : v >= seq.video =>
         v < seq.video + N /\ v - seq.video + 1 \in 1..N /\ videos'[v] = row(v - seq.video + 1)
  BY <1>1, <1>4, <1>7, <1>8, VideosAre DEF Existing
<1>12. seq'.video = seq.video + N BY <1>3 DEF Store, SeqSet
<1>13. \A v \in Existing' : v \in Nat BY VideosAre DEF Existing
<1>14. \A v, w \in Existing' : v >= seq.video /\ w >= seq.video /\ videos'[v].file = videos'[w].file => v = w
  <2> TAKE v, w \in Existing'
  <2> HAVE v >= seq.video /\ w >= seq.video /\ videos'[v].file = videos'[w].file
  <2> DEFINE i == v - seq.video + 1
             j == w - seq.video + 1
  <2>1. i \in 1..N /\ j \in 1..N /\ videos'[v] = row(i) /\ videos'[w] = row(j) BY <1>11
  <2>2. v \in Nat /\ w \in Nat /\ (i = j => v = w) BY <1>4, <1>13
  <2> HIDE DEF i, j
  <2>3. at[i] = at[j] BY <1>6, <2>1
  <2> QED BY <1>1, <2>1, <2>2, <2>3
<1>15. \A v \in Existing' : v >= seq.video => /\ v < seq'.video /\ videos'[v].id = v /\ videos'[v].owner = 0
                                   /\ videos'[v].file \in files /\ IsLocal(videos'[v])
                                   /\ videos'[v].cover = NoFile
                                   /\ videos'[v].thumb \in {NoFile, videos'[v].file}
  BY <1>1, <1>4, <1>6, <1>11, <1>12, <1>13
<1> USE DEF N
<1> QED BY <1>1, <1>3, <1>5, <1>7, <1>10, <1>14, <1>15

\* A call changes the scene, and no table.
LEMMA CallStore ==
  ASSUME Store, Numbered, NEW r \in Requests, NEW op, NEW q, Free(r), Call(r, op, q)
  PROVE  Store' /\ Numbered'
BY StoreScene, SceneOK DEF Free, Call, attached, world, caches, history

LEMMA SArrive ==
  ASSUME Store, Numbered, NEW r \in Requests, Arrive(r)
  PROVE  Store' /\ Numbered'
<1>1. Free(r) BY DEF Arrive
<1>2. \E op, q : Call(r, op, q)
  BY DEF Arrive, UploadVideo, AddExternalVideo, ScanMedia, DeleteVideo, DeleteVideos, UpdateVideo,
     BatchUpdateCategory,
         UploadCover, BackfillThumbnails, BackfillExif, SweepMissing, GetVideo, ListVideos, ViewVideo,
         BurnVideo, UpdatePlaybackHistory, StartSession, Heartbeat, StopSession, Watcher
<1> QED BY <1>1, <1>2, CallStore

LEMMA SEngage ==
  ASSUME Store, Numbered, NEW r \in Requests, Engage(r)
  PROVE  Store' /\ Numbered'
<1>1. Free(r) BY DEF Engage
<1>2. \E op, q : Call(r, op, q)
  BY DEF Engage, ToggleLike, ToggleFavorite, CreateComment, DeleteComment, CreateDanmaku, CreateTag,
     DeleteTag, AddTags,
         RemoveTags, CreatePlaylist, DeletePlaylist, BatchAddVideos, RemoveVideoFromPlaylist, ReorderPlaylist,
         CreateShareLink, DeleteShareLink, RevokeMyShare, Watcher, Guarded, OnList
<1> QED BY <1>1, <1>2, CallStore

LEMMA RoomOK ==
  ASSUME Store, RoomFor(1)
  PROVE  seq.video \in Videos /\ 1..seq.video \subseteq Videos /\ [seq EXCEPT !.video = @ + 1] \in SeqSet
<1>1. seq \in SeqSet BY DEF Store
<1>2. seq.video \in Videos BY <1>1 DEF RoomFor, SeqSet
<1>3. 1..seq.video \subseteq Videos
  BY <1>1, <1>2, LibraryAssumption, FS_CardinalityType DEF SeqSet, IdAssumption
<1> QED BY <1>1, <1>2, <1>3 DEF SeqSet

\* A new row with the next id.
LEMMA OneMoreRow ==
  ASSUME Store, Numbered, RoomFor(1), NEW row \in Rows, row.id = seq.video,
         videos' = [videos EXCEPT ![seq.video] = row], seq' = [seq EXCEPT !.video = @ + 1],
         storage' \in [Users -> Nat], tasks' \subseteq TaskSet,
         UNCHANGED <<disk, taken, variants, progress, scene, detail>>
  PROVE  /\ Store' /\ Numbered'
         /\ Existing' = Existing \cup {seq.video} /\ seq.video \notin Existing
         /\ \A v \in Existing : videos'[v] = videos[v]
<1>1. seq.video \in Videos /\ 1..seq.video \subseteq Videos /\ seq' \in SeqSet /\ seq.video \in Nat
  BY RoomOK, VideosAre
<1>2. seq'.video = seq.video + 1 BY <1>1 DEF Store, SeqSet
<1>3. Known' \subseteq Videos BY <1>1, <1>2 DEF Known
<1>4. videos' \in [Videos -> Rows \cup {NoVideo}] BY DEF Store
<1>5. seq.video \notin Existing BY <1>1 DEF Numbered
<1>6. Existing' = Existing \cup {seq.video} BY <1>1, RowIsNoVideo DEF Store, Existing
<1>7. \A v \in Existing : videos'[v] = videos[v] BY <1>5 DEF Existing, Store
<1>8. videos'[seq.video] = row BY <1>1 DEF Store
<1>9. Numbered' BY <1>1, <1>2, <1>6, <1>7, <1>8, VideosAre DEF Numbered, Existing
<1> QED BY <1>1, <1>3, <1>4, <1>5, <1>6, <1>7, <1>9 DEF Store

LEMMA SExternalStep ==
  ASSUME RequestsOK, Store, Numbered, NEW r \in Requests, ExternalStep(r)
  PROVE  Store' /\ Numbered'
<1> DEFINE u == req[r].user
           row == NewVideo(seq.video, u, "external", NoFile, None)
<1>1. seq.video \in Videos BY RoomOK DEF ExternalStep, SaveExternalVideo
<1>2. u \in Users \cup {0} /\ NoFile \in FileSet
  BY RequestOK DEF RequestSet, NoFile, File, FileSet, None
<1>3. row \in Rows /\ row.id = seq.video BY <1>1, <1>2, NewVideoOK
<1>4. RoomFor(1) /\ videos' = [videos EXCEPT ![seq.video] = row] /\ seq' = [seq EXCEPT !.video = @ + 1]
  BY DEF ExternalStep, SaveExternalVideo
<1>5. UNCHANGED <<storage, disk, taken, variants, progress, tasks, scene, detail>>
  BY DEF ExternalStep, attached, world, caches, history
<1> HIDE DEF row
<1> QED BY <1>3, <1>4, <1>5, OneMoreRow DEF Store

\* A row with a file of the uploader.
LEMMA SavedRow ==
  ASSUME RequestsOK, Store, NEW r \in Requests, At(r, "save"), RoomFor(1)
  PROVE  LET u == req[r].user
             file == req[r].file
             row == NewVideo(seq.video, u, SourceOf(file), file, file.content)
         IN /\ u \in Users /\ file \in FileSet /\ file.kind = "media" /\ file.content \in Contents
            /\ row \in Rows /\ row.id = seq.video /\ row.owner = u /\ row.file = file /\ IsLocal(row)
            /\ row.cover = NoFile /\ row.thumb = NoFile /\ row.hash = file.content
<1> DEFINE u == req[r].user
           file == req[r].file
<1>1. req[r].op = "upload" BY RequestOK DEF At, Paths
<1>2. u \in Users /\ file.kind = "media" /\ file.content \in Contents BY <1>1, RequestOK DEF Fits, At
<1>3. seq.video \in Videos BY RoomOK
<1>4. file \in FileSet BY RequestOK DEF RequestSet
<1>5. SourceOf(file) \in {"local_video", "local_image"} BY DEF SourceOf
<1> HIDE DEF u, file
<1> QED BY <1>2, <1>3, <1>4, <1>5, NewVideoOK DEF IsLocal, u, file

LEMMA SSaveStep ==
  ASSUME RequestsOK, Store, Numbered, NEW r \in Requests, SaveStep(r)
  PROVE  Store' /\ Numbered'
<1> DEFINE u == req[r].user
           file == req[r].file
           row == NewVideo(seq.video, u, SourceOf(file), file, file.content)
<1>1. CASE Outcome(u, file) = "ok"
  <2>1. /\ RoomFor(1) /\ videos' = [videos EXCEPT ![seq.video] = row] /\ seq' = [seq EXCEPT !.video = @ + 1]
        /\ storage' = [storage EXCEPT ![u] = @ + SizeOf[file.content]]
        /\ tasks' = tasks \cup Background(seq.video, file)
        /\ UNCHANGED attached
    BY <1>1 DEF SaveStep, SaveLocalVideoWithQuota
  <2>2. /\ u \in Users /\ file \in FileSet /\ file.content \in Contents
        /\ row \in Rows /\ row.id = seq.video
    BY <2>1, SavedRow DEF SaveStep
  <2>3. seq.video \in Videos BY <2>1, RoomOK
  <2>4. tasks' \subseteq TaskSet BY <2>1, <2>2, <2>3 DEF Background, TaskSet, Store
  <2>5. storage' \in [Users -> Nat] BY <2>1, <2>2, LibraryAssumption DEF Store, IdAssumption
  <2>6. UNCHANGED <<disk, taken, variants, progress, scene, detail>>
    BY <2>1 DEF SaveStep, attached, caches, history
  <2> HIDE DEF row, file, u
  <2> QED BY <2>1, <2>2, <2>4, <2>5, <2>6, OneMoreRow
<1>2. CASE Outcome(u, file) # "ok"
  BY <1>2, StoreSame DEF SaveStep, attached, caches, history
<1> QED BY <1>1, <1>2

LEMMA SAdopt ==
  ASSUME RequestsOK, Store, Numbered, NEW r \in Requests, Adopt(r)
  PROVE  Store' /\ Numbered'
<1> DEFINE files == req[r].files
<1>1. files \in SUBSET FileSet /\ IsFiniteSet(files) BY RequestOK DEF RequestSet, Fits
<1>2. BatchSaveLocalVideos(files) BY DEF Adopt
<1> DEFINE N == Cardinality(files)
<1>3. /\ videos' \in [Videos -> Rows \cup {NoVideo}]
      /\ \A v \in Videos : v < seq.video => videos'[v] = videos[v]
      /\ \A v \in Existing' : v >= seq.video => v < seq'.video /\ videos'[v].id = v
      /\ seq' = [seq EXCEPT !.video = @ + N] /\ N \in Nat
      /\ 1..(seq.video + N - 1) \subseteq Videos
  BY <1>1, <1>2, AdoptedRows
<1>4. seq \in SeqSet BY DEF Store
<1> HIDE DEF N
<1>5. seq' \in SeqSet /\ seq'.video = seq.video + N BY <1>3, <1>4 DEF SeqSet
<1>8. seq.video \in Nat BY <1>4 DEF SeqSet
<1>6. Known' \subseteq Videos
  <2>1. seq'.video - 1 = seq.video + N - 1 BY <1>3, <1>5, <1>8
  <2> QED BY <1>3, <2>1 DEF Known
<1>7. \A v \in Existing' : v \in Nat /\ (v < seq.video => v \in Existing /\ videos'[v] = videos[v])
  BY <1>3, VideosAre DEF Existing
<1>9. Numbered' BY <1>3, <1>5, <1>7, <1>8 DEF Numbered
<1>10. UNCHANGED <<storage, disk, taken, variants, progress, tasks, scene, detail>>
  BY DEF Adopt, attached, world, caches
<1> QED BY <1>3, <1>5, <1>6, <1>9, <1>10 DEF Store

LEMMA SCommitDelete ==
  ASSUME RequestsOK, Store, Numbered, NEW r \in Requests, CommitDelete(r)
  PROVE  Store' /\ Numbered' /\ Existing' = Existing \ req[r].ids /\ \A v \in Existing' : videos'[v] = videos[v]
<1> DEFINE V == req[r].ids
<1>1. /\ videos' = [v \in Videos |-> IF v \in V THEN NoVideo ELSE videos[v]]
      /\ variants' = variants \ V
      /\ progress' = [u \in Users |-> [v \in Videos |-> IF v \in V THEN NoReport ELSE progress[u][v]]]
      /\ storage' = [u \in Users |-> Less(storage[u], req[r].charge[u])]
  BY DEF CommitDelete, DeleteRows, Cascade, Discharge, ChargeOf
<1>2. req[r].charge \in [Users -> Nat] BY RequestOK DEF RequestSet
<1> HIDE DEF V
<1>3. videos' \in [Videos -> Rows \cup {NoVideo}] BY <1>1 DEF Store
<1>4. variants' \subseteq Videos BY <1>1 DEF Store
<1>5. NoReport \in ReportSet BY DEF NoReport, ReportSet
<1>6. progress' \in [Users -> [Videos -> ReportSet]] BY <1>1, <1>5 DEF Store
<1>7. storage' \in [Users -> Nat]
  <2>1. \A u \in Users : storage[u] \in Nat /\ req[r].charge[u] \in Nat BY <1>2 DEF Store
  <2>2. \A u \in Users : Less(storage[u], req[r].charge[u]) \in Nat BY <2>1 DEF Less
  <2> QED BY <1>1, <2>2
<1>8. Existing' = Existing \ V /\ \A v \in Existing' : videos'[v] = videos[v] BY <1>1 DEF Existing
<1>9. UNCHANGED <<disk, taken, seq, tasks, scene, detail>> BY DEF CommitDelete, world, caches
<1>10. Numbered' BY <1>8, <1>9 DEF Numbered
<1>11. Store' BY <1>3, <1>4, <1>6, <1>7, <1>9 DEF Store, Known
<1> QED BY <1>8, <1>10, <1>11 DEF V

-----------------------------------------------------------------------------
\* The requests of viewers.

LEMMA RToggleLike ==
  ASSUME RequestsOK, Store, NEW r \in Requests, ToggleLike(r)
  PROVE  RequestsOK'
<1>a. PICK u \in scene.users, v \in Asked : Call(r, "like", [Step("mark") EXCEPT !.user = u, !.video = v])
  BY DEF ToggleLike, Watcher, Guarded, OnList
<1>0. u \in Users /\ v \in Videos BY DEF Store, SceneSet, Asked
<1> DEFINE q == [Step("mark") EXCEPT !.user = u, !.video = v]
            p == [q EXCEPT !.op = "like"]
<1>1. "mark" \in Steps /\ "like" \in Operations BY DEF Steps, Operations
<1>2. Idle \in RequestSet BY IdleOK
<1>3. q \in RequestSet BY <1>0, <1>1, <1>2 DEF RequestSet, Step
<1>4. /\ p.op = "like" /\ p.at = "mark" /\ p.rows = {} /\ p.todo = {} /\ p.files = {} /\ p.any = FALSE
      /\ p.user = u /\ p.video = v /\ p.ids = {} /\ p.parent = 0 /\ p.tags = {} /\ p.list = 0
      /\ p.order = <<>> /\ p.next = "idle"
  BY <1>2, <1>3, IdleOK DEF RequestSet, Idle, Step
<1> HIDE DEF p
<1>5. Paths(p) /\ Fits(p) BY <1>0, <1>4, FS_EmptySet DEF Paths, Fits
<1> USE DEF p
<1> QED BY <1>a, <1>1, <1>3, <1>5, CallOK DEF ToggleLike

LEMMA RToggleFavorite ==
  ASSUME RequestsOK, Store, NEW r \in Requests, ToggleFavorite(r)
  PROVE  RequestsOK'
<1>a. PICK u \in scene.users, v \in Asked : Call(r, "favorite", [Step("mark") EXCEPT !.user = u, !.video = v])
  BY DEF ToggleFavorite, Watcher, Guarded, OnList
<1>0. u \in Users /\ v \in Videos BY DEF Store, SceneSet, Asked
<1> DEFINE q == [Step("mark") EXCEPT !.user = u, !.video = v]
            p == [q EXCEPT !.op = "favorite"]
<1>1. "mark" \in Steps /\ "favorite" \in Operations BY DEF Steps, Operations
<1>2. Idle \in RequestSet BY IdleOK
<1>3. q \in RequestSet BY <1>0, <1>1, <1>2 DEF RequestSet, Step
<1>4. /\ p.op = "favorite" /\ p.at = "mark" /\ p.rows = {} /\ p.todo = {} /\ p.files = {} /\ p.any = FALSE
      /\ p.user = u /\ p.video = v /\ p.ids = {} /\ p.parent = 0 /\ p.tags = {} /\ p.list = 0
      /\ p.order = <<>> /\ p.next = "idle"
  BY <1>2, <1>3, IdleOK DEF RequestSet, Idle, Step
<1> HIDE DEF p
<1>5. Paths(p) /\ Fits(p) BY <1>0, <1>4, FS_EmptySet DEF Paths, Fits
<1> USE DEF p
<1> QED BY <1>a, <1>1, <1>3, <1>5, CallOK DEF ToggleFavorite

LEMMA RCreateDanmaku ==
  ASSUME RequestsOK, Store, NEW r \in Requests, CreateDanmaku(r)
  PROVE  RequestsOK'
<1>a. PICK u \in scene.users, v \in Asked : Call(r, "danmaku", [Step("findrow") EXCEPT !.user = u, !.video = v])
  BY DEF CreateDanmaku, Watcher, Guarded, OnList
<1>0. u \in Users /\ v \in Videos BY DEF Store, SceneSet, Asked
<1> DEFINE q == [Step("findrow") EXCEPT !.user = u, !.video = v]
            p == [q EXCEPT !.op = "danmaku"]
<1>1. "findrow" \in Steps /\ "danmaku" \in Operations BY DEF Steps, Operations
<1>2. Idle \in RequestSet BY IdleOK
<1>3. q \in RequestSet BY <1>0, <1>1, <1>2 DEF RequestSet, Step
<1>4. /\ p.op = "danmaku" /\ p.at = "findrow" /\ p.rows = {} /\ p.todo = {} /\ p.files = {} /\ p.any = FALSE
      /\ p.user = u /\ p.video = v /\ p.ids = {} /\ p.parent = 0 /\ p.tags = {} /\ p.list = 0
      /\ p.order = <<>> /\ p.next = "idle"
  BY <1>2, <1>3, IdleOK DEF RequestSet, Idle, Step
<1> HIDE DEF p
<1>5. Paths(p) /\ Fits(p) BY <1>0, <1>4, FS_EmptySet DEF Paths, Fits
<1> USE DEF p
<1> QED BY <1>a, <1>1, <1>3, <1>5, CallOK DEF CreateDanmaku

LEMMA RCreateShareLink ==
  ASSUME RequestsOK, Store, NEW r \in Requests, CreateShareLink(r)
  PROVE  RequestsOK'
<1>a. PICK u \in scene.users, v \in Asked : Call(r, "share", [Step("ownership") EXCEPT !.user = u, !.video = v])
  BY DEF CreateShareLink, Watcher, Guarded, OnList
<1>0. u \in Users /\ v \in Videos BY DEF Store, SceneSet, Asked
<1> DEFINE q == [Step("ownership") EXCEPT !.user = u, !.video = v]
            p == [q EXCEPT !.op = "share"]
<1>1. "ownership" \in Steps /\ "share" \in Operations BY DEF Steps, Operations
<1>2. Idle \in RequestSet BY IdleOK
<1>3. q \in RequestSet BY <1>0, <1>1, <1>2 DEF RequestSet, Step
<1>4. /\ p.op = "share" /\ p.at = "ownership" /\ p.rows = {} /\ p.todo = {} /\ p.files = {} /\ p.any = FALSE
      /\ p.user = u /\ p.video = v /\ p.ids = {} /\ p.parent = 0 /\ p.tags = {} /\ p.list = 0
      /\ p.order = <<>> /\ p.next = "idle"
  BY <1>2, <1>3, IdleOK DEF RequestSet, Idle, Step
<1> HIDE DEF p
<1>5. Paths(p) /\ Fits(p) BY <1>0, <1>4, FS_EmptySet DEF Paths, Fits
<1> USE DEF p
<1> QED BY <1>a, <1>1, <1>3, <1>5, CallOK DEF CreateShareLink

LEMMA RDeleteComment ==
  ASSUME RequestsOK, Store, NEW r \in Requests, DeleteComment(r)
  PROVE  RequestsOK'
<1>a. PICK u \in scene.users, c \in KnownComments :
     Call(r, "uncomment", [Step("uncomment") EXCEPT !.user = u, !.parent = c])
  BY DEF DeleteComment, Watcher, Guarded, OnList
<1>0. u \in Users /\ c \in Comments /\ c \in Nat
  BY LibraryAssumption DEF Store, SceneSet, Asked, KnownComments, KnownLists, IdAssumption
<1> DEFINE q == [Step("uncomment") EXCEPT !.user = u, !.parent = c]
            p == [q EXCEPT !.op = "uncomment"]
<1>1. "uncomment" \in Steps /\ "uncomment" \in Operations BY DEF Steps, Operations
<1>2. Idle \in RequestSet BY IdleOK
<1>3. q \in RequestSet BY <1>0, <1>1, <1>2 DEF RequestSet, Step
<1>4. /\ p.op = "uncomment" /\ p.at = "uncomment" /\ p.rows = {} /\ p.todo = {} /\ p.files = {}
      /\ p.any = FALSE
      /\ p.user = u /\ p.video = 0 /\ p.ids = {} /\ p.parent = c /\ p.tags = {} /\ p.list = 0
      /\ p.order = <<>> /\ p.next = "idle"
  BY <1>2, <1>3, IdleOK DEF RequestSet, Idle, Step
<1> HIDE DEF p
<1>5. Paths(p) /\ Fits(p) BY <1>0, <1>4, FS_EmptySet DEF Paths, Fits
<1> USE DEF p
<1> QED BY <1>a, <1>1, <1>3, <1>5, CallOK DEF DeleteComment

LEMMA RCreateTag ==
  ASSUME RequestsOK, Store, NEW r \in Requests, CreateTag(r)
  PROVE  RequestsOK'
<1>a. PICK t \in Tags : Call(r, "newtag", [Step("newtag") EXCEPT !.tags = {t}])
  BY DEF CreateTag, Watcher, Guarded, OnList
<1>0. t \in Tags BY <1>a
<1> DEFINE q == [Step("newtag") EXCEPT !.tags = {t}]
            p == [q EXCEPT !.op = "newtag"]
<1>1. "newtag" \in Steps /\ "newtag" \in Operations BY DEF Steps, Operations
<1>2. Idle \in RequestSet BY IdleOK
<1>3. q \in RequestSet BY <1>0, <1>1, <1>2 DEF RequestSet, Step
<1>4. /\ p.op = "newtag" /\ p.at = "newtag" /\ p.rows = {} /\ p.todo = {} /\ p.files = {} /\ p.any = FALSE
      /\ p.user = 0 /\ p.video = 0 /\ p.ids = {} /\ p.parent = 0 /\ p.tags = {t} /\ p.list = 0
      /\ p.order = <<>> /\ p.next = "idle"
  BY <1>2, <1>3, IdleOK DEF RequestSet, Idle, Step
<1> HIDE DEF p
<1>5. Paths(p) /\ Fits(p) BY <1>0, <1>4, FS_EmptySet DEF Paths, Fits
<1> USE DEF p
<1> QED BY <1>a, <1>1, <1>3, <1>5, CallOK DEF CreateTag

LEMMA RDeleteTag ==
  ASSUME RequestsOK, Store, NEW r \in Requests, DeleteTag(r)
  PROVE  RequestsOK'
<1>a. PICK t \in Tags : Call(r, "deltag", [Step("findtag") EXCEPT !.tags = {t}])
  BY DEF DeleteTag, Watcher, Guarded, OnList
<1>0. t \in Tags BY <1>a
<1> DEFINE q == [Step("findtag") EXCEPT !.tags = {t}]
            p == [q EXCEPT !.op = "deltag"]
<1>1. "findtag" \in Steps /\ "deltag" \in Operations BY DEF Steps, Operations
<1>2. Idle \in RequestSet BY IdleOK
<1>3. q \in RequestSet BY <1>0, <1>1, <1>2 DEF RequestSet, Step
<1>4. /\ p.op = "deltag" /\ p.at = "findtag" /\ p.rows = {} /\ p.todo = {} /\ p.files = {} /\ p.any = FALSE
      /\ p.user = 0 /\ p.video = 0 /\ p.ids = {} /\ p.parent = 0 /\ p.tags = {t} /\ p.list = 0
      /\ p.order = <<>> /\ p.next = "idle"
  BY <1>2, <1>3, IdleOK DEF RequestSet, Idle, Step
<1> HIDE DEF p
<1>5. Paths(p) /\ Fits(p) BY <1>0, <1>4, FS_EmptySet DEF Paths, Fits
<1> USE DEF p
<1> QED BY <1>a, <1>1, <1>3, <1>5, CallOK DEF DeleteTag

LEMMA RCreatePlaylist ==
  ASSUME RequestsOK, Store, NEW r \in Requests, CreatePlaylist(r)
  PROVE  RequestsOK'
<1>a. PICK u \in scene.users : Call(r, "newlist", [Step("newlist") EXCEPT !.user = u])
  BY DEF CreatePlaylist, Watcher, Guarded, OnList
<1>0. u \in Users BY LibraryAssumption DEF Store, SceneSet, Asked, KnownComments, KnownLists, IdAssumption
<1> DEFINE q == [Step("newlist") EXCEPT !.user = u]
            p == [q EXCEPT !.op = "newlist"]
<1>1. "newlist" \in Steps /\ "newlist" \in Operations BY DEF Steps, Operations
<1>2. Idle \in RequestSet BY IdleOK
<1>3. q \in RequestSet BY <1>0, <1>1, <1>2 DEF RequestSet, Step
<1>4. /\ p.op = "newlist" /\ p.at = "newlist" /\ p.rows = {} /\ p.todo = {} /\ p.files = {} /\ p.any = FALSE
      /\ p.user = u /\ p.video = 0 /\ p.ids = {} /\ p.parent = 0 /\ p.tags = {} /\ p.list = 0
      /\ p.order = <<>> /\ p.next = "idle"
  BY <1>2, <1>3, IdleOK DEF RequestSet, Idle, Step
<1> HIDE DEF p
<1>5. Paths(p) /\ Fits(p) BY <1>0, <1>4, FS_EmptySet DEF Paths, Fits
<1> USE DEF p
<1> QED BY <1>a, <1>1, <1>3, <1>5, CallOK DEF CreatePlaylist

LEMMA RDeleteShareLink ==
  ASSUME RequestsOK, Store, NEW r \in Requests, DeleteShareLink(r)
  PROVE  RequestsOK'
<1>a. PICK s \in Shares, u \in scene.users, v \in Asked :
     Call(r, "unshare", [[Step("unshare") EXCEPT !.parent = s] EXCEPT !.user = u, !.video = v])
  BY DEF DeleteShareLink, Watcher, Guarded, OnList
<1>0. u \in Users /\ v \in Videos /\ s \in Shares /\ s \in Nat
  BY LibraryAssumption DEF Store, SceneSet, Asked, KnownComments, KnownLists, IdAssumption
<1> DEFINE q == [[Step("unshare") EXCEPT !.parent = s] EXCEPT !.user = u, !.video = v]
            p == [q EXCEPT !.op = "unshare"]
<1>1. "unshare" \in Steps /\ "unshare" \in Operations BY DEF Steps, Operations
<1>2. Idle \in RequestSet BY IdleOK
<1>3. q \in RequestSet BY <1>0, <1>1, <1>2 DEF RequestSet, Step
<1>4. /\ p.op = "unshare" /\ p.at = "unshare" /\ p.rows = {} /\ p.todo = {} /\ p.files = {} /\ p.any = FALSE
      /\ p.user = u /\ p.video = v /\ p.ids = {} /\ p.parent = s /\ p.tags = {} /\ p.list = 0
      /\ p.order = <<>> /\ p.next = "idle"
  BY <1>2, <1>3, IdleOK DEF RequestSet, Idle, Step
<1> HIDE DEF p
<1>5. Paths(p) /\ Fits(p) BY <1>0, <1>4, FS_EmptySet DEF Paths, Fits
<1> USE DEF p
<1> QED BY <1>a, <1>1, <1>3, <1>5, CallOK DEF DeleteShareLink

LEMMA RRevokeMyShare ==
  ASSUME RequestsOK, Store, NEW r \in Requests, RevokeMyShare(r)
  PROVE  RequestsOK'
<1>a. PICK s \in Shares, u \in scene.users : Call(r, "revoke", [Step("unshare") EXCEPT !.user = u, !.parent = s])
  BY DEF RevokeMyShare, Watcher, Guarded, OnList
<1>0. u \in Users /\ s \in Shares /\ s \in Nat
  BY LibraryAssumption DEF Store, SceneSet, Asked, KnownComments, KnownLists, IdAssumption
<1> DEFINE q == [Step("unshare") EXCEPT !.user = u, !.parent = s]
            p == [q EXCEPT !.op = "revoke"]
<1>1. "unshare" \in Steps /\ "revoke" \in Operations BY DEF Steps, Operations
<1>2. Idle \in RequestSet BY IdleOK
<1>3. q \in RequestSet BY <1>0, <1>1, <1>2 DEF RequestSet, Step
<1>4. /\ p.op = "revoke" /\ p.at = "unshare" /\ p.rows = {} /\ p.todo = {} /\ p.files = {} /\ p.any = FALSE
      /\ p.user = u /\ p.video = 0 /\ p.ids = {} /\ p.parent = s /\ p.tags = {} /\ p.list = 0
      /\ p.order = <<>> /\ p.next = "idle"
  BY <1>2, <1>3, IdleOK DEF RequestSet, Idle, Step
<1> HIDE DEF p
<1>5. Paths(p) /\ Fits(p) BY <1>0, <1>4, FS_EmptySet DEF Paths, Fits
<1> USE DEF p
<1> QED BY <1>a, <1>1, <1>3, <1>5, CallOK DEF RevokeMyShare

LEMMA RCreateComment ==
  ASSUME RequestsOK, Store, NEW r \in Requests, CreateComment(r)
  PROVE  RequestsOK'
<1>a. PICK c \in {0} \cup KnownComments, u \in scene.users, v \in Asked :
     Call(r, "comment", [[Idle EXCEPT !.parent = c] EXCEPT !.user = u, !.video = v, !.next = "resolve",
              !.at = IF u \in Admins THEN "resolve" ELSE "owns"])
  BY DEF CreateComment, Watcher, Guarded, OnList
<1>0. u \in Users /\ v \in Videos /\ c \in {0} \cup Comments /\ c \in Nat
  BY <1>a, LibraryAssumption DEF Store, SceneSet, Asked, KnownComments, KnownLists, IdAssumption
<1> DEFINE q == [[Idle EXCEPT !.parent = c] EXCEPT !.user = u, !.video = v, !.next = "resolve",
              !.at = IF u \in Admins THEN "resolve" ELSE "owns"]
            p == [q EXCEPT !.op = "comment"]
<1>1. "resolve" \in Steps /\ "owns" \in Steps /\ "comment" \in Operations BY DEF Steps, Operations
<1>2. Idle \in RequestSet BY IdleOK
<1>3. q \in RequestSet BY <1>0, <1>1, <1>2 DEF RequestSet, Step
<1>4. /\ p.op = "comment" /\ p.at \in {"resolve", "owns"} /\ p.rows = {} /\ p.todo = {} /\ p.files = {}
      /\ p.any = FALSE
      /\ p.user = u /\ p.video = v /\ p.ids = {} /\ p.parent = c /\ p.tags = {} /\ p.list = 0
      /\ p.order = <<>> /\ p.next = "resolve"
  BY <1>2, <1>3, IdleOK DEF RequestSet, Idle, Step
<1> HIDE DEF p
<1>5. Paths(p) /\ Fits(p)
  <2>0. IsFiniteSet(p.files) BY <1>4, FS_EmptySet
  <2>1. CASE p.at = "resolve"
    <3>1. Paths(p) BY <1>4, <2>1 DEF Paths
    <3>2. Fits(p) BY <1>0, <1>4, <2>0, <2>1 DEF Fits
    <3> QED BY <3>1, <3>2
  <2>2. CASE p.at = "owns"
    <3>0. p.op = "comment" /\ p.next = "resolve" BY <1>4
    <3>1. Paths(p) BY <2>2, <3>0 DEF Paths
    <3>2. Fits(p) BY <1>0, <1>4, <2>0, <2>2 DEF Fits
    <3> QED BY <3>1, <3>2
  <2> QED BY <1>4, <2>1, <2>2
<1> USE DEF p
<1> QED BY <1>a, <1>1, <1>3, <1>5, CallOK DEF CreateComment

LEMMA RAddTags ==
  ASSUME RequestsOK, Store, NEW r \in Requests, AddTags(r)
  PROVE  RequestsOK'
<1>a. PICK T \in (SUBSET Tags) \ {{}}, u \in scene.users, v \in Asked :
     Call(r, "tag", [[Idle EXCEPT !.tags = T] EXCEPT !.user = u, !.video = v, !.next = "findtags",
              !.at = IF u \in Admins THEN "findtags" ELSE "owns"])
  BY DEF AddTags, Watcher, Guarded, OnList
<1>0. u \in Users /\ v \in Videos /\ T \in SUBSET Tags
  BY <1>a, LibraryAssumption DEF Store, SceneSet, Asked, KnownComments, KnownLists, IdAssumption
<1> DEFINE q == [[Idle EXCEPT !.tags = T] EXCEPT !.user = u, !.video = v, !.next = "findtags",
              !.at = IF u \in Admins THEN "findtags" ELSE "owns"]
            p == [q EXCEPT !.op = "tag"]
<1>1. "findtags" \in Steps /\ "owns" \in Steps /\ "tag" \in Operations BY DEF Steps, Operations
<1>2. Idle \in RequestSet BY IdleOK
<1>3. q \in RequestSet BY <1>0, <1>1, <1>2 DEF RequestSet, Step
<1>4. /\ p.op = "tag" /\ p.at \in {"findtags", "owns"} /\ p.rows = {} /\ p.todo = {} /\ p.files = {}
      /\ p.any = FALSE
      /\ p.user = u /\ p.video = v /\ p.ids = {} /\ p.parent = 0 /\ p.tags = T /\ p.list = 0 /\ p.order = <<>>
      /\ p.next = "findtags"
  BY <1>2, <1>3, IdleOK DEF RequestSet, Idle, Step
<1> HIDE DEF p
<1>5. Paths(p) /\ Fits(p)
  <2>0. IsFiniteSet(p.files) BY <1>4, FS_EmptySet
  <2>1. CASE p.at = "findtags"
    <3>1. Paths(p) BY <1>4, <2>1 DEF Paths
    <3>2. Fits(p) BY <1>0, <1>4, <2>0, <2>1 DEF Fits
    <3> QED BY <3>1, <3>2
  <2>2. CASE p.at = "owns"
    <3>0. p.op = "tag" /\ p.next = "findtags" BY <1>4
    <3>1. Paths(p) BY <2>2, <3>0 DEF Paths
    <3>2. Fits(p) BY <1>0, <1>4, <2>0, <2>2 DEF Fits
    <3> QED BY <3>1, <3>2
  <2> QED BY <1>4, <2>1, <2>2
<1> USE DEF p
<1> QED BY <1>a, <1>1, <1>3, <1>5, CallOK DEF AddTags

LEMMA RRemoveTags ==
  ASSUME RequestsOK, Store, NEW r \in Requests, RemoveTags(r)
  PROVE  RequestsOK'
<1>a. PICK T \in (SUBSET Tags) \ {{}}, u \in scene.users, v \in Asked :
     Call(r, "untag", [[Idle EXCEPT !.tags = T] EXCEPT !.user = u, !.video = v, !.next = "untag",
              !.at = IF u \in Admins THEN "untag" ELSE "owns"])
  BY DEF RemoveTags, Watcher, Guarded, OnList
<1>0. u \in Users /\ v \in Videos /\ T \in SUBSET Tags
  BY <1>a, LibraryAssumption DEF Store, SceneSet, Asked, KnownComments, KnownLists, IdAssumption
<1> DEFINE q == [[Idle EXCEPT !.tags = T] EXCEPT !.user = u, !.video = v, !.next = "untag",
              !.at = IF u \in Admins THEN "untag" ELSE "owns"]
            p == [q EXCEPT !.op = "untag"]
<1>1. "untag" \in Steps /\ "owns" \in Steps /\ "untag" \in Operations BY DEF Steps, Operations
<1>2. Idle \in RequestSet BY IdleOK
<1>3. q \in RequestSet BY <1>0, <1>1, <1>2 DEF RequestSet, Step
<1>4. /\ p.op = "untag" /\ p.at \in {"untag", "owns"} /\ p.rows = {} /\ p.todo = {} /\ p.files = {}
      /\ p.any = FALSE
      /\ p.user = u /\ p.video = v /\ p.ids = {} /\ p.parent = 0 /\ p.tags = T /\ p.list = 0 /\ p.order = <<>>
      /\ p.next = "untag"
  BY <1>2, <1>3, IdleOK DEF RequestSet, Idle, Step
<1> HIDE DEF p
<1>5. Paths(p) /\ Fits(p)
  <2>0. IsFiniteSet(p.files) BY <1>4, FS_EmptySet
  <2>1. CASE p.at = "untag"
    <3>1. Paths(p) BY <1>4, <2>1 DEF Paths
    <3>2. Fits(p) BY <1>0, <1>4, <2>0, <2>1 DEF Fits
    <3> QED BY <3>1, <3>2
  <2>2. CASE p.at = "owns"
    <3>0. p.op = "untag" /\ p.next = "untag" BY <1>4
    <3>1. Paths(p) BY <2>2, <3>0 DEF Paths
    <3>2. Fits(p) BY <1>0, <1>4, <2>0, <2>2 DEF Fits
    <3> QED BY <3>1, <3>2
  <2> QED BY <1>4, <2>1, <2>2
<1> USE DEF p
<1> QED BY <1>a, <1>1, <1>3, <1>5, CallOK DEF RemoveTags

LEMMA RDeletePlaylist ==
  ASSUME RequestsOK, Store, NEW r \in Requests, DeletePlaylist(r)
  PROVE  RequestsOK'
<1>a. PICK u \in scene.users, l \in KnownLists :
     Call(r, "dellist", [Idle EXCEPT !.at = "ownlist", !.user = u, !.list = l])
  BY DEF DeletePlaylist, Watcher, Guarded, OnList
<1>0. u \in Users /\ l \in Playlists
  BY LibraryAssumption DEF Store, SceneSet, Asked, KnownComments, KnownLists, IdAssumption
<1> DEFINE q == [Idle EXCEPT !.at = "ownlist", !.user = u, !.list = l]
            p == [q EXCEPT !.op = "dellist"]
<1>1. "ownlist" \in Steps /\ "dellist" \in Operations BY DEF Steps, Operations
<1>2. Idle \in RequestSet BY IdleOK
<1>3. q \in RequestSet BY <1>0, <1>1, <1>2 DEF RequestSet, Step
<1>4. /\ p.op = "dellist" /\ p.at = "ownlist" /\ p.rows = {} /\ p.todo = {} /\ p.files = {} /\ p.any = FALSE
      /\ p.user = u /\ p.video = 0 /\ p.ids = {} /\ p.parent = 0 /\ p.tags = {} /\ p.list = l
      /\ p.order = <<>> /\ p.next = "idle"
  BY <1>2, <1>3, IdleOK DEF RequestSet, Idle, Step
<1> HIDE DEF p
<1>5. Paths(p) /\ Fits(p) BY <1>0, <1>4, FS_EmptySet DEF Paths, Fits
<1> USE DEF p
<1> QED BY <1>a, <1>1, <1>3, <1>5, CallOK DEF DeletePlaylist

LEMMA RRemoveVideoFromPlaylist ==
  ASSUME RequestsOK, Store, NEW r \in Requests, RemoveVideoFromPlaylist(r)
  PROVE  RequestsOK'
<1>a. PICK v \in Asked, u \in scene.users, l \in KnownLists :
     Call(r, "removeitem", [[Idle EXCEPT !.ids = {v}] EXCEPT !.at = "ownlist", !.user = u, !.list = l])
  BY DEF RemoveVideoFromPlaylist, Watcher, Guarded, OnList
<1>0. u \in Users /\ l \in Playlists /\ v \in Videos
  BY <1>a, LibraryAssumption DEF Store, SceneSet, Asked, KnownComments, KnownLists, IdAssumption
<1> DEFINE q == [[Idle EXCEPT !.ids = {v}] EXCEPT !.at = "ownlist", !.user = u, !.list = l]
            p == [q EXCEPT !.op = "removeitem"]
<1>1. "ownlist" \in Steps /\ "removeitem" \in Operations BY DEF Steps, Operations
<1>2. Idle \in RequestSet BY IdleOK
<1>3. q \in RequestSet BY <1>0, <1>1, <1>2 DEF RequestSet, Step
<1>4. /\ p.op = "removeitem" /\ p.at = "ownlist" /\ p.rows = {} /\ p.todo = {} /\ p.files = {}
      /\ p.any = FALSE
      /\ p.user = u /\ p.video = 0 /\ p.ids = {v} /\ p.parent = 0 /\ p.tags = {} /\ p.list = l
      /\ p.order = <<>> /\ p.next = "idle"
  BY <1>2, <1>3, IdleOK DEF RequestSet, Idle, Step
<1> HIDE DEF p
<1>5. Paths(p) /\ Fits(p) BY <1>0, <1>4, FS_EmptySet DEF Paths, Fits
<1> USE DEF p
<1> QED BY <1>a, <1>1, <1>3, <1>5, CallOK DEF RemoveVideoFromPlaylist

\* Comments are rows or gone; a reply names a comment by its id.
Remarks == comments \in [Comments -> CommentRows \cup {NoComment}]

\* The orders of some videos.
LEMMA OrderOK ==
  ASSUME NEW V \in SUBSET Videos, NEW s \in SetToSeqs(V)
  PROVE  s \in Seq(Videos) /\ (V # {} => s # <<>>)
<1>1. Cardinality(V) \in Nat /\ (V # {} => Cardinality(V) # 0)
  BY VideosAre, FS_Subset, FS_CardinalityType, FS_EmptySet
<1>2. s \in [1..Cardinality(V) -> V] BY DEF SetToSeqs
<1>3. s \in Seq(Videos) /\ Len(s) = Cardinality(V) BY <1>1, <1>2
<1> QED BY <1>1, <1>3

LEMMA RBatchAddVideos ==
  ASSUME RequestsOK, Store, NEW r \in Requests, BatchAddVideos(r)
  PROVE  RequestsOK'
<1>v. PICK V \in (SUBSET Asked) \ {{}} :
        \E s \in SetToSeqs(V) : OnList(r, "additem", [Idle EXCEPT !.order = s])
  BY DEF BatchAddVideos
<1>b. PICK s \in SetToSeqs(V) : OnList(r, "additem", [Idle EXCEPT !.order = s]) BY <1>v
<1>c. s \in Seq(Videos) /\ s # <<>>
  <2>1. V \subseteq Videos /\ V # {} BY <1>v DEF Store, Asked
  <2> QED BY <1>b, <2>1, OrderOK
<1> DEFINE q0 == [Idle EXCEPT !.order = s]
<1>d. OnList(r, "additem", q0) BY <1>b
<1>e. /\ q0 \in RequestSet /\ q0.rows = {} /\ q0.todo = {} /\ q0.files = {} /\ q0.any = FALSE
      /\ q0.user = 0 /\ q0.video = 0 /\ q0.ids = {} /\ q0.parent = 0 /\ q0.next = "idle" /\ q0.order = s
  BY <1>c, IdleOK DEF RequestSet, Idle
<1> HIDE DEF q0
<1>a. PICK u \in scene.users, l \in KnownLists :
         Call(r, "additem", [q0 EXCEPT !.at = "ownlist", !.user = u, !.list = l])
  BY <1>d DEF OnList
<1>0. u \in Users /\ l \in Playlists BY <1>a DEF Store, SceneSet, KnownLists
<1> DEFINE q == [q0 EXCEPT !.at = "ownlist", !.user = u, !.list = l]
           p == [q EXCEPT !.op = "additem"]
<1>1. "ownlist" \in Steps /\ "additem" \in Operations BY DEF Steps, Operations
<1>3. q \in RequestSet BY <1>0, <1>1, <1>e DEF RequestSet
<1>4. /\ p.op = "additem" /\ p.at = "ownlist" /\ p.rows = {} /\ p.todo = {} /\ p.files = {}
      /\ p.user = u /\ p.list = l /\ p.order # <<>>
  BY <1>c, <1>e, <1>3 DEF RequestSet
<1> HIDE DEF p
<1>5. Paths(p) /\ Fits(p) BY <1>0, <1>4, FS_EmptySet DEF Paths, Fits
<1> USE DEF p
<1> QED BY <1>1, <1>3, <1>5, <1>a, CallOK

LEMMA RReorderPlaylist ==
  ASSUME RequestsOK, Store, NEW r \in Requests, ReorderPlaylist(r)
  PROVE  RequestsOK'
<1>v. PICK V \in SUBSET Asked : \E s \in SetToSeqs(V) : OnList(r, "reorder", [Idle EXCEPT !.order = s])
  BY DEF ReorderPlaylist
<1>b. PICK s \in SetToSeqs(V) : OnList(r, "reorder", [Idle EXCEPT !.order = s]) BY <1>v
<1>c. s \in Seq(Videos)
  <2>1. V \subseteq Videos BY <1>v DEF Store, Asked
  <2>2. Cardinality(V) \in Nat BY <2>1, VideosAre, FS_Subset, FS_CardinalityType
  <2>3. s \in [1..Cardinality(V) -> V] BY <1>b DEF SetToSeqs
  <2> QED BY <2>1, <2>2, <2>3
<1> DEFINE q0 == [Idle EXCEPT !.order = s]
<1>d. OnList(r, "reorder", q0) BY <1>b
<1>e. /\ q0 \in RequestSet /\ q0.rows = {} /\ q0.todo = {} /\ q0.files = {} /\ q0.any = FALSE
      /\ q0.user = 0 /\ q0.video = 0 /\ q0.ids = {} /\ q0.parent = 0 /\ q0.next = "idle"
  BY <1>c, IdleOK DEF RequestSet, Idle
<1> HIDE DEF q0
<1>a. PICK u \in scene.users, l \in KnownLists :
         Call(r, "reorder", [q0 EXCEPT !.at = "ownlist", !.user = u, !.list = l])
  BY <1>d DEF OnList
<1>0. u \in Users /\ l \in Playlists BY <1>a DEF Store, SceneSet, KnownLists
<1> DEFINE q == [q0 EXCEPT !.at = "ownlist", !.user = u, !.list = l]
           p == [q EXCEPT !.op = "reorder"]
<1>1. "ownlist" \in Steps /\ "reorder" \in Operations BY DEF Steps, Operations
<1>3. q \in RequestSet BY <1>0, <1>1, <1>e DEF RequestSet
<1>4. /\ p.op = "reorder" /\ p.at = "ownlist" /\ p.rows = {} /\ p.todo = {} /\ p.files = {}
      /\ p.user = u /\ p.list = l
  BY <1>e, <1>3 DEF RequestSet
<1> HIDE DEF p
<1>5. Paths(p) /\ Fits(p) BY <1>0, <1>4, FS_EmptySet DEF Paths, Fits
<1> USE DEF p
<1> QED BY <1>1, <1>3, <1>5, <1>a, CallOK

LEMMA REngage ==
  ASSUME RequestsOK, Store, NEW r \in Requests, Engage(r)
  PROVE  RequestsOK'
BY RToggleLike, RToggleFavorite, RCreateComment, RDeleteComment, RCreateDanmaku, RCreateTag, RDeleteTag,
   RAddTags,
   RRemoveTags, RCreatePlaylist, RDeletePlaylist, RBatchAddVideos, RRemoveVideoFromPlaylist, RReorderPlaylist,
   RCreateShareLink, RDeleteShareLink, RRevokeMyShare DEF Engage

\* The steps of viewers, one after the other.
LEMMA ROwns ==
  ASSUME RequestsOK, Store, NEW r \in Requests, Owns(r)
  PROVE  RequestsOK'
<1> DEFINE s == req[r].next
<1>1. \/ req[r].op = "comment" /\ s = "resolve"
      \/ req[r].op = "tag" /\ s = "findtags"
      \/ req[r].op = "untag" /\ s = "untag"
  BY RequestOK DEF Owns, At, Paths
<1>2. s \in Steps BY <1>1 DEF Steps
<1>3. Paths(To(r, s)) BY <1>1, <1>2, ToOK DEF Paths
<1>4. Fits(To(r, s)) BY <1>1, <1>2, ToOK, RequestOK DEF Fits
<1> QED BY <1>2, <1>3, <1>4, MoveOK, DoneOK DEF Owns

LEMMA RResolve ==
  ASSUME RequestsOK, Store, Remarks, NEW r \in Requests, Resolve(r)
  PROVE  RequestsOK'
<1> DEFINE c == req[r].parent
           q == [req[r] EXCEPT !.parent = RootOf(c), !.last = req[r].last + 1]
<1>1. req[r].op = "comment" /\ req[r].at = "resolve" BY RequestOK DEF Resolve, At, Paths
<1>2. c \in Comments \cup {0} /\ req[r].user \in Users BY <1>1, RequestOK DEF Fits
<1>3. "comment" \in Steps BY DEF Steps
<1>4. Paths(To(r, "comment")) BY <1>1, <1>3, ToOK DEF Paths
<1>5. Fits(To(r, "comment")) BY <1>1, <1>3, ToOK, RequestOK DEF Fits
<1>6. CASE Go(r, q) /\ c # 0 /\ comments[c] # NoComment
  <2> HIDE DEF q
  <2>a. c \in Comments BY <1>2, <1>6
  <2>b. comments[c] \in CommentRows BY <2>a, <1>6 DEF Remarks
  <2>1. RootOf(c) \in Comments \cup {0} BY <2>b DEF RootOf, CommentRows
  <2>0. \A d \in Comments \cup {0} : d \in Nat BY LibraryAssumption DEF IdAssumption
  <2>2. RootOf(c) \in Nat BY <2>0, <2>1, Zenon
  <2>3. req[r] \in RequestSet BY RequestOK
  <2> DEFINE m == RootOf(c)
             n == req[r].last + 1
  <2>c. m \in Nat /\ n \in Nat BY <2>2, <2>3 DEF RequestSet
  <2>d. q = [req[r] EXCEPT !.parent = m, !.last = n] BY DEF q
  <2> HIDE DEF m, n
  <2>4. q \in RequestSet BY <2>c, <2>d, <2>3 DEF RequestSet
  <2> USE DEF q
  <2>5. q.op = "comment" /\ q.at = "resolve" /\ q.user = req[r].user /\ q.parent = RootOf(c)
           /\ q.files = req[r].files
    BY <1>1, <2>3 DEF RequestSet
  <2> HIDE DEF q
  <2>6. Paths(q) BY <2>5 DEF Paths
  <2>7. IsFiniteSet(req[r].files) BY RequestOK DEF Fits
  <2>8. Fits(q) BY <1>2, <2>1, <2>5, <2>7 DEF Fits
  <2> QED BY <1>6, <2>4, <2>6, <2>8, GoOK
<1>7. (Go(r, q) /\ c # 0 /\ comments[c] # NoComment) \/ Move(r, "comment") \/ Done(r) BY DEF Resolve
<1> QED BY <1>3, <1>4, <1>5, <1>6, <1>7, MoveOK, DoneOK

LEMMA RFindRow ==
  ASSUME RequestsOK, Store, NEW r \in Requests, FindRow(r)
  PROVE  RequestsOK'
<1>1. "fly" \in Steps BY DEF Steps
<1>2. Paths(To(r, "fly")) /\ Fits(To(r, "fly")) BY <1>1, RequestOK, ToOK DEF FindRow, At, Paths, Fits
<1> QED BY <1>1, <1>2, MoveOK, DoneOK DEF FindRow

LEMMA RFindTags ==
  ASSUME RequestsOK, Store, NEW r \in Requests, FindTags(r)
  PROVE  RequestsOK'
<1> DEFINE s == IF At(r, "findtag") THEN "deltag" ELSE "tag"
<1>1. s \in Steps BY DEF Steps
<1>2. s = "deltag" \/ s = "tag" OBVIOUS
<1>3. Move(r, s) \/ Done(r) BY DEF FindTags
<1>4. /\ req[r].at = "findtag" \/ req[r].at = "findtags"
      /\ req[r].op = s
  BY RequestOK DEF FindTags, At, Paths
<1> HIDE DEF s
<1>5. Paths(To(r, s)) BY <1>1, <1>2, <1>4, ToOK DEF Paths
<1>6. Fits(To(r, s)) BY <1>1, <1>2, <1>4, RequestOK, ToOK DEF Fits
<1> QED BY <1>1, <1>3, <1>5, <1>6, MoveOK, DoneOK

LEMMA ROwnList ==
  ASSUME RequestsOK, Store, NEW r \in Requests, OwnList(r)
  PROVE  RequestsOK'
<1> DEFINE s == IF req[r].op = "reorder" THEN "current" ELSE req[r].op
<1>1. req[r].op \in {"dellist", "additem", "removeitem", "reorder"} BY RequestOK DEF OwnList, At, Paths
<1>2. s \in {"dellist", "additem", "removeitem", "current"} BY <1>1
<1>3. Move(r, s) \/ Done(r) BY DEF OwnList
<1>7. s = "additem" => req[r].op = "additem" OBVIOUS
<1> HIDE DEF s
<1>4. s \in Steps BY <1>2 DEF Steps
<1>5. Paths(To(r, s)) BY <1>1, <1>2, <1>4, <1>7, ToOK DEF Paths
<1>6. Fits(To(r, s)) BY <1>1, <1>2, <1>4, <1>7, RequestOK, ToOK DEF Fits, OwnList, At
<1> QED BY <1>3, <1>4, <1>5, <1>6, MoveOK, DoneOK

LEMMA RCurrent ==
  ASSUME RequestsOK, Store, NEW r \in Requests, Current(r)
  PROVE  RequestsOK'
<1>1. "reorder" \in Steps BY DEF Steps
<1>2. Paths(To(r, "reorder")) /\ Fits(To(r, "reorder")) BY <1>1, RequestOK, ToOK DEF Current, At, Paths, Fits
<1> QED BY <1>1, <1>2, MoveOK, DoneOK DEF Current

LEMMA ROwnership ==
  ASSUME RequestsOK, Store, NEW r \in Requests, Ownership(r)
  PROVE  RequestsOK'
<1>1. "share" \in Steps BY DEF Steps
<1>2. Paths(To(r, "share")) /\ Fits(To(r, "share")) BY <1>1, RequestOK, ToOK DEF Ownership, At, Paths, Fits
<1> QED BY <1>1, <1>2, MoveOK, DoneOK DEF Ownership

LEMMA RAddItem ==
  ASSUME RequestsOK, Store, NEW r \in Requests, AddItem(r)
  PROVE  RequestsOK'
<1> DEFINE rest == Tail(req[r].order)
           q == [To(r, "ownlist") EXCEPT !.order = rest]
<1>0. req[r].order \in Seq(Videos) /\ req[r].order # <<>>
  BY RequestOK DEF AddItem, At, Paths, Fits, RequestSet
<1>1. "ownlist" \in Steps BY DEF Steps
<1>2. To(r, "ownlist") \in RequestSet /\ rest \in Seq(Videos) BY <1>0, <1>1, ToOK
<1>3. q \in RequestSet BY <1>2 DEF RequestSet
<1>4. /\ q.at = "ownlist" /\ q.op = req[r].op /\ q.user = req[r].user /\ q.video = req[r].video
      /\ q.ids = req[r].ids /\ q.order = rest
      /\ q.file = req[r].file /\ q.rows = req[r].rows /\ q.todo = req[r].todo /\ q.files = req[r].files
      /\ q.parent = req[r].parent /\ q.list = req[r].list
  BY <1>1, <1>2, ToOK DEF RequestSet
<1>5. Done(r) \/ (Go(r, q) /\ rest # <<>>) BY DEF AddItem
<1>6. req[r].op \in {"dellist", "additem", "removeitem", "reorder"} BY RequestOK DEF AddItem, At, Paths
<1> HIDE DEF q, rest
<1>7. Paths(q) BY <1>4, <1>6 DEF Paths
<1>8. rest # <<>> => Fits(q) BY <1>4, <1>6, RequestOK DEF Fits
<1> QED BY <1>3, <1>5, <1>7, <1>8, GoOK, DoneOK

LEMMA RContribute ==
  ASSUME RequestsOK, Store, Remarks, NEW r \in Requests, Contribute(r)
  PROVE  RequestsOK'
<1>1. CASE Done(r) BY <1>1, DoneOK
<1>2. CASE ~Done(r)
  BY <1>2, ROwns, RResolve, RFindRow, RFindTags, ROwnList, RCurrent, ROwnership, RAddItem
  DEF Contribute, MarkStep, CommentStep, UncommentStep, DanmakuStep, NewTag, DelTag, AddTagsStep,
      RemoveTagsStep,
      NewList, DelList, RemoveItem, ReorderVideos, ShareStep, UnshareStep
<1> QED BY <1>1, <1>2

-----------------------------------------------------------------------------
\* The invariant that the proofs below start from.

Base == RequestsOK /\ Store /\ Numbered /\ Remarks

\* Requests stay in order, and so do the tables.
LEMMA RArrive == ASSUME RequestsOK, Store, NEW r \in Requests, Arrive(r) PROVE RequestsOK'
BY RUploadVideo, RAddExternalVideo, RScanMedia, RDeleteVideo, RDeleteVideos, RUpdateVideo,
   RBatchUpdateCategory,
   RUploadCover, RBackfillThumbnails, RBackfillExif, RSweepMissing, RGetVideo, RListVideos, RViewVideo,
   RBurnVideo, RUpdatePlaybackHistory, RStartSession, RHeartbeat, RStopSession DEF Arrive

LEMMA RServe == ASSUME RequestsOK, Store, NEW r \in Requests, Serve(r) PROVE RequestsOK'
BY RRefresh, RInvalidateFirst, RDetailStep, RGetRow, RFill, RListStep, RFillList, RHashStep, RRenameStep,
   RSaveStep,
   RSaved, RSaveFails, RDiscard, RExternalStep, RThumbnailStep, RFfmpegStep, RCoverUrl, RScaleCover,
   RThumbUrl, RCoversStep, RNextCover, RTmpCover, RPlaceCover, RNewCover, RNoExifStep, RReadExif, RUrlsStep,
   RReadDir, RAdopt, RDelRow, RBeginDelete, RCommitDelete, RUnlink, RFinish, RListMedia, RCheckFiles,
   RNextMissing, RBurnRow, RProgressStep, RBurnRecord, RListVariants, RCheckReport, RAtEnd, RUpsert,
   RViewStep, REditStep, RSessionStep, RDrop
DEF Serve

LEMMA SServe ==
  ASSUME RequestsOK, Store, Numbered, NEW r \in Requests, Serve(r)
  PROVE  Store' /\ Numbered'
<1>1. CASE Quiet BY <1>1, SQuiet
<1>2. CASE ~Quiet
  BY <1>2, SRefresh, SInvalidateFirst, SFill, SFillList, SRenameStep, SSaveStep, SSaved, SSaveFails,
     SDiscard, SExternalStep, SFfmpegStep, SCoverUrl, SScaleCover, SThumbUrl, STmpCover, SPlaceCover,
     SNewCover, SReadExif, SAdopt, SCommitDelete, SUnlink, SUpsert, SViewStep, SEditStep, SSessionStep, SDrop
  DEF Serve, DetailStep, GetRow, ListStep, HashStep, ThumbnailStep, CoversStep, NextCover, NoExifStep,
      UrlsStep, ReadDir, DelRow, BeginDelete, Finish, ListMedia, CheckFiles, NextMissing, BurnRow,
      ProgressStep, BurnRecord, ListVariants, CheckReport, AtEnd
<1> QED BY <1>1, <1>2

\* What viewers attach changes no video, no file and no account.
LEMMA ContributeApart ==
  ASSUME NEW r \in Requests, Contribute(r)
  PROVE  UNCHANGED <<videos, storage, disk, taken, variants, progress, tasks, scene, detail, listed, late, watched,
                     burned, raced, doubled, throttled, sessions>>
<1>1. CASE Quiet BY <1>1 DEF Quiet, attached, world, caches, history
<1>2. CASE UNCHANGED library BY <1>2 DEF library
<1> QED
  BY <1>1, <1>2 DEF Contribute, Owns, MarkStep, Resolve, CommentStep, UncommentStep, FindRow, DanmakuStep,
  NewTag, FindTags, DelTag, AddTagsStep, RemoveTagsStep, NewList, OwnList, DelList, AddItem, RemoveItem,
  Current, ReorderVideos, Ownership, ShareStep, UnshareStep

LEMMA ContributeSeq ==
  ASSUME Store, NEW r \in Requests, Contribute(r)
  PROVE  seq' \in SeqSet /\ seq'.video = seq.video /\ seq'.file = seq.file
<1>1. seq \in SeqSet BY DEF Store
<1>2. \/ seq' = seq \/ seq' = [seq EXCEPT !.comment = @ + 1]
      \/ seq' = [seq EXCEPT !.list = @ + 1] \/ seq' = [seq EXCEPT !.share = @ + 1]
  <2>1. CASE Quiet BY <2>1 DEF Quiet
  <2>2. CASE ~Quiet
    BY <2>2 DEF Contribute, Owns, MarkStep, Resolve, CommentStep, UncommentStep, FindRow, DanmakuStep,
       NewTag, FindTags, DelTag, AddTagsStep, RemoveTagsStep, NewList, OwnList, DelList, AddItem,
       RemoveItem, Current, ReorderVideos, Ownership, ShareStep, UnshareStep
  <2> QED BY <2>1, <2>2
<1> QED BY <1>1, <1>2 DEF SeqSet

LEMMA SContribute ==
  ASSUME RequestsOK, Store, Numbered, NEW r \in Requests, Contribute(r)
  PROVE  Store' /\ Numbered'
BY ContributeApart, ContributeSeq, StoreDisk DEF Store

LEMMA SCleanupShares == ASSUME Store, Numbered, CleanupShares PROVE Store' /\ Numbered' /\ UNCHANGED req
BY StoreScene, UpsetOK DEF CleanupShares, world, caches, history

\* The tables of what viewers attach.
remarks == <<marks, comments, tagged, spoiled, items, shares, danmaku, usage, lists>>

\* Of the steps of the library only the deletion of rows takes what viewers attached.
LEMMA ServeApart ==
  ASSUME NEW r \in Requests, Serve(r), ~CommitDelete(r)
  PROVE  UNCHANGED remarks
<1>1. CASE Quiet BY <1>1 DEF Quiet, attached, world, remarks
<1>2. CASE UNCHANGED <<attached, world>> BY <1>2 DEF attached, world, remarks
<1>3. CASE ~Quiet /\ ~UNCHANGED <<attached, world>>
  <2>1. Refresh(r) \/ SaveStep(r) \/ Upsert(r) \/ SessionStep(r)
    BY <1>3 DEF Serve, Refresh, InvalidateFirst, DetailStep, GetRow, Fill, ListStep, FillList, HashStep,
       RenameStep,
       Saved, SaveFails, Discard, ExternalStep, ThumbnailStep, FfmpegStep, CoverUrl, ScaleCover, ThumbUrl,
       CoversStep, NextCover, TmpCover, PlaceCover, NewCover, NoExifStep, ReadExif, UrlsStep, ReadDir,
       Adopt, DelRow, BeginDelete, Unlink, Finish, ListMedia, CheckFiles, NextMissing, BurnRow,
       ProgressStep, BurnRecord, ListVariants, CheckReport, AtEnd, ViewStep, EditStep, Drop
  <2>2. CASE Refresh(r) BY <2>2 DEF Refresh, attached, remarks
  <2>3. CASE SaveStep(r) BY <2>3 DEF SaveStep, attached, remarks
  <2>4. CASE Upsert(r) BY <2>4 DEF Upsert, remarks
  <2>5. CASE SessionStep(r) BY <2>5 DEF SessionStep, attached, remarks
  <2> QED BY <2>1, <2>2, <2>3, <2>4, <2>5
<1> QED BY <1>1, <1>2, <1>3

\* A call takes nothing that viewers attached, and neither does an upset.
LEMMA CallApart ==
  ASSUME NEW r \in Requests, Arrive(r) \/ Engage(r)
  PROVE  /\ UNCHANGED <<videos, storage, disk, taken, seq, variants, progress, tasks, detail, listed, late, watched,
                        burned, raced, doubled, throttled, sessions>>
         /\ UNCHANGED remarks
<1>1. \E op, q : Call(r, op, q)
  BY DEF Arrive, UploadVideo, AddExternalVideo, ScanMedia, DeleteVideo, DeleteVideos, UpdateVideo,
     BatchUpdateCategory,
         UploadCover, BackfillThumbnails, BackfillExif, SweepMissing, GetVideo, ListVideos, ViewVideo,
         BurnVideo, UpdatePlaybackHistory, StartSession, Heartbeat, StopSession, Watcher,
         Engage, ToggleLike, ToggleFavorite, CreateComment, DeleteComment, CreateDanmaku, CreateTag,
         DeleteTag, AddTags, RemoveTags, CreatePlaylist, DeletePlaylist, BatchAddVideos,
         RemoveVideoFromPlaylist, ReorderPlaylist, CreateShareLink, DeleteShareLink, RevokeMyShare, Guarded, OnList
<1> QED BY <1>1 DEF Call, attached, world, caches, history, remarks

LEMMA UpsetsApart ==
  ASSUME RunTask \/ TimePasses \/ LoseFile \/ RestoreFile
  PROVE  UNCHANGED remarks /\ UNCHANGED req
BY DEF RunTask, TimePasses, LoseFile, RestoreFile, attached, world, remarks

LEMMA NoCommentIsNone == \A row \in CommentRows : row # NoComment
BY LibraryAssumption DEF IdAssumption, CommentRows, NoComment

LEMMA RemarksCommentStep ==
  ASSUME Base, NEW r \in Requests, CommentStep(r)
  PROVE  Remarks'
<1> DEFINE row == [video |-> req[r].video, user |-> req[r].user, parent |-> req[r].parent]
<1>1. req[r].op = "comment" BY RequestOK DEF Base, CommentStep, At, Paths
<1>2. req[r].user \in Users /\ req[r].parent \in Comments \cup {0} BY <1>1, RequestOK DEF Base, Fits
<1>3. UNCHANGED comments \/ (/\ req[r].video \in Existing
                             /\ seq.comment \in Comments
                             /\ comments' = [comments EXCEPT ![seq.comment] = row])
  BY DEF CommentStep
<1>4. req[r].video \in Existing => row \in CommentRows BY <1>2 DEF Existing, CommentRows
<1> HIDE DEF row
<1> QED BY <1>3, <1>4 DEF Remarks, Base

\* The comments stay in order.
LEMMA RemarksKept ==
  ASSUME Base, [Next]_vars
  PROVE  Remarks'
<1>1. CASE UNCHANGED comments BY <1>1 DEF Base, Remarks
<1>2. ASSUME NEW r \in Requests, Contribute(r), ~UNCHANGED comments PROVE Remarks'
  <2>1. CommentStep(r) \/ UncommentStep(r)
    BY <1>2 DEF Contribute, Owns, MarkStep, Resolve, FindRow, DanmakuStep,
       NewTag, FindTags, DelTag, AddTagsStep, RemoveTagsStep, NewList, OwnList, DelList, AddItem,
       RemoveItem, Current, ReorderVideos, Ownership, ShareStep, UnshareStep, Quiet, attached, others
  <2>2. CASE UncommentStep(r)
    <3>1. comments' = comments \/ \E S : comments' = [d \in Comments |-> IF d \in S THEN NoComment ELSE comments[d]]
      BY <2>2 DEF UncommentStep
    <3> QED BY <3>1 DEF Base, Remarks
  <2> QED BY <2>1, <2>2, RemarksCommentStep
<1>3. ASSUME NEW r \in Requests, CommitDelete(r) PROVE Remarks'
  <2>1. comments' = [c \in Comments |-> IF comments[c].video \in req[r].ids THEN NoComment ELSE comments[c]]
    BY <1>3 DEF CommitDelete, DeleteRows, Cascade
  <2> QED BY <2>1 DEF Base, Remarks
<1>4. CASE UNCHANGED vars BY <1>1, <1>4 DEF vars, libraryVars
<1>5. CASE CleanupShares BY <1>1, <1>5 DEF CleanupShares
<1>6. ASSUME NEW r \in Requests, Arrive(r) \/ Engage(r) \/ (Serve(r) /\ ~CommitDelete(r)) PROVE Remarks'
  BY <1>1, <1>6, CallApart, ServeApart DEF remarks
<1>7. CASE RunTask \/ TimePasses \/ LoseFile \/ RestoreFile BY <1>1, <1>7, UpsetsApart DEF remarks
<1> QED BY <1>1, <1>2, <1>3, <1>4, <1>5, <1>6, <1>7 DEF Next, LibraryNext

\* Base is inductive, and holds at the start.
LEMMA BaseKept ==
  ASSUME Base, [Next]_vars
  PROVE  Base'
<1>1. Remarks' BY RemarksKept
<1>2. RequestsOK /\ Store /\ Numbered /\ Remarks BY DEF Base
<1>3. ASSUME NEW r \in Requests, Arrive(r) PROVE Base' BY <1>1, <1>2, <1>3, RArrive, SArrive DEF Base
<1>4. ASSUME NEW r \in Requests, Serve(r) PROVE Base' BY <1>1, <1>2, <1>4, RServe, SServe DEF Base
<1>5. ASSUME NEW r \in Requests, Engage(r) PROVE Base' BY <1>1, <1>2, <1>5, REngage, SEngage DEF Base
<1>6. ASSUME NEW r \in Requests, Contribute(r) PROVE Base'
  BY <1>1, <1>2, <1>6, RContribute, SContribute DEF Base
<1>7. ASSUME UNCHANGED req PROVE RequestsOK' BY <1>2, <1>7 DEF RequestsOK
<1>8. CASE RunTask \/ TimePasses \/ LoseFile \/ RestoreFile
  BY <1>1, <1>2, <1>7, <1>8, UpsetsApart, SRunTask, STimePasses, SLoseFile, SRestoreFile DEF Base
<1>9. CASE CleanupShares BY <1>1, <1>2, <1>7, <1>9, SCleanupShares DEF Base
<1>10. CASE UNCHANGED vars
  BY <1>1, <1>2, <1>7, <1>10, StoreSame DEF Base, vars, libraryVars
<1> QED BY <1>3, <1>4, <1>5, <1>6, <1>8, <1>9, <1>10 DEF Next, LibraryNext

LEMMA BaseInit == Init => Base
<1> SUFFICES ASSUME Init PROVE Base OBVIOUS
<1>1. PICK s \in Scenarios :
       /\ videos = s.videos /\ storage = s.storage /\ variants = s.variants /\ disk = s.disk
       /\ progress = s.progress /\ comments = s.comments /\ seq = s.seq
       /\ scene = [menu |-> s.menu, users |-> s.users, asked |-> s.asked, contents |-> s.contents,
                   calls |-> s.calls, upsets |-> s.upsets, left |-> {}]
  BY DEF Init
<1>2. LibraryStart(s) /\ CommunityStart(s) BY LibraryAssumption
<1>3. RequestsOK BY IdleOK DEF Init, RequestsOK
<1>4. Remarks BY <1>1, <1>2 DEF Remarks, CommunityStart
<1>5. seq \in SeqSet /\ videos \in [Videos -> Rows \cup {NoVideo}] /\ Known \subseteq Videos
  BY <1>1, <1>2 DEF LibraryStart, SeqSet, Known
<1>6. Numbered BY <1>1, <1>2 DEF LibraryStart, Numbered, Existing
<1>7. storage \in [Users -> Nat]
  <2>1. \A u \in Users : Cardinality(BytesIn(videos, Videos, u)) \in Nat
    BY <1>5, BytesFinite, FS_CardinalityType
  <2>2. storage = [u \in Users |-> Cardinality(BytesIn(videos, Videos, u))] BY <1>1, <1>2 DEF LibraryStart
  <2> QED BY <2>1, <2>2
<1>8. scene \in SceneSet(scene) BY <1>1, <1>2 DEF LibraryStart, SceneSet
<1>9. Store BY <1>1, <1>2, <1>5, <1>7, <1>8 DEF Store, LibraryStart, Init
<1> QED BY <1>3, <1>4, <1>6, <1>9 DEF Base

-----------------------------------------------------------------------------
\* Storage: what each step does to the videos of a user.

LEMMA NoRowsChanged == ASSUME Store, UNCHANGED videos PROVE RowsKept
BY DEF Store, RowsKept, Existing

\* Of the steps of a request four make or delete rows; the others leave the rows in
\* their place, with their files and owners, and what they charge.
LEMMA ServeRows ==
  ASSUME RequestsOK, Store, NEW r \in Requests, Serve(r),
         ~SaveStep(r), ~ExternalStep(r), ~Adopt(r), ~CommitDelete(r)
  PROVE  RowsKept /\ UNCHANGED <<storage, doubled, raced, burned>> /\ seq'.video = seq.video /\ seq' \in SeqSet
<1>0. seq \in SeqSet BY DEF Store
<1>1. CASE Quiet BY <1>0, <1>1, NoRowsChanged DEF Quiet, history
<1>2. CASE RenameStep(r) BY <1>0, <1>2, NoRowsChanged DEF RenameStep, history, SeqSet
<1>3. CASE TmpCover(r) BY <1>0, <1>3, NoRowsChanged DEF TmpCover, history, SeqSet
<1>4. req[r].file \in FileSet BY RequestOK DEF RequestSet
<1>5. CASE CoverUrl(r) BY <1>0, <1>4, <1>5, UpdateCoverUrlKeeps DEF CoverUrl, history
<1>6. CASE NewCover(r) BY <1>0, <1>4, <1>6, UpdateCoverUrlKeeps, NoRowsChanged DEF NewCover, history
<1>7. CASE ThumbUrl(r) BY <1>0, <1>4, <1>7, UpdateThumbUrlKeeps DEF ThumbUrl, history
<1>8. CASE ReadExif(r) BY <1>0, <1>8, MarkExifExtractedKeeps DEF ReadExif, history
<1>9. CASE ViewStep(r) BY <1>0, <1>9, IncrementViewsKeeps DEF ViewStep, history
<1>10. CASE EditStep(r) BY <1>0, <1>10, EditVideosKeeps DEF EditStep, history
<1>11. CASE UNCHANGED <<videos, storage, seq, history>> BY <1>0, <1>11, NoRowsChanged DEF history
<1> QED BY <1>1, <1>2, <1>3, <1>5, <1>6, <1>7, <1>8, <1>9, <1>10, <1>11
  DEF Serve, Refresh, InvalidateFirst, DetailStep, GetRow, Fill, ListStep, FillList, HashStep,
      Saved, SaveFails, Discard, ThumbnailStep, FfmpegStep, ScaleCover, CoversStep,
      NextCover, PlaceCover, NoExifStep, UrlsStep, ReadDir, DelRow, BeginDelete,
      Unlink, Finish, ListMedia, CheckFiles, NextMissing, BurnRow, ProgressStep, BurnRecord, ListVariants,
      CheckReport, AtEnd, Upsert, SessionStep, Drop

\* The same of everything else that happens.
LEMMA OtherRows ==
  ASSUME Base, [Next]_vars, \A r \in Requests : ~Serve(r)
  PROVE  RowsKept /\ UNCHANGED <<storage, doubled, raced, burned, watched>>
           /\ seq'.video = seq.video /\ seq' \in SeqSet
<1>0. Store /\ seq \in SeqSet BY DEF Base, Store
<1>1. ASSUME NEW r \in Requests, Arrive(r) \/ Engage(r)
      PROVE  UNCHANGED <<videos, storage, doubled, raced, burned, watched, seq>>
  BY <1>1, CallApart
<1>2. ASSUME NEW r \in Requests, Contribute(r)
      PROVE  UNCHANGED <<videos, storage, doubled, raced, burned, watched>>
               /\ seq'.video = seq.video /\ seq' \in SeqSet
  BY <1>0, <1>2, ContributeApart, ContributeSeq
<1>3. CASE RunTask
  <2>1. Seconds \in Nat BY LibraryAssumption DEF IdAssumption
  <2>2. RowsKept BY <1>0, <1>3, <2>1, UpdateDurationKeeps, MarkExifExtractedKeeps, NoRowsChanged DEF RunTask
  <2> QED BY <1>0, <1>3, <2>2 DEF RunTask, history
<1>4. CASE TimePasses \/ LoseFile \/ RestoreFile \/ CleanupShares
  BY <1>0, <1>4, NoRowsChanged DEF TimePasses, LoseFile, RestoreFile, CleanupShares, history, world
<1>5. CASE UNCHANGED vars BY <1>0, <1>5, NoRowsChanged DEF vars, libraryVars
<1> QED BY <1>0, <1>1, <1>2, <1>3, <1>4, <1>5, NoRowsChanged DEF Next, LibraryNext

-----------------------------------------------------------------------------
\* The bytes of two sets of videos.
LEMMA BytesSplit ==
  ASSUME NEW table \in [Videos -> Rows \cup {NoVideo}], NEW V \in SUBSET Videos, NEW W \in SUBSET Videos, NEW u,
         V \cap W = {}
  PROVE  /\ Cardinality(BytesIn(table, V \cup W, u)) = Cardinality(BytesIn(table, V, u))
           + Cardinality(BytesIn(table, W, u))
         /\ Cardinality(BytesIn(table, V, u)) \in Nat /\ Cardinality(BytesIn(table, W, u)) \in Nat
<1>1. BytesIn(table, V \cup W, u) = BytesIn(table, V, u) \cup BytesIn(table, W, u) BY DEF BytesIn
<1>2. BytesIn(table, V, u) \cap BytesIn(table, W, u) = {} BY DEF BytesIn
<1>3. IsFiniteSet(BytesIn(table, V, u)) /\ IsFiniteSet(BytesIn(table, W, u)) BY BytesFinite
<1> DEFINE A == BytesIn(table, V, u)
           B == BytesIn(table, W, u)
<1>4. IsFiniteSet(A) /\ IsFiniteSet(B) /\ A \cap B = {} BY <1>2, <1>3
<1> HIDE DEF A, B
<1>5. Cardinality(A) \in Nat /\ Cardinality(B) \in Nat BY <1>4, FS_CardinalityType
<1>6. Cardinality(A \cup B) = Cardinality(A) + Cardinality(B) - Cardinality(A \cap B) BY <1>4, FS_Union
<1>7. Cardinality(A \cup B) = Cardinality(A) + Cardinality(B)
  <2>1. Cardinality(A \cap B) = 0 BY <1>4, FS_EmptySet
  <2> QED BY <1>5, <1>6, <2>1
<1> USE DEF A, B
<1> QED BY <1>1, <1>5, <1>7

\* The bytes of one video.
LEMMA BytesOfOne ==
  ASSUME NEW table \in [Videos -> Rows \cup {NoVideo}], NEW v \in Videos, NEW u
  PROVE  Cardinality(BytesIn(table, {v}, u)) =
           IF table[v] # NoVideo /\ table[v].owner = u THEN Bytes(table[v]) ELSE 0
<1>1. CASE table[v] # NoVideo /\ table[v].owner = u
  <2>1. BytesIn(table, {v}, u) = {v} \X (1..Bytes(table[v])) BY <1>1 DEF BytesIn
  <2>2. Bytes(table[v]) \in Nat BY <1>1, BytesOK
  <2> DEFINE n == Bytes(table[v])
             T == 1..n
  <2>3. n \in Nat BY <2>2
  <2>4. IsFiniteSet({v}) /\ Cardinality({v}) = 1 BY FS_Singleton
  <2> HIDE DEF n
  <2>5. IsFiniteSet(T) /\ Cardinality(T) = n BY <2>3, FS_Interval
  <2> HIDE DEF T
  <2>6. Cardinality({v} \X T) = 1 * n BY <2>4, <2>5, FS_Product
  <2> USE DEF n, T
  <2>7. Cardinality(BytesIn(table, {v}, u)) = 1 * Bytes(table[v]) BY <2>1, <2>6
  <2> QED BY <1>1, <2>2, <2>7
<1>2. CASE ~(table[v] # NoVideo /\ table[v].owner = u)
  <2>1. BytesIn(table, {v}, u) = {} BY <1>2 DEF BytesIn
  <2> QED BY <1>2, <2>1, FS_EmptySet
<1> QED BY <1>1, <1>2

\* Rows with the same owners and files are charged the same.
LEMMA BytesSame ==
  ASSUME NEW table, NEW other, NEW V, NEW u,
         \A v \in V : /\ table[v] # NoVideo <=> other[v] # NoVideo
                      /\ table[v] # NoVideo => table[v].owner = other[v].owner /\ table[v].file = other[v].file
  PROVE  BytesIn(table, V, u) = BytesIn(other, V, u)
<1>1. \A v \in V : table[v] # NoVideo => Bytes(table[v]) = Bytes(other[v]) BY DEF Bytes
<1> QED BY <1>1 DEF BytesIn

\* What is charged to a user, as a number of bytes.
LEMMA ChargeIs == ASSUME NEW V, NEW u \in Users PROVE Charge(V)[u] = Cardinality(BytesIn(videos, V, u))
BY DEF Charge

\* A step that keeps the rows keeps what they charge.
LEMMA ChargeKept ==
  ASSUME Store, RowsKept
  PROVE  \A u \in Users : Cardinality(BytesIn(videos, Existing, u))' = Cardinality(BytesIn(videos, Existing, u))
<1> TAKE u \in Users
<1>1. \A v \in Existing :
        /\ videos[v] # NoVideo <=> videos'[v] # NoVideo
        /\ videos[v] # NoVideo => videos[v].owner = videos'[v].owner /\ videos[v].file = videos'[v].file
  BY DEF RowsKept, Existing
<1>2. BytesIn(videos, Existing, u) = BytesIn(videos', Existing, u) BY <1>1, BytesSame
<1>3. Existing' = Existing BY DEF RowsKept
<1>4. BytesIn(videos, Existing, u)' = BytesIn(videos', Existing', u) BY DEF BytesIn, Bytes
<1> QED BY <1>2, <1>3, <1>4

\* What one more video takes, in any table.
LEMMA BytesOfOneMore ==
  ASSUME NEW table \in [Videos -> Rows \cup {NoVideo}], NEW V \in SUBSET Videos, NEW v \in Videos, NEW u,
         v \notin V
  PROVE  /\ Cardinality(BytesIn(table, V \cup {v}, u)) =
              Cardinality(BytesIn(table, V, u)) + Cardinality(BytesIn(table, {v}, u))
         /\ Cardinality(BytesIn(table, V, u)) \in Nat
<1> DEFINE W == {v}
<1>1. W \in SUBSET Videos OBVIOUS
<1>2. V \cap W = {} OBVIOUS
<1> HIDE DEF W
<1>3. Cardinality(BytesIn(table, V \cup W, u)) =
           Cardinality(BytesIn(table, V, u)) + Cardinality(BytesIn(table, W, u))
  BY <1>1, <1>2, BytesSplit
<1>4. Cardinality(BytesIn(table, V, u)) \in Nat BY <1>1, <1>2, BytesSplit
<1> QED BY <1>3, <1>4 DEF W

\* What the row of a new video adds to what a table charges.
LEMMA OneMoreSum ==
  ASSUME NEW old \in [Videos -> Rows \cup {NoVideo}], NEW new \in [Videos -> Rows \cup {NoVideo}],
         NEW E \in SUBSET Videos, NEW v \in Videos \ E, NEW u,
         \A w \in E : new[w] = old[w], new[v] # NoVideo
  PROVE  /\ Cardinality(BytesIn(old, E, u)) \in Nat
         /\ Cardinality(BytesIn(new, E \cup {v}, u)) =
              Cardinality(BytesIn(old, E, u)) + (IF new[v].owner = u THEN Bytes(new[v]) ELSE 0)
<1>1. BytesIn(new, E, u) = BytesIn(old, E, u) BY BytesSame
<1>2. /\ Cardinality(BytesIn(new, E \cup {v}, u)) =
           Cardinality(BytesIn(new, E, u)) + Cardinality(BytesIn(new, {v}, u))
      /\ Cardinality(BytesIn(new, E, u)) \in Nat
  BY BytesOfOneMore
<1>3. Cardinality(BytesIn(new, {v}, u)) = IF new[v].owner = u THEN Bytes(new[v]) ELSE 0 BY BytesOfOne
<1> QED BY <1>1, <1>2, <1>3

\* What one more row charges.
LEMMA OneMoreCharge ==
  ASSUME Store, NEW v \in Videos, v \notin Existing, Existing' = Existing \cup {v},
         \A w \in Existing : videos'[w] = videos[w],
         videos' \in [Videos -> Rows \cup {NoVideo}], videos'[v] # NoVideo
  PROVE  \A u \in Users :
           /\ Cardinality(BytesIn(videos, Existing, u)) \in Nat
           /\ Cardinality(BytesIn(videos', Existing', u)) =
                Cardinality(BytesIn(videos, Existing, u)) + (IF videos'[v].owner = u THEN Bytes(videos'[v]) ELSE 0)
<1> TAKE u \in Users
<1> DEFINE E == Existing
           F == Existing'
<1>1. /\ videos \in [Videos -> Rows \cup {NoVideo}] /\ E \in SUBSET Videos /\ v \in Videos \ E
      /\ \A w \in E : videos'[w] = videos[w]
      /\ F = E \cup {v}
  BY DEF Store, Existing
<1> HIDE DEF E, F
<1>2. /\ Cardinality(BytesIn(videos, E, u)) \in Nat
      /\ Cardinality(BytesIn(videos', F, u)) =
           Cardinality(BytesIn(videos, E, u)) + (IF videos'[v].owner = u THEN Bytes(videos'[v]) ELSE 0)
  BY <1>1, OneMoreSum
<1> QED BY <1>2 DEF E, F

\* A step that keeps what is charged keeps StorageMatches.
LEMMA StorageKept ==
  ASSUME Store, StorageMatches, RowsKept, UNCHANGED <<storage, doubled>>
  PROVE  StorageMatches'
BY ChargeKept DEF StorageMatches, Charge
\* The four actions that make or delete rows, one after the other: a row without
\* a file, an upload, a scan, and a deletion, which subtracts what it read when it
\* began, and so is wrong only for users who are put among the doubled.
LEMMA StorageExternalStep ==
  ASSUME Base, StorageMatches, NEW r \in Requests, ExternalStep(r)
  PROVE  StorageMatches'
<1> DEFINE row == NewVideo(seq.video, req[r].user, "external", NoFile, None)
<1>0. RequestsOK /\ Store /\ Numbered BY DEF Base
<1>1. seq.video \in Videos BY <1>0, RoomOK DEF ExternalStep, SaveExternalVideo
<1>2. req[r].user \in Users \cup {0} /\ NoFile \in FileSet
  BY <1>0, RequestOK DEF RequestSet, NoFile, File, FileSet, None
<1>3. row \in Rows /\ row.id = seq.video /\ row.file = NoFile BY <1>1, <1>2, NewVideoOK
<1>4. RoomFor(1) /\ videos' = [videos EXCEPT ![seq.video] = row] /\ seq' = [seq EXCEPT !.video = @ + 1]
  BY DEF ExternalStep, SaveExternalVideo
<1>5. UNCHANGED <<storage, disk, taken, variants, progress, tasks, scene, detail, doubled>>
  BY DEF ExternalStep, attached, world, caches, history
<1> HIDE DEF row
<1>6. storage' \in [Users -> Nat] /\ tasks' \subseteq TaskSet BY <1>0, <1>5 DEF Store
<1>7. /\ Store' /\ Existing' = Existing \cup {seq.video} /\ seq.video \notin Existing
      /\ \A v \in Existing : videos'[v] = videos[v]
  BY <1>0, <1>3, <1>4, <1>5, <1>6, OneMoreRow
<1>8. videos'[seq.video] = row BY <1>0, <1>1, <1>4 DEF Store
<1>9. Bytes(row) = 0 BY <1>3 DEF Bytes, NoFile, File
<1>10. \A u \in Users : Cardinality(BytesIn(videos', Existing', u)) = Cardinality(BytesIn(videos, Existing, u))
  <2>1. videos' \in [Videos -> Rows \cup {NoVideo}] /\ videos'[seq.video] # NoVideo
    BY <1>3, <1>7, <1>8, RowIsNoVideo DEF Store
  <2>2. Store BY <1>0
  <2>3. \A u \in Users :
          /\ Cardinality(BytesIn(videos, Existing, u)) \in Nat
          /\ Cardinality(BytesIn(videos', Existing', u)) =
               Cardinality(BytesIn(videos, Existing, u))
                        + (IF videos'[seq.video].owner = u THEN Bytes(videos'[seq.video]) ELSE 0)
    BY <1>1, <1>7, <2>1, <2>2, OneMoreCharge
  <2> TAKE u \in Users
  <2> DEFINE n == Cardinality(BytesIn(videos, Existing, u))
             m == Cardinality(BytesIn(videos', Existing', u))
  <2>4. n \in Nat /\ m = n + (IF row.owner = u THEN Bytes(row) ELSE 0) BY <1>8, <2>3
  <2> HIDE DEF n, m
  <2>5. m = n BY <1>9, <2>4
  <2> QED BY <2>5 DEF n, m
<1> QED BY <1>5, <1>10 DEF StorageMatches, Charge

LEMMA StorageSaveStep ==
  ASSUME Base, StorageMatches, NEW r \in Requests, SaveStep(r)
  PROVE  StorageMatches'
<1> DEFINE w == req[r].user
           file == req[r].file
           row == NewVideo(seq.video, w, SourceOf(file), file, file.content)
<1>0. RequestsOK /\ Store /\ Numbered BY DEF Base
<1>1. CASE Outcome(w, file) = "ok"
  <2>1. /\ RoomFor(1) /\ videos' = [videos EXCEPT ![seq.video] = row] /\ seq' = [seq EXCEPT !.video = @ + 1]
        /\ storage' = [storage EXCEPT ![w] = @ + SizeOf[file.content]]
        /\ UNCHANGED doubled
    BY <1>1 DEF SaveStep, SaveLocalVideoWithQuota, history
  <2>2. /\ w \in Users /\ file.kind = "media" /\ file.content \in Contents
        /\ row \in Rows /\ row.id = seq.video /\ row.owner = w /\ row.file = file
    BY <1>0, <2>1, SavedRow DEF SaveStep
  <2>3. seq.video \in Videos BY <1>0, <2>1, RoomOK
  <2>4. Bytes(row) = SizeOf[file.content] /\ SizeOf[file.content] \in Nat
    BY <2>2, LibraryAssumption DEF Bytes, IdAssumption
  <2>5. /\ Existing' = Existing \cup {seq.video} /\ seq.video \notin Existing
        /\ \A v \in Existing : videos'[v] = videos[v]
        /\ videos' \in [Videos -> Rows \cup {NoVideo}]
        /\ videos'[seq.video] = row
    <3>1. Store' BY <1>0, SSaveStep
    <3>2. seq.video \notin Existing
      <4>1. seq.video \in Nat BY <2>3, VideosAre
      <4> QED BY <1>0, <4>1 DEF Numbered
    <3>3. row # NoVideo BY <2>2, RowIsNoVideo
    <3> HIDE DEF row
    <3> QED BY <1>0, <2>1, <2>3, <3>1, <3>2, <3>3 DEF Store, Existing
  <2> HIDE DEF row, w, file
  <2>6. \A u \in Users : Cardinality(BytesIn(videos', Existing', u)) =
                          Cardinality(BytesIn(videos, Existing, u)) + (IF u = w THEN SizeOf[file.content] ELSE 0)
    <3>1. videos'[seq.video] # NoVideo BY <2>2, <2>5, RowIsNoVideo
    <3> DEFINE v == seq.video
    <3>2. /\ Store /\ v \in Videos /\ v \notin Existing /\ Existing' = Existing \cup {v}
          /\ \A x \in Existing : videos'[x] = videos[x]
          /\ videos' \in [Videos -> Rows \cup {NoVideo}] /\ videos'[v] # NoVideo
      BY <1>0, <2>3, <2>5, <3>1
    <3>3. videos'[v].owner = w /\ Bytes(videos'[v]) = SizeOf[file.content] BY <2>2, <2>4, <2>5
    <3> HIDE DEF v
    <3>4. \A u \in Users : Cardinality(BytesIn(videos', Existing', u)) =
            Cardinality(BytesIn(videos, Existing, u)) + (IF videos'[v].owner = u THEN Bytes(videos'[v]) ELSE 0)
      BY <3>2, OneMoreCharge
    <3> QED BY <3>3, <3>4
  <2>7. \A u \in Users : storage'[u] = storage[u] + (IF u = w THEN SizeOf[file.content] ELSE 0)
    BY <1>0, <2>1, <2>4 DEF Store
  <2>8. \A u \in Users \ doubled : storage[u] = Cardinality(BytesIn(videos, Existing, u))
    BY DEF StorageMatches, Charge
  <2>9. \A u \in Users \ doubled' : storage'[u] = Cardinality(BytesIn(videos', Existing', u))
    BY <2>1, <2>6, <2>7, <2>8
  <2> QED BY <2>9 DEF StorageMatches, Charge
<1>2. CASE Outcome(w, file) # "ok"
  BY <1>0, <1>2, StorageKept, NoRowsChanged DEF SaveStep, history
<1> QED BY <1>1, <1>2

LEMMA StorageAdopt ==
  ASSUME Base, StorageMatches, NEW r \in Requests, Adopt(r)
  PROVE  StorageMatches'
<1>0. RequestsOK /\ Store /\ Numbered BY DEF Base
<1> DEFINE files == req[r].files
           New == Existing' \ Existing
<1>1. files \in SUBSET FileSet /\ IsFiniteSet(files) BY <1>0, RequestOK DEF RequestSet, Fits
<1>2. BatchSaveLocalVideos(files) BY DEF Adopt
<1>3. /\ videos' \in [Videos -> Rows \cup {NoVideo}]
      /\ \A v \in Videos : v < seq.video => videos'[v] = videos[v]
      /\ \A v \in Existing' : v >= seq.video => videos'[v].owner = 0
  BY <1>0, <1>1, <1>2, AdoptedRows
<1>4. seq.video \in Nat BY <1>0 DEF Store, SeqSet
<1>5. \A v \in Existing : v \in Videos /\ videos'[v] = videos[v] /\ v \in Existing'
  <2>1. \A v \in Existing : v \in Videos /\ v < seq.video /\ videos[v] # NoVideo
    BY <1>0 DEF Numbered, Existing
  <2>2. \A v \in Existing : videos'[v] = videos[v] BY <1>3, <2>1
  <2> QED BY <2>1, <2>2 DEF Existing
<1>6. \A v \in New : v \in Videos /\ videos'[v].owner = 0
  <2> TAKE v \in New
  <2>1. v \in Videos /\ videos'[v] # NoVideo /\ v \in Existing' /\ v \notin Existing BY DEF Existing
  <2>2. v \in Nat BY <2>1, VideosAre
  <2>3. ~(v < seq.video) BY <1>3, <2>1 DEF Existing
  <2>4. v >= seq.video BY <1>4, <2>2, <2>3
  <2> QED BY <1>3, <2>1, <2>4
<1>7. \A u \in Users : BytesIn(videos', Existing', u) = BytesIn(videos, Existing, u)
  <2> TAKE u \in Users
  <2>1. u # 0 BY LibraryAssumption DEF IdAssumption
  <2>2. BytesIn(videos', Existing', u) = BytesIn(videos', Existing, u) BY <1>5, <1>6, <2>1 DEF BytesIn
  <2>3. BytesIn(videos', Existing, u) = BytesIn(videos, Existing, u) BY <1>5, BytesSame
  <2> QED BY <2>2, <2>3
<1>8. UNCHANGED <<storage, doubled>> BY DEF Adopt
<1> QED BY <1>7, <1>8 DEF StorageMatches, Charge

LEMMA StorageCommitDelete ==
  ASSUME Base, StorageMatches, NEW r \in Requests, CommitDelete(r)
  PROVE  StorageMatches'
<1>0. RequestsOK /\ Store /\ Numbered BY DEF Base
<1> DEFINE V == req[r].ids \cap Existing
           Rest == Existing \ req[r].ids
<1>1. /\ storage' = [u \in Users |-> Less(storage[u], req[r].charge[u])]
      /\ doubled' = doubled \cup {u \in Users : req[r].charge[u] # Charge(req[r].ids)[u]}
  BY DEF CommitDelete, Discharge, ChargeOf
<1>2. Existing' = Rest /\ \A v \in Rest : videos'[v] = videos[v] BY <1>0, SCommitDelete
<1>3. V \cup Rest = Existing /\ V \cap Rest = {} /\ V \subseteq Videos /\ Rest \subseteq Videos
  BY DEF Existing
<1>4. videos \in [Videos -> Rows \cup {NoVideo}] /\ storage \in [Users -> Nat] BY <1>0 DEF Store
<1>5. ASSUME NEW u \in Users \ doubled' PROVE storage'[u] = Cardinality(BytesIn(videos', Existing', u))
  <2> DEFINE a == Cardinality(BytesIn(videos, V, u))
             b == Cardinality(BytesIn(videos, Rest, u))
  <2>0. u \in Users \ doubled BY <1>1
  <2>1. storage[u] = Cardinality(BytesIn(videos, Existing, u))
    <3>1. storage[u] = Charge(Existing)[u] BY <2>0 DEF StorageMatches
    <3> QED BY <2>0, <3>1, ChargeIs
  <2>2. Cardinality(BytesIn(videos, Existing, u)) = a + b /\ a \in Nat /\ b \in Nat
    <3>1. Existing = V \cup Rest /\ V \cap Rest = {} /\ V \in SUBSET Videos /\ Rest \in SUBSET Videos BY <1>3
    <3> HIDE DEF V, Rest
    <3> QED BY <1>4, <3>1, BytesSplit
  <2>3. BytesIn(videos, req[r].ids, u) = BytesIn(videos, V, u)
    <3>1. req[r].ids \subseteq Videos BY <1>0, RequestOK DEF RequestSet
    <3> QED BY <3>1 DEF BytesIn, Existing
  <2>4. req[r].charge[u] = a BY <1>1, <2>3, ChargeIs
  <2>5. BytesIn(videos', Rest, u) = BytesIn(videos, Rest, u) BY <1>2, BytesSame
  <2> HIDE DEF a, b
  <2>6. storage'[u] = Less(a + b, a) BY <1>1, <2>1, <2>2, <2>4
  <2>7. storage'[u] = b BY <2>2, <2>6 DEF Less
  <2> QED BY <1>2, <2>5, <2>7 DEF b
<1> QED BY <1>5 DEF StorageMatches, Charge

\* The storage charged to a user is what the videos of the user take.
LEMMA StorageInit == Init => StorageMatches
<1> SUFFICES ASSUME Init PROVE StorageMatches OBVIOUS
<1>1. PICK s \in Scenarios : videos = s.videos /\ storage = s.storage BY DEF Init
<1>2. LibraryStart(s) BY <1>1, LibraryAssumption
<1>3. storage = [u \in Users |-> Cardinality(BytesIn(videos, Videos, u))] BY <1>1, <1>2 DEF LibraryStart
<1>4. \A u \in Users : BytesIn(videos, Videos, u) = BytesIn(videos, Existing, u) BY DEF BytesIn, Existing
<1> QED BY <1>3, <1>4 DEF StorageMatches, Charge

\* What is charged to an uploader (users.storage_used_bytes) is the size of the
\* videos that are there, unless two deletions of one video both subtracted it.
THEOREM StorageCorrect == Spec => []StorageMatches
<1>1. Init => Base /\ StorageMatches BY BaseInit, StorageInit
<1>2. ASSUME Base, StorageMatches, [Next]_vars PROVE Base' /\ StorageMatches'
  <2>1. Base' BY <1>2, BaseKept
  <2>2. RequestsOK /\ Store BY <1>2 DEF Base
  <2>3. ASSUME NEW r \in Requests, Serve(r) PROVE StorageMatches'
    <3>1. CASE SaveStep(r) \/ ExternalStep(r) \/ Adopt(r) \/ CommitDelete(r)
      BY <1>2, <3>1, StorageSaveStep, StorageExternalStep, StorageAdopt, StorageCommitDelete
    <3>2. CASE ~(SaveStep(r) \/ ExternalStep(r) \/ Adopt(r) \/ CommitDelete(r))
      <4>1. RowsKept /\ UNCHANGED <<storage, doubled>> BY <2>2, <2>3, <3>2, ServeRows
      <4> QED BY <1>2, <2>2, <4>1, StorageKept
    <3> QED BY <3>1, <3>2
  <2>4. CASE \A r \in Requests : ~Serve(r)
    <3>0. Base /\ StorageMatches /\ [Next]_vars BY <1>2
    <3>1. RowsKept /\ UNCHANGED <<storage, doubled>> BY <2>4, <3>0, OtherRows
    <3> QED BY <2>1, <3>0, <2>2, <3>1, StorageKept
  <2> QED BY <2>1, <2>3, <2>4
<1> QED BY <1>1, <1>2, PTL DEF Spec

-----------------------------------------------------------------------------
\* Burning.

\* A step of a request moves that request and no other one, and keeps what it is for.
LEMMA ServeMoves ==
  ASSUME RequestsOK, NEW r \in Requests, Serve(r)
  PROVE  /\ \A s \in Others(r) : req'[s] = req[s]
         /\ req'[r].op \in {req[r].op, "idle"}
         /\ req'[r].any \in {req[r].any, FALSE} \/ EditStep(r) \/ CommitDelete(r)
         /\ req'[r].op # "idle" => req'[r].parent = req[r].parent /\ req'[r].at # "comment"
<1> DEFINE Moved == /\ \A s \in Others(r) : req'[s] = req[s]
                    /\ req'[r].op \in {req[r].op, "idle"}
                    /\ req'[r].any \in {req[r].any, FALSE} \/ EditStep(r) \/ CommitDelete(r)
                    /\ req'[r].op # "idle" => req'[r].parent = req[r].parent /\ req'[r].at # "comment"
<1> SUFFICES Moved OBVIOUS
<1>0. req \in [Requests -> RequestSet] /\ req[r] \in RequestSet BY DEF RequestsOK
<1>2. Done(r) => Moved BY <1>0 DEF Go, Others, Done, Idle
<1>3. \A s : s # "comment" /\ Move(r, s) => Moved BY <1>0 DEF Go, Others, Move, To, RequestSet
<1>4. \A s, x : s # "comment" /\ Go(r, [To(r, s) EXCEPT !.rows = x]) => Moved
  BY <1>0 DEF Go, Others, To, RequestSet
<1>5. \A s, x : s # "comment" /\ Go(r, [To(r, s) EXCEPT !.file = x]) => Moved
  BY <1>0 DEF Go, Others, To, RequestSet
<1>6. \A s, x : s # "comment" /\ Go(r, [To(r, s) EXCEPT !.files = x]) => Moved
  BY <1>0 DEF Go, Others, To, RequestSet
<1>7. \A s, x : s # "comment" /\ Go(r, [To(r, s) EXCEPT !.todo = x]) => Moved
  BY <1>0 DEF Go, Others, To, RequestSet
<1>8. \A s, x : s # "comment" /\ Go(r, [To(r, s) EXCEPT !.ids = x]) => Moved
  BY <1>0 DEF Go, Others, To, RequestSet
<1>9. \A s, x : s # "comment" /\ Go(r, [To(r, s) EXCEPT !.video = x]) => Moved
  BY <1>0 DEF Go, Others, To, RequestSet
<1>10. ASSUME EditStep(r) \/ CommitDelete(r)
      PROVE  \A s, x : s # "comment" /\ Go(r, [To(r, s) EXCEPT !.any = x]) => Moved
  <2> TAKE s, x
  <2> HAVE s # "comment" /\ Go(r, [To(r, s) EXCEPT !.any = x])
  <2>1. req'[r] = [To(r, s) EXCEPT !.any = x] /\ \A t \in Others(r) : req'[t] = req[t] BY <1>0 DEF Go, Others
  <2>2. req'[r].op = req[r].op /\ req'[r].parent = req[r].parent /\ req'[r].at = s
    BY <1>0, <2>1 DEF To, RequestSet
  <2> QED BY <1>10, <2>1, <2>2
<1>11. \A s, x : s # "comment" /\ Go(r, [To(r, s) EXCEPT !.known = x]) => Moved
  BY <1>0 DEF Go, Others, To, RequestSet
<1>12. \A s, x : s # "comment" /\ Go(r, [To(r, s) EXCEPT !.ends = x]) => Moved
  BY <1>0 DEF Go, Others, To, RequestSet
<1>13. \A s, x, y : s # "comment" /\ Go(r, [To(r, s) EXCEPT !.todo = x, !.ids = y]) => Moved
  BY <1>0 DEF Go, Others, To, RequestSet
<1>14. \A s, x, y : s # "comment" /\ Go(r, [To(r, s) EXCEPT !.ids = x, !.todo = y]) => Moved
  BY <1>0 DEF Go, Others, To, RequestSet
<1>15. \A s, x, y : s # "comment" /\ Go(r, [To(r, s) EXCEPT !.rows = x, !.ids = y]) => Moved
  BY <1>0 DEF Go, Others, To, RequestSet
<1>16. \A s, x, y : s # "comment" /\ Go(r, [To(r, s) EXCEPT !.todo = x, !.rows = y]) => Moved
  BY <1>0 DEF Go, Others, To, RequestSet
<1>17. \A s, x, y : s # "comment" /\ Go(r, [To(r, s) EXCEPT !.charge = x, !.held = y]) => Moved
  BY <1>0 DEF Go, Others, To, RequestSet
<1>18. \A s, x, y, z : s # "comment" /\ Go(r, [To(r, s) EXCEPT !.video = x, !.last = y, !.todo = z]) => Moved
  BY <1>0 DEF Go, Others, To, RequestSet
<1>19. AfterThumbnail(r) => Moved BY <1>2, <1>3 DEF AfterThumbnail
<1> HIDE DEF Moved
<1>20. CASE RenameStep(r) \/ SaveStep(r) \/ SaveFails(r) \/ ThumbnailStep(r) \/ FfmpegStep(r) \/ ScaleCover(r)
            \/ ThumbUrl(r)
  BY <1>2, <1>3, <1>4, <1>5, <1>6, <1>9, <1>19, <1>20
  DEF RenameStep, SaveStep, SaveFails, ThumbnailStep, FfmpegStep, ScaleCover, ThumbUrl
<1>21. CASE NextCover(r) \/ TmpCover(r) \/ PlaceCover(r) \/ ReadExif(r) \/ CoversStep(r) \/ NoExifStep(r)
  BY <1>2, <1>3, <1>5, <1>7, <1>13, <1>18, <1>21 DEF NextCover, TmpCover, PlaceCover, ReadExif, CoversStep,
     NoExifStep
<1>22. CASE UrlsStep(r) \/ ReadDir(r) \/ DelRow(r) \/ BeginDelete(r) \/ CommitDelete(r) \/ ListMedia(r)
            \/ CheckFiles(r)
            \/ NextMissing(r)
  BY <1>2, <1>3, <1>4, <1>6, <1>10, <1>11, <1>14, <1>16, <1>17, <1>22 DEF UrlsStep, ReadDir, DelRow,
     BeginDelete,
     CommitDelete, AfterDelete, ListMedia, CheckFiles, NextMissing, Move
<1>23. CASE BurnRecord(r) \/ ListVariants(r) \/ AtEnd(r) \/ EditStep(r) \/ GetRow(r) \/ ListStep(r)
  BY <1>2, <1>3, <1>4, <1>6, <1>8, <1>10, <1>12, <1>15, <1>23
  DEF BurnRecord, ListVariants, AtEnd, EditStep, GetRow, ListStep
<1>24. CASE \/ Refresh(r) \/ InvalidateFirst(r) \/ DetailStep(r) \/ Fill(r) \/ FillList(r) \/ HashStep(r)
            \/ Saved(r) \/ Discard(r) \/ ExternalStep(r) \/ CoverUrl(r) \/ NewCover(r) \/ Adopt(r)
            \/ Unlink(r) \/ Finish(r)
            \/ BurnRow(r) \/ ProgressStep(r) \/ CheckReport(r) \/ Upsert(r) \/ ViewStep(r) \/ SessionStep(r)
            \/ Drop(r)
  BY <1>2, <1>3, <1>6, <1>24
  DEF Refresh, InvalidateFirst, DetailStep, Fill, FillList, HashStep, Saved, Discard, ExternalStep, CoverUrl,
      NewCover,
      Adopt, Unlink, Finish, BurnRow, ProgressStep, CheckReport, Upsert, ViewStep, SessionStep, Drop
<1> QED BY <1>20, <1>21, <1>22, <1>23, <1>24 DEF Serve

\* What a step forgets of the files that were left: nothing.
LEMMA LeftStays ==
  ASSUME Base, [Next]_vars
  PROVE  scene.left \subseteq scene'.left
<1>0. RequestsOK /\ Store /\ scene \in SceneSet(scene) BY DEF Base, Store
<1>1. CASE UNCHANGED scene BY <1>1
<1>2. ASSUME NEW F \in SUBSET FileSet, Upset(F) PROVE scene.left \subseteq scene'.left BY <1>0, <1>2, UpsetOK
<1>3. ASSUME NEW r \in Requests, Arrive(r) \/ Engage(r) PROVE scene.left \subseteq scene'.left
  <2>1. \E op, q : Call(r, op, q)
    BY <1>3 DEF Arrive, UploadVideo, AddExternalVideo, ScanMedia, DeleteVideo, DeleteVideos, UpdateVideo,
       BatchUpdateCategory, UploadCover, BackfillThumbnails, BackfillExif, SweepMissing, GetVideo,
       ListVideos, ViewVideo, BurnVideo, UpdatePlaybackHistory, StartSession, Heartbeat, StopSession, Watcher,
       Engage, ToggleLike, ToggleFavorite, CreateComment, DeleteComment, CreateDanmaku, CreateTag,
       DeleteTag, AddTags, RemoveTags, CreatePlaylist, DeletePlaylist, BatchAddVideos,
       RemoveVideoFromPlaylist, ReorderPlaylist, CreateShareLink, DeleteShareLink, RevokeMyShare, Guarded,
       OnList
  <2>2. scene' = [scene EXCEPT !.calls = @ - 1] BY <2>1 DEF Call
  <2> QED BY <1>0, <2>2 DEF SceneSet
<1>4. ASSUME NEW r \in Requests, Contribute(r) PROVE UNCHANGED scene BY <1>4, ContributeApart
<1>5. CASE RunTask BY <1>1, <1>5 DEF RunTask
<1>6. CASE TimePasses \/ LoseFile \/ RestoreFile \/ CleanupShares
  BY <1>2, <1>6 DEF TimePasses, LoseFile, RestoreFile, CleanupShares
<1>7. ASSUME NEW r \in Requests, Serve(r) PROVE scene.left \subseteq scene'.left
  <2>1. req[r].files \in SUBSET FileSet /\ {req[r].file} \in SUBSET FileSet BY <1>0, RequestOK DEF RequestSet
  <2>2. ASSUME NEW F \in SUBSET FileSet, RemoveFiles(F) PROVE scene.left \subseteq scene'.left
    BY <1>0, <2>2, RemoveOK
  <2>3. CASE Quiet BY <1>1, <2>3 DEF Quiet
  <2>4. CASE Drop(r) BY <1>0, <1>2, <2>4, LooseOK DEF Drop
  <2>5. CASE Discard(r) \/ Unlink(r) \/ PlaceCover(r)
    BY <1>1, <2>1, <2>2, <2>5 DEF Discard, Unlink, PlaceCover
  <2>6. CASE SaveFails(r) \/ NewCover(r) BY <1>1, <1>2, <2>6 DEF SaveFails, NewCover
  <2>7. CASE ~Quiet /\ ~Drop(r) /\ ~Discard(r) /\ ~Unlink(r) /\ ~PlaceCover(r) /\ ~SaveFails(r) /\ ~NewCover(r)
    <3>1. UNCHANGED scene
      BY <1>7, <2>7
      DEF Serve, Refresh, InvalidateFirst, DetailStep, GetRow, Fill, ListStep, FillList, HashStep, RenameStep,
          SaveStep, Saved, ExternalStep, ThumbnailStep, FfmpegStep, CoverUrl, ScaleCover, ThumbUrl, CoversStep,
          NextCover, TmpCover, NoExifStep, ReadExif, UrlsStep, ReadDir, Adopt, DelRow, BeginDelete,
          CommitDelete, Finish, ListMedia, CheckFiles, NextMissing, BurnRow, ProgressStep, BurnRecord,
          ListVariants, CheckReport, AtEnd, Upsert, ViewStep, EditStep, SessionStep
    <3> QED BY <1>1, <3>1
  <2> QED BY <2>3, <2>4, <2>5, <2>6, <2>7
<1>8. CASE UNCHANGED vars BY <1>1, <1>8 DEF vars, libraryVars
<1> QED BY <1>1, <1>3, <1>4, <1>5, <1>6, <1>7, <1>8 DEF Next, LibraryNext

\* Ids are given once: a row with an id that was given before was there before, with
\* the same owner, source and file.  And no file that was left is forgotten.
OldRows ==
  /\ seq.video =< seq'.video
  /\ \A v \in Existing' : v < seq.video =>
       /\ v \in Existing
       /\ videos'[v].id = videos[v].id /\ videos'[v].owner = videos[v].owner
       /\ videos'[v].source = videos[v].source /\ videos'[v].file = videos[v].file
  /\ scene.left \subseteq scene'.left

LEMMA OldRowsStay ==
  ASSUME Base, [Next]_vars
  PROVE  OldRows
<1>a. scene.left \subseteq scene'.left BY LeftStays
<1>0. RequestsOK /\ Store /\ Numbered /\ seq \in SeqSet BY DEF Base, Store
<1>1. ASSUME RowsKept, seq'.video = seq.video PROVE OldRows BY <1>a, <1>0, <1>1 DEF RowsKept, OldRows, SeqSet
<1>2. CASE \A r \in Requests : ~Serve(r)
  <2>1. [Next]_vars OBVIOUS
  <2> QED BY <1>1, <1>2, <2>1, OtherRows
<1>3. ASSUME NEW r \in Requests, Serve(r) PROVE OldRows
  <2>1. CASE ~SaveStep(r) /\ ~ExternalStep(r) /\ ~Adopt(r) /\ ~CommitDelete(r)
    <3>1. RowsKept /\ seq'.video = seq.video BY <1>0, <1>3, <2>1, ServeRows
    <3> QED BY <1>1, <3>1
  <2>2. ASSUME NEW row, videos' = [videos EXCEPT ![seq.video] = row], seq' = [seq EXCEPT !.video = @ + 1]
        PROVE OldRows
    <3>1. seq'.video = seq.video + 1 /\ seq.video \in Nat BY <1>0, <2>2 DEF SeqSet
    <3>2. \A v \in Videos : v < seq.video => videos'[v] = videos[v] BY <1>0, <2>2, <3>1, VideosAre DEF Store
    <3> QED BY <1>a, <3>1, <3>2 DEF OldRows, Existing
  <2>3. CASE SaveStep(r)
    <3>1. \/ UNCHANGED <<videos, seq>>
          \/ \E row : videos' = [videos EXCEPT ![seq.video] = row] /\ seq' = [seq EXCEPT !.video = @ + 1]
      BY <2>3 DEF SaveStep, SaveLocalVideoWithQuota
    <3>2. UNCHANGED <<videos, seq>> => OldRows BY <1>0, <1>1, NoRowsChanged
    <3> QED BY <2>2, <3>1, <3>2
  <2>4. CASE ExternalStep(r) BY <2>2, <2>4 DEF ExternalStep, SaveExternalVideo
  <2>5. CASE Adopt(r)
    <3> DEFINE files == req[r].files
    <3>1. files \in SUBSET FileSet /\ IsFiniteSet(files) BY <1>0, RequestOK DEF RequestSet, Fits
    <3>2. BatchSaveLocalVideos(files) BY <2>5 DEF Adopt
    <3>3. /\ \A v \in Videos : v < seq.video => videos'[v] = videos[v]
          /\ seq' = [seq EXCEPT !.video = @ + Cardinality(files)]
          /\ Cardinality(files) \in Nat
      BY <1>0, <3>1, <3>2, AdoptedRows
    <3> HIDE DEF files
    <3>4. seq.video =< seq'.video BY <1>0, <3>3 DEF SeqSet
    <3> QED BY <1>a, <3>3, <3>4 DEF OldRows, Existing
  <2>6. CASE CommitDelete(r)
    <3>1. Existing' = Existing \ req[r].ids /\ \A v \in Existing' : videos'[v] = videos[v]
      BY <1>0, <2>6, SCommitDelete
    <3>2. seq' = seq BY <2>6 DEF CommitDelete
    <3> QED BY <1>a, <1>0, <3>1, <3>2 DEF OldRows, SeqSet
  <2> QED BY <1>3, <2>1, <2>3, <2>4, <2>5, <2>6
<1> QED BY <1>2, <1>3

-----------------------------------------------------------------------------
\* Who has watched what: the history remembers every report of an end that the table
\* holds, and forgets nothing.
Remembered == \A u \in Users, v \in Videos : IsWatchComplete(progress[u][v]) => <<u, v>> \in watched

\* Whoever asks for the deletion of a video that was watched has watched it, or the
\* video is an image; or it has gone, and its id is not given again.
Earned(u, v) == <<u, v>> \in watched \/ (v \in Existing => IsImageSource(videos[v]))

Burning(q) ==
  /\ q.op \in {"burn", "playback"} => q.video < seq.video
  /\ q.at = "burnrecord" => Earned(q.user, q.video)
  /\ q.at = "variants" \/ (q.at \in {"tx", "settle"} /\ q.op \in {"burn", "playback"}) =>
       \A row \in q.rows : OwnerOrAdmin(q.user, row) /\ (IsImageSource(row) \/ <<q.user, row.id>> \in watched)

\* The invariant of burning.
BurnInv == BurnedWasWatched /\ Remembered /\ \A r \in Requests : Burning(req[r])

\* Nobody is forgotten who reported an end, and no report of an end is missed.
LEMMA WatchedGrows ==
  ASSUME Base, BurnInv, [Next]_vars
  PROVE  watched \subseteq watched' /\ Remembered'
<1>0. RequestsOK /\ Store BY DEF Base
<1>1. CASE UNCHANGED <<watched, progress>> BY <1>1 DEF BurnInv, Remembered
<1>2. ASSUME NEW r \in Requests, CommitDelete(r) PROVE watched \subseteq watched' /\ Remembered'
  <2>1. /\ progress' = [u \in Users |-> [v \in Videos |-> IF v \in req[r].ids THEN NoReport ELSE progress[u][v]]]
        /\ watched' = watched
    BY <1>2 DEF CommitDelete, DeleteRows, Cascade, world
  <2>2. ~IsWatchComplete(NoReport) BY DEF IsWatchComplete, NoReport
  <2> QED BY <2>1, <2>2 DEF BurnInv, Remembered
<1>3. ASSUME NEW r \in Requests, Upsert(r) PROVE watched \subseteq watched' /\ Remembered'
  <2> DEFINE u == req[r].user
             v == req[r].video
  <2>1. CASE UNCHANGED <<progress, watched>> BY <1>1, <2>1
  <2>2. CASE ~UNCHANGED <<progress, watched>>
    <3>1. /\ progress' = [progress EXCEPT ![u][v] = req[r].report]
          /\ watched' = IF req[r].ends \/ IsWatchComplete(req[r].report) THEN watched \cup {<<u, v>>} ELSE watched
      BY <1>3, <2>2 DEF Upsert, UpsertPlayback
    <3>2. \A a \in Users, b \in Videos : progress'[a][b] = progress[a][b]
             \/ (a = u /\ b = v /\ progress'[a][b] = req[r].report)
      BY <1>0, <3>1 DEF Store
    <3> QED BY <3>1, <3>2 DEF BurnInv, Remembered
  <2> QED BY <2>1, <2>2
<1>4. ASSUME NEW r \in Requests, Serve(r), ~CommitDelete(r), ~Upsert(r) PROVE UNCHANGED <<watched, progress>>
  <2>1. CASE Quiet BY <2>1 DEF Quiet, attached, world
  <2>2. CASE UNCHANGED <<attached, world>> BY <2>2 DEF attached, world
  <2>3. CASE ~Quiet /\ ~UNCHANGED <<attached, world>>
    <3>1. Refresh(r) \/ SaveStep(r) \/ SessionStep(r)
      BY <1>4, <2>3 DEF Serve, Refresh, InvalidateFirst, DetailStep, GetRow, Fill, ListStep, FillList,
         HashStep,
         RenameStep, Saved, SaveFails, Discard, ExternalStep, ThumbnailStep, FfmpegStep, CoverUrl,
         ScaleCover, ThumbUrl, CoversStep, NextCover, TmpCover, PlaceCover, NewCover, NoExifStep, ReadExif,
         UrlsStep, ReadDir, Adopt, DelRow, BeginDelete, Unlink, Finish, ListMedia, CheckFiles, NextMissing,
         BurnRow, ProgressStep, BurnRecord, ListVariants, CheckReport, AtEnd, ViewStep, EditStep, Drop
    <3>2. CASE Refresh(r) BY <3>2 DEF Refresh, attached
    <3>3. CASE SaveStep(r) BY <3>3 DEF SaveStep, attached
    <3>4. CASE SessionStep(r) BY <3>4 DEF SessionStep, attached
    <3> QED BY <3>1, <3>2, <3>3, <3>4
  <2> QED BY <2>1, <2>2, <2>3
<1>5. CASE CleanupShares BY <1>1, <1>5 DEF CleanupShares, world
<1>6. CASE UNCHANGED vars BY <1>1, <1>6 DEF vars, libraryVars
<1>7. ASSUME NEW r \in Requests, Arrive(r) \/ Engage(r) \/ Contribute(r) PROVE UNCHANGED <<watched, progress>>
  BY <1>7, CallApart, ContributeApart
<1>8. CASE RunTask \/ TimePasses \/ LoseFile \/ RestoreFile
  BY <1>1, <1>8 DEF RunTask, TimePasses, LoseFile, RestoreFile, attached, world
<1> QED BY <1>1, <1>2, <1>3, <1>4, <1>5, <1>6, <1>7, <1>8 DEF Next, LibraryNext

\* What a request relied on still holds after a step of another one.
LEMMA BurningStays ==
  ASSUME Base, BurnInv, [Next]_vars, NEW q \in RequestSet, Paths(q), Fits(q), Burning(q)
  PROVE  Burning(q)'
<1>1. OldRows /\ watched \subseteq watched' BY OldRowsStay, WatchedGrows
<1>2. seq.video \in Nat /\ seq'.video \in Nat BY BaseKept DEF Base, Store, SeqSet
<1>3. q.op \in {"burn", "playback"} => q.video \in Nat /\ q.video < seq.video /\ q.video < seq'.video
  <2> SUFFICES ASSUME q.op \in {"burn", "playback"}
           PROVE q.video \in Nat /\ q.video < seq.video /\ q.video < seq'.video
    OBVIOUS
  <2>1. q.video \in Videos BY DEF Fits
  <2>2. q.video \in Nat BY <2>1, VideosAre
  <2>3. q.video < seq.video BY DEF Burning
  <2>4. seq.video =< seq'.video BY <1>1 DEF OldRows
  <2> QED BY <1>2, <2>2, <2>3, <2>4
<1>4. ASSUME q.at = "burnrecord" PROVE Earned(q.user, q.video)'
  <2>1. q.op \in {"burn", "playback"} BY <1>4 DEF Paths
  <2>2. Earned(q.user, q.video) BY <1>4 DEF Burning
  <2>3. q.video \in Existing' => q.video \in Existing /\ videos'[q.video].source = videos[q.video].source
    BY <1>1, <1>3, <2>1 DEF OldRows
  <2> QED BY <1>1, <2>2, <2>3 DEF Earned, IsImageSource
<1> QED BY <1>1, <1>3, <1>4 DEF Burning

\* What a call makes of a request.
LEMMA CallIs ==
  ASSUME RequestsOK, RequestsOK', NEW r \in Requests, NEW op, NEW q, Call(r, op, q)
  PROVE  /\ \A s \in Others(r) : req'[s] = req[s]
         /\ req'[r].op = op /\ req'[r].at = q.at /\ req'[r].video = q.video /\ req'[r].user = q.user
         /\ req'[r].ids = q.ids /\ req'[r].any = q.any /\ req'[r].file = q.file /\ req'[r].files = q.files
         /\ req'[r].rows = q.rows /\ req'[r].todo = q.todo /\ req'[r].parent = q.parent
<1>1. req \in [Requests -> RequestSet] /\ req'[r] \in RequestSet BY DEF RequestsOK
<1>2. req'[r] = [q EXCEPT !.op = op] /\ \A s \in Others(r) : req'[s] = req[s] BY <1>1 DEF Call, Go, Others
<1> QED BY <1>1, <1>2 DEF RequestSet

\* A call, and a step of what viewers attach, burns nothing.
LEMMA ArriveMoves ==
  ASSUME Base, Base', NEW r \in Requests, Arrive(r) \/ Engage(r)
  PROVE  /\ \A s \in Others(r) : req'[s] = req[s]
         /\ req'[r].op \in {"burn", "playback"} => req'[r].at \in {"burnrow", "check"} /\ req'[r].video \in Known
<1>0. RequestsOK /\ RequestsOK' BY DEF Base
<1> DEFINE Moved == /\ \A s \in Others(r) : req'[s] = req[s]
                    /\ req'[r].op \in {"burn", "playback"} => req'[r].at \in {"burnrow", "check"}
                             /\ req'[r].video \in Known
           Apart == {"upload", "external", "scan", "delete", "deletemany", "edit", "category", "cover", "backfill",
                 "exif",
                     "sweep", "get", "list", "view", "start", "heartbeat", "stop", "like", "favorite",
                     "comment", "uncomment", "danmaku", "newtag", "deltag", "tag", "untag", "newlist",
                     "dellist", "additem", "removeitem", "reorder", "share", "unshare", "revoke"}
<1> SUFFICES Moved OBVIOUS
<1>1. ASSUME NEW op, NEW q, Call(r, op, q), op \notin {"burn", "playback"} PROVE Moved BY <1>0, <1>1, CallIs
<1>2. CASE BurnVideo(r)
  <2>1. PICK u \in scene.users, v \in Asked : Call(r, "burn", [Step("burnrow") EXCEPT !.user = u, !.video = v])
    BY <1>2 DEF BurnVideo, Watcher
  <2> DEFINE q == [Step("burnrow") EXCEPT !.user = u, !.video = v]
  <2>2. q.at = "burnrow" /\ q.video = v BY DEF Step, Idle
  <2>3. Call(r, "burn", q) BY <2>1
  <2> HIDE DEF q
  <2> QED BY <1>0, <2>2, <2>3, CallIs DEF Asked
<1>3. CASE UpdatePlaybackHistory(r)
  <2>1. PICK p \in Reports, u \in scene.users, v \in Asked :
       Call(r, "playback", [[Step("check") EXCEPT !.report = p] EXCEPT !.user = u, !.video = v])
    BY <1>3 DEF UpdatePlaybackHistory, Watcher
  <2> DEFINE q == [[Step("check") EXCEPT !.report = p] EXCEPT !.user = u, !.video = v]
  <2>2. q.at = "check" /\ q.video = v BY DEF Step, Idle
  <2>3. Call(r, "playback", q) BY <2>1
  <2> HIDE DEF q
  <2> QED BY <1>0, <2>2, <2>3, CallIs DEF Asked
<1> HIDE DEF Moved
<1>4. \A op \in Apart : \A q : Call(r, op, q) => Moved BY <1>1 DEF Apart
<1>5. \A op \in Apart : \A q : Watcher(r, op, q) => Moved BY <1>4 DEF Watcher
<1>6. \A op \in Apart : \A s, q : Guarded(r, op, s, q) => Moved BY <1>4 DEF Guarded
<1>7. \A op \in Apart : \A q : OnList(r, op, q) => Moved BY <1>4 DEF OnList
<1>8. CASE Arrive(r)
  BY <1>2, <1>3, <1>4, <1>5, <1>8 DEF Apart, Arrive, UploadVideo, AddExternalVideo, ScanMedia, DeleteVideo,
     DeleteVideos,
     UpdateVideo, BatchUpdateCategory, UploadCover, BackfillThumbnails, BackfillExif, SweepMissing,
     GetVideo, ListVideos, ViewVideo, StartSession, Heartbeat, StopSession
<1>9. CASE Engage(r)
  BY <1>4, <1>5, <1>6, <1>7, <1>9 DEF Apart, Engage, ToggleLike, ToggleFavorite, CreateComment, DeleteComment,
     CreateDanmaku, CreateTag, DeleteTag, AddTags, RemoveTags, CreatePlaylist, DeletePlaylist, BatchAddVideos,
     RemoveVideoFromPlaylist, ReorderPlaylist, CreateShareLink, DeleteShareLink, RevokeMyShare
<1> QED BY <1>8, <1>9

LEMMA ContributeMoves ==
  ASSUME RequestsOK, NEW r \in Requests, Contribute(r)
  PROVE  /\ \A s \in Others(r) : req'[s] = req[s]
         /\ req'[r].op \in {req[r].op, "idle"}
         /\ req'[r].any \in {req[r].any, FALSE}
         /\ req[r].at \notin {"refresh", "unlink", "nextmissing", "tx", "settle", "delrow"}
         /\ req[r].op \notin {"upload", "external", "scan", "delete", "deletemany", "edit", "category", "cover",
                              "backfill", "exif", "sweep", "get", "list", "burn", "playback"}
<1> DEFINE Moved == /\ \A s \in Others(r) : req'[s] = req[s]
                    /\ req'[r].op \in {req[r].op, "idle"}
                    /\ req'[r].any \in {req[r].any, FALSE}
<1>0. req \in [Requests -> RequestSet] /\ req[r] \in RequestSet BY DEF RequestsOK
<1>1. Done(r) => Moved BY <1>0 DEF Go, Others, Done, Idle
<1>2. \A s : Move(r, s) => Moved BY <1>0 DEF Go, Others, Move, To, RequestSet
<1>3. \A s, x : Go(r, [To(r, s) EXCEPT !.order = x]) => Moved BY <1>0 DEF Go, Others, To, RequestSet
<1>4. \A x, y : Go(r, [req[r] EXCEPT !.parent = x, !.last = y]) => Moved BY <1>0 DEF Go, Others, RequestSet
<1> HIDE DEF Moved
<1>5. Moved
  <2>1. CASE Owns(r) \/ MarkStep(r) \/ Resolve(r) \/ CommentStep(r) \/ UncommentStep(r) \/ FindRow(r)
             \/ DanmakuStep(r)
    BY <1>1, <1>2, <1>4, <2>1 DEF Owns, MarkStep, Resolve, CommentStep, UncommentStep, FindRow, DanmakuStep
  <2>2. CASE NewTag(r) \/ FindTags(r) \/ DelTag(r) \/ AddTagsStep(r) \/ RemoveTagsStep(r) \/ NewList(r)
             \/ OwnList(r)
             \/ DelList(r) \/ AddItem(r) \/ RemoveItem(r)
    BY <1>1, <1>2, <1>3, <2>2
    DEF NewTag, FindTags, DelTag, AddTagsStep, RemoveTagsStep, NewList, OwnList, DelList, AddItem, RemoveItem
  <2>3. CASE Current(r) \/ ReorderVideos(r) \/ Ownership(r) \/ ShareStep(r) \/ UnshareStep(r)
    BY <1>1, <1>2, <2>3 DEF Current, ReorderVideos, Ownership, ShareStep, UnshareStep
  <2> QED BY <2>1, <2>2, <2>3 DEF Contribute
<1>6. req[r].at \in {"owns", "mark", "resolve", "comment", "uncomment", "findrow", "fly", "newtag", "findtag",
      "deltag",
                     "findtags", "tag", "untag", "newlist", "ownlist", "dellist", "additem", "removeitem",
                     "current", "reorder", "ownership", "share", "unshare"}
  BY DEF Contribute, Owns, MarkStep, Resolve, CommentStep, UncommentStep, FindRow, DanmakuStep,
     NewTag, FindTags, DelTag, AddTagsStep, RemoveTagsStep, NewList, OwnList, DelList, AddItem, RemoveItem,
     Current, ReorderVideos, Ownership, ShareStep, UnshareStep, At
<1>7. req[r].op \in {"comment", "tag", "untag", "like", "favorite", "uncomment", "danmaku", "newtag", "deltag",
      "newlist",
                     "dellist", "additem", "removeitem", "reorder", "share", "unshare", "revoke"}
  BY <1>6, RequestOK DEF Paths
<1> QED BY <1>5, <1>6, <1>7 DEF Moved

\* A request that burns nothing promises nothing.
LEMMA NotBurning == ASSUME NEW q \in RequestSet, Paths(q), q.op \notin {"burn", "playback"} PROVE Burning(q)'
BY DEF Paths, Burning

\* The step of a request on its way to a deletion keeps what the deletion relies on.
LEMMA OwnBurning ==
  ASSUME Base, BurnInv, Base', OldRows, NEW r \in Requests, Serve(r), req[r].op \in {"burn", "playback"},
         NEW u, u = req[r].user, NEW v, v = req[r].video, NEW q, q = req'[r]
  PROVE  Burning(q)'
<1>0. /\ RequestsOK /\ Store /\ Numbered /\ RequestsOK' /\ req[r] \in RequestSet /\ Paths(req[r])
      /\ Fits(req[r])
      /\ q \in RequestSet /\ Paths(q) /\ Fits(q) /\ req \in [Requests -> RequestSet]
      /\ seq.video \in Nat /\ seq'.video \in Nat
  BY DEF Base, RequestsOK, Store, SeqSet
<1>1. Burning(req[r]) BY DEF BurnInv
<1>2. u \in Users /\ v \in Videos /\ v < seq.video BY <1>0, <1>1 DEF Fits, Burning
<1>3. v \in Nat /\ v < seq'.video
  <2>1. v \in Nat BY <1>2, VideosAre
  <2>2. seq.video =< seq'.video BY DEF OldRows
  <2> QED BY <1>0, <1>2, <2>1, <2>2
<1>4. ASSUME Done(r) PROVE Burning(q)' BY <1>0, <1>4, DoneOK, NotBurning DEF Idle
<1>5. FindById(v) = IF v \in Existing THEN {videos[v]} ELSE {} BY DEF FindById
<1>6. ASSUME NEW s \in Steps \ {"burnrecord", "variants", "tx", "settle"}, q = To(r, s) PROVE Burning(q)'
  BY <1>0, <1>3, <1>6, ToOK DEF Burning
<1>7. ASSUME NEW s \in Steps \ {"burnrecord", "variants", "tx", "settle"}, Move(r, s) PROVE Burning(q)'
  <2>1. q = To(r, s) BY <1>0, <1>7 DEF Move, Go
  <2> QED BY <1>6, <2>1
<1>8. ASSUME Move(r, "burnrecord"), Earned(u, v)' PROVE Burning(q)'
  <2>1. q = To(r, "burnrecord") BY <1>0, <1>8 DEF Move, Go
  <2>2. "burnrecord" \in Steps BY DEF Steps
  <2> QED BY <1>0, <1>3, <1>8, <2>1, <2>2, ToOK DEF Burning
<1>9. CASE BurnRow(r)
  <2>1. CASE Done(r) BY <1>4, <2>1
  <2>2. CASE Move(r, "progress") BY <1>7, <2>2 DEF Steps
  <2>3. CASE Move(r, "burnrecord") /\ \E row \in FindById(v) : IsImageSource(row)
    <3>1. v \in Existing /\ IsImageSource(videos[v]) BY <1>5, <2>3
    <3>2. videos' = videos BY <1>9 DEF BurnRow, Quiet
    <3>3. Earned(u, v)' BY <3>1, <3>2 DEF Earned, Existing
    <3> QED BY <1>8, <2>3, <3>3
  <2> QED BY <1>9, <2>1, <2>2, <2>3 DEF BurnRow
<1>10. CASE ProgressStep(r)
  <2>1. CASE Done(r) BY <1>4, <2>1
  <2>2. CASE Move(r, "burnrecord") /\ \E p \in GetPlaybackData(u, v) : IsWatchComplete(p)
    <3>1. IsWatchComplete(progress[u][v]) BY <2>2 DEF GetPlaybackData
    <3>2. <<u, v>> \in watched BY <1>2, <3>1 DEF BurnInv, Remembered
    <3>3. watched' = watched BY <1>10 DEF ProgressStep, Quiet, world
    <3> QED BY <1>8, <2>2, <3>2, <3>3 DEF Earned
  <2> QED BY <1>10, <2>1, <2>2 DEF ProgressStep
<1>11. CASE BurnRecord(r)
  <2> DEFINE rows == {row \in FindById(v) : MayBurn(u, row)}
  <2>1. CASE Done(r) BY <1>4, <2>1
  <2>2. CASE rows # {} /\ Go(r, [To(r, "variants") EXCEPT !.rows = rows, !.ids = {v}])
    <3>1. "variants" \in Steps BY DEF Steps
    <3>2. To(r, "variants") \in RequestSet /\ To(r, "variants").user = u /\ To(r, "variants").video = v
      BY <1>0, <3>1, ToOK
    <3>3. q = [To(r, "variants") EXCEPT !.rows = rows, !.ids = {v}] BY <1>0, <2>2 DEF Go
    <3>4. q.rows = rows /\ q.user = u /\ q.video = v /\ q.at = "variants"
      <4> HIDE DEF rows
      <4> QED BY <3>2, <3>3, ToOK, <3>1, <1>0 DEF RequestSet
    <3>5. v \in Existing /\ rows \subseteq {videos[v]} /\ MayBurn(u, videos[v]) BY <1>5, <2>2
    <3>6. Earned(u, v)
      <4>1. req[r].at = "burnrecord" BY <1>11 DEF BurnRecord, At
      <4> QED BY <1>1, <4>1 DEF Burning
    <3>7. IsImageSource(videos[v]) \/ <<u, v>> \in watched BY <3>5, <3>6 DEF Earned
    <3>8. videos[v].id = v BY <1>0, <3>5 DEF Numbered
    <3>9. watched' = watched BY <1>11 DEF BurnRecord, Quiet, world
    <3>10. \A row \in q.rows : OwnerOrAdmin(u, row) /\ (IsImageSource(row) \/ <<u, row.id>> \in watched')
      BY <3>4, <3>5, <3>7, <3>8, <3>9 DEF MayBurn
    <3> QED BY <1>3, <3>4, <3>10 DEF Burning
  <2> QED BY <1>11, <2>1, <2>2 DEF BurnRecord
<1>12. ASSUME q.at \in {"tx", "settle"}, q.rows = req[r].rows, q.user = u, q.video = v,
              req[r].at \in {"variants", "tx"}, watched' = watched
       PROVE  Burning(q)'
  BY <1>1, <1>3, <1>12 DEF Burning
<1>13. CASE ListVariants(r)
  <2> DEFINE files == FilesOf(Row(r)) \cup {VariantOf(w) : w \in variants \cap {v}}
  <2>1. q = [To(r, "tx") EXCEPT !.files = files] BY <1>0, <1>13 DEF ListVariants, Go
  <2>2. "tx" \in Steps BY DEF Steps
  <2>3. To(r, "tx") \in RequestSet BY <1>0, <2>2, ToOK
  <2>4. q.rows = req[r].rows /\ q.user = u /\ q.video = v /\ q.at = "tx"
    <3> HIDE DEF files
    <3> QED BY <1>0, <2>1, <2>2, <2>3, ToOK DEF RequestSet
  <2>5. req[r].at = "variants" /\ watched' = watched BY <1>13 DEF ListVariants, At, Quiet, world
  <2> QED BY <1>12, <2>4, <2>5
<1>14. CASE BeginDelete(r)
  <2> DEFINE x == Charge(req[r].ids)
             y == {w \in req[r].ids \cap Existing : HasRows(w)}
  <2>1. q = [To(r, "settle") EXCEPT !.charge = x, !.held = y] BY <1>0, <1>14 DEF BeginDelete, Go
  <2>2. "settle" \in Steps BY DEF Steps
  <2>3. To(r, "settle") \in RequestSet BY <1>0, <2>2, ToOK
  <2>4. q.rows = req[r].rows /\ q.user = u /\ q.video = v /\ q.at = "settle"
    <3> HIDE DEF x, y
    <3> QED BY <1>0, <2>1, <2>2, <2>3, ToOK DEF RequestSet
  <2>5. req[r].at = "tx" /\ watched' = watched BY <1>14 DEF BeginDelete, At, Quiet, world
  <2> QED BY <1>12, <2>4, <2>5
<1>15. ASSUME q.at \notin {"burnrecord", "variants", "tx", "settle"}, q.video = v PROVE Burning(q)'
  BY <1>3, <1>15 DEF Burning
<1>16. CASE CommitDelete(r)
  <2> DEFINE some == req[r].ids \cap Existing # {}
             s == IF some THEN "unlink" ELSE "finish"
  <2>1. q = [To(r, s) EXCEPT !.any = some] BY <1>0, <1>16 DEF CommitDelete, Go, AfterDelete
  <2>2. s \in Steps /\ s \in {"unlink", "finish"} BY DEF Steps
  <2> HIDE DEF s, some
  <2>3. To(r, s) \in RequestSet /\ To(r, s).at = s /\ To(r, s).video = v BY <1>0, <2>2, ToOK
  <2>4. q.at = s /\ q.video = v
    BY <2>1, <2>3 DEF RequestSet
  <2> QED BY <1>15, <2>2, <2>4
<1>17. CASE CheckReport(r) BY <1>4, <1>7, <1>17 DEF CheckReport, Steps
<1>18. CASE AtEnd(r)
  <2> DEFINE ends == \E row \in FindById(v) : IsAtEnd(req[r].report, row.length)
  <2>1. q = [To(r, "upsert") EXCEPT !.ends = ends] BY <1>0, <1>18 DEF AtEnd, Go
  <2>2. "upsert" \in Steps BY DEF Steps
  <2> HIDE DEF ends
  <2>3. To(r, "upsert") \in RequestSet /\ To(r, "upsert").at = "upsert" /\ To(r, "upsert").video = v
    BY <1>0, <2>2, ToOK
  <2>4. q.at = "upsert" /\ q.video = v
    BY <2>1, <2>3 DEF RequestSet
  <2> QED BY <1>15, <2>4
<1>19. CASE Upsert(r)
  <2>1. CASE Done(r) BY <1>4, <2>1
  <2>2. CASE ~Done(r)
    <3>1. Move(r, "burnrecord") /\ req[r].ends /\ v \in Existing BY <1>19, <2>2 DEF Upsert
    <3>2. watched' = watched \cup {<<u, v>>} BY <1>19, <3>1 DEF Upsert
    <3> QED BY <1>8, <3>1, <3>2 DEF Earned
  <2> QED BY <2>1, <2>2
<1>20. CASE Unlink(r) BY <1>7, <1>20 DEF Unlink, Steps
<1>21. CASE Finish(r) \/ Refresh(r) BY <1>4, <1>21 DEF Finish, Refresh
<1>22. CASE \/ DetailStep(r) \/ GetRow(r) \/ Fill(r) \/ ListStep(r) \/ FillList(r) \/ HashStep(r)
            \/ RenameStep(r)
            \/ SaveStep(r) \/ Saved(r) \/ SaveFails(r) \/ Discard(r) \/ ExternalStep(r)
  BY <1>0, <1>22
  DEF Paths, At, DetailStep, GetRow, Fill, ListStep, FillList, HashStep, RenameStep, SaveStep, Saved,
      SaveFails, Discard,
      ExternalStep
<1>23. CASE \/ ThumbnailStep(r) \/ FfmpegStep(r) \/ CoverUrl(r) \/ ScaleCover(r) \/ ThumbUrl(r)
            \/ CoversStep(r)
            \/ NextCover(r) \/ TmpCover(r) \/ PlaceCover(r) \/ NewCover(r) \/ NoExifStep(r) \/ ReadExif(r)
  BY <1>0, <1>23
  DEF Paths, At, ThumbnailStep, FfmpegStep, CoverUrl, ScaleCover, ThumbUrl, CoversStep, NextCover, TmpCover,
      PlaceCover,
      NewCover, NoExifStep, ReadExif
<1>24. CASE \/ InvalidateFirst(r) \/ UrlsStep(r) \/ ReadDir(r) \/ Adopt(r) \/ DelRow(r) \/ ListMedia(r)
            \/ CheckFiles(r)
            \/ NextMissing(r) \/ EditStep(r)
  BY <1>0, <1>24
  DEF Paths, At, InvalidateFirst, UrlsStep, ReadDir, Adopt, DelRow, ListMedia, CheckFiles, NextMissing,
      EditStep
<1>25. CASE ViewStep(r) \/ SessionStep(r) BY <1>4, <1>25 DEF ViewStep, SessionStep
<1>26. CASE Drop(r) BY <1>0, <1>4, <1>26 DEF Drop, At, Paths
<1> QED
  BY <1>9, <1>10, <1>11, <1>13, <1>14, <1>16, <1>17, <1>18, <1>19, <1>20, <1>21, <1>22, <1>23, <1>24, <1>25,
     <1>26
     DEF Serve

\* What was burned stays explained.
LEMMA BurnedKept ==
  ASSUME Base, BurnInv, [Next]_vars, OldRows
  PROVE  BurnedWasWatched'
<1>0. RequestsOK BY DEF Base
<1>1. watched \subseteq watched' BY WatchedGrows
<1>2. ASSUME UNCHANGED burned PROVE BurnedWasWatched' BY <1>1, <1>2 DEF BurnInv, BurnedWasWatched
<1>3. ASSUME NEW r \in Requests, CommitDelete(r) PROVE BurnedWasWatched'
  <2>1. CASE UNCHANGED burned BY <1>2, <2>1
  <2>2. CASE ~UNCHANGED burned
    <3>1. burned' = burned \cup {[user |-> req[r].user, row |-> Row(r)]} /\ req[r].op \in {"burn", "playback"}
      BY <1>3, <2>2 DEF CommitDelete
    <3>2. req[r].at = "settle" BY <1>3 DEF CommitDelete, At
    <3>3. Row(r) \in req[r].rows BY <1>0, <3>1, <3>2, RequestOK DEF Fits, Row
    <3>4. OwnerOrAdmin(req[r].user, Row(r)) /\ (IsImageSource(Row(r)) \/ <<req[r].user, Row(r).id>> \in watched)
      BY <3>1, <3>2, <3>3 DEF BurnInv, Burning
    <3>5. PICK row : row = Row(r) OBVIOUS
    <3>6. \A b \in burned' : b \in burned \/ (b.user = req[r].user /\ b.row = row) BY <3>1, <3>5
    <3> QED BY <1>1, <3>4, <3>5, <3>6 DEF BurnInv, BurnedWasWatched
  <2> QED BY <2>1, <2>2
<1>4. ASSUME NEW r \in Requests, Serve(r), ~CommitDelete(r) PROVE UNCHANGED burned
  BY <1>4 DEF Serve, Refresh, InvalidateFirst, DetailStep, GetRow, Fill, ListStep, FillList, HashStep,
     RenameStep,
     SaveStep, Saved, SaveFails, Discard, ExternalStep, ThumbnailStep, FfmpegStep, CoverUrl, ScaleCover,
     ThumbUrl, CoversStep, NextCover, TmpCover, PlaceCover, NewCover, NoExifStep, ReadExif, UrlsStep,
     ReadDir, Adopt, DelRow, BeginDelete, Unlink, Finish, ListMedia, CheckFiles, NextMissing, BurnRow,
     ProgressStep, BurnRecord, ListVariants, CheckReport, AtEnd, Upsert, ViewStep, EditStep, SessionStep,
     Drop, Quiet, history
<1>5. CASE \A r \in Requests : ~Serve(r)
  <2>1. [Next]_vars OBVIOUS
  <2> QED BY <1>2, <1>5, <2>1, OtherRows
<1> QED BY <1>2, <1>3, <1>4, <1>5

\* The invariant of burning is inductive.
LEMMA BurnInvKept ==
  ASSUME Base, BurnInv, [Next]_vars
  PROVE  BurnInv'
<1>1. Base' /\ OldRows BY BaseKept, OldRowsStay
<1>2. BurnedWasWatched' /\ Remembered' BY <1>1, BurnedKept, WatchedGrows
<1>3. RequestsOK /\ RequestsOK' /\ Store /\ Store' BY <1>1 DEF Base
<1>4. \A s \in Requests : req[s] \in RequestSet /\ Paths(req[s]) /\ Fits(req[s]) BY <1>3 DEF RequestsOK
<1>5. \A s \in Requests : req'[s] \in RequestSet /\ Paths(req'[s]) /\ Fits(req'[s]) BY <1>3 DEF RequestsOK
<1>6. ASSUME NEW s \in Requests, req'[s] = req[s] PROVE Burning(req[s])'
  <2>1. PICK q \in RequestSet : q = req[s] BY <1>4
  <2>2. Paths(q) /\ Fits(q) /\ Burning(q) BY <1>4, <2>1 DEF BurnInv
  <2>3. Burning(q)' BY <2>2, BurningStays
  <2> QED BY <1>6, <2>1, <2>3 DEF Burning, Earned
<1>7. ASSUME NEW s \in Requests, req'[s].op \notin {"burn", "playback"} PROVE Burning(req[s])'
  <2>1. PICK q \in RequestSet : q = req'[s] BY <1>5
  <2>2. Burning(q)' BY <1>5, <1>7, <2>1, NotBurning
  <2> QED BY <2>1, <2>2 DEF Burning, Earned
<1>8. ASSUME NEW r \in Requests, Serve(r) PROVE \A s \in Requests : Burning(req[s])'
  <2>1. \A s \in Others(r) : req'[s] = req[s] BY <1>3, <1>8, ServeMoves
  <2>2. Burning(req[r])'
    <3>1. CASE req[r].op \in {"burn", "playback"}
      <4>1. PICK u, v, q : u = req[r].user /\ v = req[r].video /\ q = req'[r] OBVIOUS
      <4>2. Burning(q)' BY <1>1, <1>8, <3>1, <4>1, OwnBurning
      <4> QED BY <4>1, <4>2 DEF Burning, Earned
    <3>2. CASE req[r].op \notin {"burn", "playback"}
      <4>1. req'[r].op \notin {"burn", "playback"} BY <1>3, <1>8, <3>2, ServeMoves
      <4> QED BY <1>7, <4>1
    <3> QED BY <3>1, <3>2
  <2> QED BY <1>6, <2>1, <2>2 DEF Others
<1>9. ASSUME NEW r \in Requests, Contribute(r) PROVE \A s \in Requests : Burning(req[s])'
  <2>1. (\A s \in Others(r) : req'[s] = req[s]) /\ req'[r].op \notin {"burn", "playback"}
    BY <1>3, <1>9, ContributeMoves
  <2> QED BY <1>6, <1>7, <2>1 DEF Others
<1>10. ASSUME NEW r \in Requests, Arrive(r) \/ Engage(r) PROVE \A s \in Requests : Burning(req[s])'
  <2>1. /\ \A s \in Others(r) : req'[s] = req[s]
        /\ req'[r].op \in {"burn", "playback"} => req'[r].at \in {"burnrow", "check"} /\ req'[r].video \in Known
    BY <1>1, <1>10, ArriveMoves
  <2>2. Burning(req[r])'
    <3>1. CASE req'[r].op \in {"burn", "playback"}
      <4>1. seq' = seq BY <1>10, CallApart
      <4>2. seq.video \in Nat BY <1>3 DEF Store, SeqSet
      <4>3. req'[r].video < seq'.video BY <2>1, <3>1, <4>1, <4>2 DEF Known
      <4> QED BY <2>1, <3>1, <4>3 DEF Burning
    <3>2. CASE req'[r].op \notin {"burn", "playback"} BY <1>7, <3>2
    <3> QED BY <3>1, <3>2
  <2> QED BY <1>6, <2>1, <2>2 DEF Others
<1>11. ASSUME UNCHANGED req PROVE \A s \in Requests : Burning(req[s])' BY <1>6, <1>11
<1>12. \A s \in Requests : Burning(req[s])'
  BY <1>8, <1>9, <1>10, <1>11, UpsetsApart DEF Next, LibraryNext, CleanupShares, vars, libraryVars
<1> QED BY <1>2, <1>12 DEF BurnInv

\* burn_after_watch deletes a video only for its owner or an administrator, and
\* only when the one who asks has reported to have watched it to the end.
THEOREM BurnsCorrect == Spec => []BurnedWasWatched
<1>1. Init => Base /\ BurnInv
  <2> SUFFICES ASSUME Init PROVE BurnInv BY BaseInit
  <2>1. BurnedWasWatched BY DEF Init, BurnedWasWatched
  <2>2. Remembered BY DEF Init, Remembered
  <2>3. \A r \in Requests : Burning(req[r]) BY DEF Init, Idle, Burning
  <2> QED BY <2>1, <2>2, <2>3 DEF BurnInv
<1>2. Base /\ BurnInv /\ [Next]_vars => Base' /\ BurnInv' BY BaseKept, BurnInvKept
<1>3. BurnInv => BurnedWasWatched BY DEF BurnInv
<1> QED BY <1>1, <1>2, <1>3, PTL DEF Spec

-----------------------------------------------------------------------------
\* Caches.

\* How a request begins: with nothing in its hands.
Starts ==
  {"hash", "external", "urls", "invalidate", "edit", "tmpcover", "covers", "noexif", "list", "detail",
   "cached", "view", "burnrow", "check", "start", "heartbeat", "stop", "mark", "owns", "resolve",
   "uncomment", "findrow", "newtag", "findtag", "findtags", "untag", "newlist", "ownlist", "ownership", "unshare"}
Fresh(q) == /\ ~q.any /\ q.rows = {} /\ q.files = {} /\ q.todo = {} /\ q.at \in Starts
            /\ q.file = NoFile \/ q.at = "hash"

\* So it does after a call.
LEMMA ArriveFresh ==
  ASSUME Base, Base', NEW r \in Requests, Arrive(r) \/ Engage(r)
  PROVE  Fresh(req'[r])
<1>0. RequestsOK /\ RequestsOK' BY DEF Base
<1>1. ASSUME NEW op, NEW q, Call(r, op, q), Fresh(q) PROVE Fresh(req'[r]) BY <1>0, <1>1, CallIs DEF Fresh
<1> DEFINE Begun == Fresh(req'[r])
<1> SUFFICES Begun OBVIOUS
<1>2. \A op, q : Call(r, op, q) /\ Fresh(q) => Begun BY <1>1
<1> HIDE DEF Begun
<1>3. ASSUME NEW s \in Starts PROVE \A op : Call(r, op, Step(s)) => Begun
  <2>1. Fresh(Step(s)) BY DEF Step, Idle, Fresh
  <2> QED BY <1>2, <2>1
<1>4. ASSUME NEW s \in Starts PROVE \A op : Watcher(r, op, Step(s)) => Begun
  <2>1. \A u, v : Fresh([Step(s) EXCEPT !.user = u, !.video = v]) BY DEF Step, Idle, Fresh
  <2> QED BY <1>2, <2>1 DEF Watcher
<1>5. CASE UploadVideo(r) \/ AddExternalVideo(r) \/ UploadCover(r) \/ UpdatePlaybackHistory(r)
           \/ ListVideos(r)
  <2>1. \A u, c : Fresh([Step("hash") EXCEPT !.user = u, !.file = File("media", 0, c)])
    BY DEF Step, Idle, Fresh, Starts
  <2>2. \A u : Fresh([Step("external") EXCEPT !.user = u]) BY DEF Step, Idle, Fresh, Starts
  <2>3. \A v : Fresh([Step("tmpcover") EXCEPT !.video = v]) BY DEF Step, Idle, Fresh, Starts
  <2>4. \A p, u, v : Fresh([[Step("check") EXCEPT !.report = p] EXCEPT !.user = u, !.video = v])
    BY DEF Step, Idle, Fresh, Starts
  <2>5. \A u : Fresh([Step("cached") EXCEPT !.user = u]) BY DEF Step, Idle, Fresh, Starts
  <2> QED BY <1>2, <1>5, <2>1, <2>2, <2>3, <2>4, <2>5
    DEF UploadVideo, AddExternalVideo, UploadCover, UpdatePlaybackHistory, ListVideos, Watcher
<1>6. CASE DeleteVideo(r) \/ DeleteVideos(r) \/ UpdateVideo(r) \/ BatchUpdateCategory(r)
  <2>1. \A V : Fresh([Step("invalidate") EXCEPT !.ids = V]) /\ Fresh([Step("edit") EXCEPT !.ids = V])
    BY DEF Step, Idle, Fresh, Starts
  <2> QED BY <1>2, <1>6, <2>1 DEF DeleteVideo, DeleteVideos, UpdateVideo, BatchUpdateCategory
<1>7. CASE Arrive(r)
  BY <1>3, <1>4, <1>5, <1>6, <1>7 DEF Starts, Arrive, ScanMedia, BackfillThumbnails, BackfillExif,
     SweepMissing, GetVideo,
     ViewVideo, BurnVideo, StartSession, Heartbeat, StopSession
<1>8. CASE CreateComment(r) \/ DeleteComment(r) \/ AddTags(r) \/ RemoveTags(r)
  <2>1. \A c, u, v, s : s \in {"resolve", "owns"} =>
          Fresh([[Idle EXCEPT !.parent = c] EXCEPT !.user = u, !.video = v, !.next = "resolve", !.at = s])
    BY DEF Idle, Fresh, Starts
  <2>2. \A c, u : Fresh([Step("uncomment") EXCEPT !.user = u, !.parent = c]) BY DEF Step, Idle, Fresh, Starts
  <2>3. \A T, u, v, s : s \in {"findtags", "owns"} =>
          Fresh([[Idle EXCEPT !.tags = T] EXCEPT !.user = u, !.video = v, !.next = "findtags", !.at = s])
    BY DEF Idle, Fresh, Starts
  <2>4. \A T, u, v, s : s \in {"untag", "owns"} =>
          Fresh([[Idle EXCEPT !.tags = T] EXCEPT !.user = u, !.video = v, !.next = "untag", !.at = s])
    BY DEF Idle, Fresh, Starts
  <2> QED BY <1>2, <1>8, <2>1, <2>2, <2>3, <2>4 DEF CreateComment, DeleteComment, AddTags, RemoveTags, Guarded
<1>9. CASE CreateTag(r) \/ DeleteTag(r) \/ CreatePlaylist(r) \/ DeleteShareLink(r) \/ RevokeMyShare(r)
  <2>1. \A T : Fresh([Step("newtag") EXCEPT !.tags = T]) /\ Fresh([Step("findtag") EXCEPT !.tags = T])
    BY DEF Step, Idle, Fresh, Starts
  <2>2. \A u : Fresh([Step("newlist") EXCEPT !.user = u]) BY DEF Step, Idle, Fresh, Starts
  <2>3. \A s, u, v : Fresh([[Step("unshare") EXCEPT !.parent = s] EXCEPT !.user = u, !.video = v])
    BY DEF Step, Idle, Fresh, Starts
  <2>4. \A s, u : Fresh([Step("unshare") EXCEPT !.user = u, !.parent = s]) BY DEF Step, Idle, Fresh, Starts
  <2> QED
    BY <1>2, <1>9, <2>1, <2>2, <2>3, <2>4 DEF CreateTag, DeleteTag, CreatePlaylist, DeleteShareLink,
       RevokeMyShare,
     Watcher
<1>10. CASE DeletePlaylist(r) \/ BatchAddVideos(r) \/ RemoveVideoFromPlaylist(r) \/ ReorderPlaylist(r)
  <2>1. \A u, l : Fresh([Idle EXCEPT !.at = "ownlist", !.user = u, !.list = l]) BY DEF Idle, Fresh, Starts
  <2>2. \A V, u, l : Fresh([[Idle EXCEPT !.ids = V] EXCEPT !.at = "ownlist", !.user = u, !.list = l])
    BY DEF Idle, Fresh, Starts
  <2>3. \A s, u, l : Fresh([[Idle EXCEPT !.order = s] EXCEPT !.at = "ownlist", !.user = u, !.list = l])
    BY DEF Idle, Fresh, Starts
  <2>4. CASE DeletePlaylist(r) BY <1>2, <2>4, <2>1 DEF DeletePlaylist, OnList
  <2>5. CASE BatchAddVideos(r) BY <1>2, <2>5, <2>3 DEF BatchAddVideos, OnList
  <2>6. CASE RemoveVideoFromPlaylist(r) BY <1>2, <2>6, <2>2 DEF RemoveVideoFromPlaylist, OnList
  <2>7. CASE ReorderPlaylist(r) BY <1>2, <2>7, <2>3 DEF ReorderPlaylist, OnList
  <2> QED BY <1>10, <2>4, <2>5, <2>6, <2>7
<1>11. CASE Engage(r)
  BY <1>4, <1>8, <1>9, <1>10, <1>11 DEF Starts, Engage, ToggleLike, ToggleFavorite, CreateDanmaku,
     CreateShareLink
<1> QED BY <1>7, <1>11

\* Which step a request that changed something is at, until the caches are emptied.
AnyOK(q) == q.any => \/ q.at = "refresh"
                     \/ q.at = "unlink" /\ q.op \in {"burn", "playback"}
                     \/ q.at \in {"nextmissing", "tx", "settle"} /\ q.op = "sweep"

\* An entry of a video that is being deleted is known to be late, and so is one that
\* shows what is not there, or somebody has still to empty the caches.
DetailsRight == \A v \in Videos : detail[v] # NoVideo =>
  /\ detail[v].id = v
  /\ Gone(detail[v]) => <<"detail", v>> \in late \/ Refreshing(v)
  /\ Deleting(v) => <<"detail", v>> \in late
ListsRight ==
  /\ DOMAIN listed = Users \cup {0}
  /\ \A u \in Users \cup {0} : listed[u] # NoList =>
       /\ listed[u] \subseteq Videos
       /\ \A v \in listed[u] : /\ v \notin Existing => <<"list", u>> \in late \/ Refreshing(v)
                               /\ Deleting(v) => <<"list", u>> \in late
CacheInv == (\A r \in Requests : AnyOK(req[r])) /\ DetailsRight /\ ListsRight

\* The rows that a step leaves as the caches know them.
StayPut == \A v \in Existing : v \in Existing' /\ videos'[v].edited = videos[v].edited

\* A step that edits and deletes nothing leaves the rows as the caches know them.
LEMMA ServeStayPut ==
  ASSUME RequestsOK, Store, Numbered, NEW r \in Requests, Serve(r), ~EditStep(r), ~CommitDelete(r)
  PROVE  StayPut
<1>0. req[r].file \in FileSet BY RequestOK DEF RequestSet
<1>1. ASSUME UNCHANGED videos PROVE StayPut BY <1>1 DEF StayPut, Existing
<1>2. ASSUME RowsKept, \A v \in Existing : videos'[v].edited = videos[v].edited PROVE StayPut
  BY <1>2 DEF RowsKept, StayPut
<1>3. ASSUME NEW row \in Rows, videos' = [videos EXCEPT ![seq.video] = row] PROVE StayPut
  <2>1. \A v \in Existing : v \in Videos /\ v < seq.video BY DEF Existing, Numbered
  <2>2. seq.video \in Nat BY DEF Store, SeqSet
  <2>3. \A v \in Existing : videos'[v] = videos[v] BY <1>3, <2>1, <2>2, VideosAre DEF Store
  <2> QED BY <2>1, <2>3 DEF StayPut, Existing
<1>4. CASE SaveStep(r)
  <2>1. CASE UNCHANGED videos BY <1>1, <2>1
  <2>2. CASE ~UNCHANGED videos
    <3> DEFINE row == NewVideo(seq.video, req[r].user, SourceOf(req[r].file), req[r].file, req[r].file.content)
    <3>1. RoomFor(1) /\ videos' = [videos EXCEPT ![seq.video] = row] /\ At(r, "save")
      BY <1>4, <2>2 DEF SaveStep, SaveLocalVideoWithQuota
    <3>2. row \in Rows BY <3>1, SavedRow
    <3> QED BY <1>3, <3>1, <3>2
  <2> QED BY <2>1, <2>2
<1>5. CASE ExternalStep(r)
  <2> DEFINE row == NewVideo(seq.video, req[r].user, "external", NoFile, None)
  <2>1. RoomFor(1) /\ videos' = [videos EXCEPT ![seq.video] = row] BY <1>5 DEF ExternalStep, SaveExternalVideo
  <2>2. seq.video \in Videos BY <2>1, RoomOK
  <2>3. req[r].user \in Users \cup {0} /\ NoFile \in FileSet
    BY RequestOK DEF RequestSet, NoFile, File, FileSet, None
  <2>4. row \in Rows BY <2>2, <2>3, NewVideoOK
  <2> QED BY <1>3, <2>1, <2>4
<1>6. CASE Adopt(r)
  <2> DEFINE files == req[r].files
  <2>1. files \in SUBSET FileSet /\ IsFiniteSet(files) BY RequestOK DEF RequestSet, Fits
  <2>2. BatchSaveLocalVideos(files) BY <1>6 DEF Adopt
  <2>3. \A v \in Videos : v < seq.video => videos'[v] = videos[v] BY <2>1, <2>2, AdoptedRows
  <2>4. \A v \in Existing : v \in Videos /\ v < seq.video BY DEF Existing, Numbered
  <2>5. \A v \in Existing : videos'[v] = videos[v] BY <2>3, <2>4
  <2> QED BY <2>4, <2>5 DEF StayPut, Existing
<1>7. CASE CoverUrl(r) BY <1>0, <1>2, <1>7, UpdateCoverUrlKeeps DEF CoverUrl
<1>8. CASE NewCover(r) BY <1>0, <1>1, <1>2, <1>8, UpdateCoverUrlKeeps DEF NewCover
<1>9. CASE ThumbUrl(r) BY <1>0, <1>2, <1>9, UpdateThumbUrlKeeps DEF ThumbUrl
<1>10. CASE ReadExif(r) BY <1>2, <1>10, MarkExifExtractedKeeps DEF ReadExif
<1>11. CASE ViewStep(r) BY <1>2, <1>11, IncrementViewsKeeps DEF ViewStep
<1> QED BY <1>1, <1>4, <1>5, <1>6, <1>7, <1>8, <1>9, <1>10, <1>11
  DEF Serve, Refresh, InvalidateFirst, DetailStep, GetRow, Fill, ListStep, FillList, HashStep, RenameStep,
      Saved, SaveFails, Discard, ThumbnailStep, FfmpegStep, ScaleCover, CoversStep,
      NextCover, TmpCover, PlaceCover, NoExifStep, UrlsStep, ReadDir, DelRow, BeginDelete,
      Unlink, Finish, ListMedia, CheckFiles, NextMissing, BurnRow, ProgressStep, BurnRecord, ListVariants,
      CheckReport, AtEnd, Upsert, SessionStep, Drop, Quiet

LEMMA OtherStayPut ==
  ASSUME Base, [Next]_vars, \A r \in Requests : ~Serve(r)
  PROVE  StayPut
<1>0. Store BY DEF Base
<1>1. ASSUME UNCHANGED videos PROVE StayPut BY <1>1 DEF StayPut, Existing
<1>2. CASE RunTask
  <2>1. Seconds \in Nat BY LibraryAssumption DEF IdAssumption
  <2>2. CASE UNCHANGED videos BY <1>1, <2>2
  <2>3. CASE ~UNCHANGED videos
    <3>1. RowsKept /\ \A v \in Existing : videos'[v].edited = videos[v].edited
      BY <1>0, <1>2, <2>1, <2>3, UpdateDurationKeeps, MarkExifExtractedKeeps DEF RunTask
    <3> QED BY <3>1 DEF RowsKept, StayPut
  <2> QED BY <2>2, <2>3
<1>3. ASSUME NEW r \in Requests, Arrive(r) \/ Engage(r) \/ Contribute(r) PROVE StayPut
  BY <1>1, <1>3, CallApart, ContributeApart
<1>4. CASE TimePasses \/ LoseFile \/ RestoreFile \/ CleanupShares \/ UNCHANGED vars
  BY <1>1, <1>4 DEF TimePasses, LoseFile, RestoreFile, CleanupShares, vars, libraryVars
<1> QED BY <1>2, <1>3, <1>4 DEF Next, LibraryNext

\* Steps that leave the caches alone.
LEMMA ServeCaches ==
  ASSUME NEW r \in Requests, Serve(r), ~Refresh(r), ~InvalidateFirst(r), ~Saved(r), ~Fill(r), ~FillList(r),
         ~Drop(r)
  PROVE  UNCHANGED caches
<1>1. CASE Quiet BY <1>1 DEF Quiet
<1>2. CASE ~Quiet
  BY <1>2
  DEF Serve, DetailStep, GetRow, ListStep, HashStep, RenameStep, SaveStep, SaveFails, Discard, ExternalStep,
      ThumbnailStep, FfmpegStep, CoverUrl, ScaleCover, ThumbUrl, CoversStep, NextCover, TmpCover,
      PlaceCover, NewCover, NoExifStep, ReadExif, UrlsStep, ReadDir, Adopt, DelRow, BeginDelete,
      CommitDelete, Unlink, Finish, ListMedia, CheckFiles, NextMissing, BurnRow, ProgressStep, BurnRecord,
      ListVariants, CheckReport, AtEnd, Upsert, ViewStep, EditStep, SessionStep
<1> QED BY <1>1, <1>2

\* The steps of a deletion, of the sweep and of a burn, by the step they are at.
LEMMA StepAt ==
  ASSUME NEW r \in Requests, Serve(r), ~Drop(r)
  PROVE  /\ req[r].at \in {"delrow", "tx", "settle", "unlink", "nextmissing", "refresh", "finish"} =>
              DelRow(r) \/ BeginDelete(r) \/ CommitDelete(r) \/ Unlink(r)
                       \/ NextMissing(r) \/ Refresh(r) \/ Finish(r)
         /\ req[r].at = "invalidate" => InvalidateFirst(r)
         /\ req[r].at = "edit" => EditStep(r)
<1>1. CASE \/ DetailStep(r) \/ GetRow(r) \/ Fill(r) \/ ListStep(r) \/ FillList(r) \/ HashStep(r)
           \/ RenameStep(r)
           \/ SaveStep(r) \/ Saved(r) \/ SaveFails(r) \/ Discard(r) \/ ExternalStep(r)
  BY <1>1
  DEF At, DetailStep, GetRow, Fill, ListStep, FillList, HashStep, RenameStep, SaveStep, Saved, SaveFails,
      Discard,
      ExternalStep
<1>2. CASE \/ ThumbnailStep(r) \/ FfmpegStep(r) \/ CoverUrl(r) \/ ScaleCover(r) \/ ThumbUrl(r)
           \/ CoversStep(r)
           \/ NextCover(r) \/ TmpCover(r) \/ PlaceCover(r) \/ NewCover(r) \/ NoExifStep(r) \/ ReadExif(r)
  BY <1>2
  DEF At, ThumbnailStep, FfmpegStep, CoverUrl, ScaleCover, ThumbUrl, CoversStep, NextCover, TmpCover,
      PlaceCover,
      NewCover, NoExifStep, ReadExif
<1>3. CASE \/ InvalidateFirst(r) \/ UrlsStep(r) \/ ReadDir(r) \/ Adopt(r) \/ ListMedia(r) \/ CheckFiles(r)
           \/ EditStep(r) \/ ViewStep(r) \/ SessionStep(r)
  BY <1>3
  DEF At, InvalidateFirst, UrlsStep, ReadDir, Adopt, ListMedia, CheckFiles, EditStep, ViewStep, SessionStep
<1>4. CASE \/ BurnRow(r) \/ ProgressStep(r) \/ BurnRecord(r) \/ ListVariants(r) \/ CheckReport(r) \/ AtEnd(r)
           \/ Upsert(r)
  BY <1>4 DEF At, BurnRow, ProgressStep, BurnRecord, ListVariants, CheckReport, AtEnd, Upsert
<1>5. CASE DelRow(r) \/ BeginDelete(r) \/ CommitDelete(r) \/ Unlink(r) \/ NextMissing(r) \/ Refresh(r)
           \/ Finish(r)
  BY <1>5 DEF At, DelRow, BeginDelete, CommitDelete, Unlink, NextMissing, Refresh, Finish
<1> QED BY <1>1, <1>2, <1>3, <1>4, <1>5 DEF Serve

\* What a step of a deletion makes of its request.
LEMMA DeleteSteps ==
  ASSUME RequestsOK, RequestsOK', NEW r \in Requests
  PROVE  /\ DelRow(r) => req'[r] = Idle \/ (/\ req'[r].at = "tx" /\ req'[r].ids = req[r].ids
                                            /\ req'[r].any = req[r].any /\ req'[r].op = req[r].op)
         /\ BeginDelete(r) => /\ req'[r].at = "settle" /\ req'[r].ids = req[r].ids
                              /\ req'[r].any = req[r].any /\ req'[r].op = req[r].op
         /\ Unlink(r) => /\ req'[r].at = IF req[r].op \in {"delete", "deletemany"} THEN "finish" ELSE "refresh"
                         /\ req'[r].ids = req[r].ids /\ req'[r].any = req[r].any /\ req'[r].op = req[r].op
         /\ Refresh(r) \/ Finish(r) => req'[r] = Idle
         /\ NextMissing(r) => /\ req'[r].at \in {"tx", IF req[r].any THEN "refresh" ELSE "finish"}
                              /\ req'[r].any = req[r].any /\ req'[r].op = req[r].op
         /\ CommitDelete(r) =>
              LET some == req[r].ids \cap Existing # {}
              IN /\ req'[r].op = req[r].op /\ req'[r].ids = req[r].ids
                 /\ req[r].op \in {"delete", "deletemany"} => req'[r].at = "unlink" /\ req'[r].any = req[r].any
                 /\ req[r].op = "sweep" => req'[r].at = "nextmissing" /\ (req'[r].any <=> req[r].any \/ some)
                 /\ req[r].op \in {"burn", "playback"} =>
                      (req'[r].any <=> some) /\ req'[r].at = IF some THEN "unlink" ELSE "finish"
<1>0. req \in [Requests -> RequestSet] /\ req[r] \in RequestSet /\ req'[r] \in RequestSet BY DEF RequestsOK
<1>1. DelRow(r) => req'[r] = Idle \/ (/\ req'[r].at = "tx" /\ req'[r].ids = req[r].ids
                                      /\ req'[r].any = req[r].any /\ req'[r].op = req[r].op)
  <2>1. \A x : Go(r, [To(r, "tx") EXCEPT !.files = x]) =>
          /\ req'[r].at = "tx" /\ req'[r].ids = req[r].ids /\ req'[r].any = req[r].any
          /\ req'[r].op = req[r].op
    BY <1>0 DEF Go, To, RequestSet
  <2>2. Done(r) => req'[r] = Idle BY <1>0 DEF Done, Go
  <2> QED BY <2>1, <2>2 DEF DelRow
<1>2. BeginDelete(r) => /\ req'[r].at = "settle" /\ req'[r].ids = req[r].ids
                        /\ req'[r].any = req[r].any /\ req'[r].op = req[r].op
  <2>1. \A x, y : Go(r, [To(r, "settle") EXCEPT !.charge = x, !.held = y]) =>
          /\ req'[r].at = "settle" /\ req'[r].ids = req[r].ids /\ req'[r].any = req[r].any
          /\ req'[r].op = req[r].op
    BY <1>0 DEF Go, To, RequestSet
  <2> QED BY <2>1 DEF BeginDelete
<1>3. \A s : Move(r, s) => /\ req'[r].at = s /\ req'[r].ids = req[r].ids /\ req'[r].any = req[r].any
                           /\ req'[r].op = req[r].op
  BY <1>0 DEF Move, Go, To, RequestSet
<1>4. Refresh(r) \/ Finish(r) => req'[r] = Idle BY <1>0 DEF Refresh, Finish, Done, Go
<1>5. NextMissing(r) => /\ req'[r].at \in {"tx", IF req[r].any THEN "refresh" ELSE "finish"}
                        /\ req'[r].any = req[r].any /\ req'[r].op = req[r].op
  <2>1. \A x, y : Go(r, [To(r, "tx") EXCEPT !.ids = x, !.todo = y]) =>
          /\ req'[r].at = "tx" /\ req'[r].any = req[r].any /\ req'[r].op = req[r].op
    BY <1>0 DEF Go, To, RequestSet
  <2> QED BY <1>3, <2>1 DEF NextMissing
<1>6. ASSUME CommitDelete(r), NEW some \in BOOLEAN, some <=> req[r].ids \cap Existing # {}
      PROVE  /\ req'[r].op = req[r].op /\ req'[r].ids = req[r].ids
             /\ req[r].op \in {"delete", "deletemany"} => req'[r].at = "unlink" /\ req'[r].any = req[r].any
             /\ req[r].op = "sweep" => req'[r].at = "nextmissing" /\ (req'[r].any <=> req[r].any \/ some)
             /\ req[r].op \in {"burn", "playback"} =>
                  (req'[r].any <=> some) /\ req'[r].at = IF some THEN "unlink" ELSE "finish"
  <2>1. req[r].op \in {"delete", "deletemany", "sweep", "burn", "playback"}
    BY RequestOK, <1>6 DEF CommitDelete, At, Paths
  <2>2. some = (req[r].ids \cap Existing # {}) BY <1>6
  <2>3. Go(r, AfterDelete(r, some)) BY <1>6, <2>2 DEF CommitDelete
  <2>4. req'[r] = AfterDelete(r, some) BY <1>0, <2>3 DEF Go
  <2>5. CASE req[r].op \in {"delete", "deletemany"} BY <1>0, <2>4, <2>5 DEF AfterDelete, To, RequestSet
  <2>6. CASE req[r].op = "sweep" BY <1>0, <1>6, <2>4, <2>6 DEF AfterDelete, To, RequestSet
  <2>7. CASE req[r].op \in {"burn", "playback"} BY <1>0, <1>6, <2>4, <2>7 DEF AfterDelete, To, RequestSet
  <2> QED BY <2>1, <2>5, <2>6, <2>7
<1>7. Unlink(r) => /\ req'[r].at = IF req[r].op \in {"delete", "deletemany"} THEN "finish" ELSE "refresh"
                   /\ req'[r].ids = req[r].ids /\ req'[r].any = req[r].any /\ req'[r].op = req[r].op
  BY <1>3 DEF Unlink
<1> QED BY <1>1, <1>2, <1>4, <1>5, <1>6, <1>7

\* Who changed something goes on to empty the caches.
LEMMA AnyKept ==
  ASSUME Base, Base', NEW r \in Requests, Serve(r), AnyOK(req[r])
  PROVE  AnyOK(req'[r])
<1>0. /\ RequestsOK /\ RequestsOK' /\ Paths(req[r]) /\ Paths(req'[r]) /\ req[r].any \in BOOLEAN
      /\ req[r] \in RequestSet /\ req'[r] \in RequestSet
  BY DEF Base, RequestsOK, RequestSet
<1>3. CASE Drop(r)
  <2>1. CASE Done(r)
    <3>1. req'[r] = Idle BY <1>0, <2>1, DoneOK
    <3> QED BY <3>1 DEF AnyOK, Idle
  <2>2. CASE At(r, "saved") /\ Move(r, "thumbnail")
    <3>1. ~req[r].any BY <2>2 DEF AnyOK, At
    <3>2. req'[r].any = req[r].any BY <1>0, <2>2 DEF RequestsOK, Move, Go, To, RequestSet
    <3> QED BY <3>1, <3>2 DEF AnyOK
  <2> QED BY <1>3, <2>1, <2>2 DEF Drop
<1>1. CASE ~Drop(r) /\ req[r].at \in {"refresh", "unlink", "nextmissing", "tx", "settle"}
  <2>1. DelRow(r) \/ BeginDelete(r) \/ CommitDelete(r) \/ Unlink(r) \/ NextMissing(r) \/ Refresh(r)
        \/ Finish(r)
    BY <1>1, StepAt
  <2>2. CASE DelRow(r) BY <1>1, <2>2 DEF DelRow, At
  <2>3. CASE BeginDelete(r)
    <3>1. req[r].at = "tx" BY <2>3 DEF BeginDelete, At
    <3> QED BY <1>0, <2>3, <3>1, DeleteSteps DEF AnyOK
  <2>4. CASE CommitDelete(r)
    <3>1. req[r].at = "settle" BY <2>4 DEF CommitDelete, At
    <3>2. req[r].op \in {"delete", "deletemany", "sweep", "burn", "playback"} BY <1>0, <3>1 DEF Paths
    <3> QED BY <1>0, <2>4, <3>1, <3>2, DeleteSteps DEF AnyOK
  <2>5. CASE Unlink(r)
    <3>1. req[r].at = "unlink" BY <2>5 DEF Unlink, At
    <3> QED BY <1>0, <2>5, <3>1, DeleteSteps DEF AnyOK
  <2>6. CASE NextMissing(r)
    <3>1. req[r].at = "nextmissing" /\ req[r].op = "sweep" BY <1>0, <2>6 DEF NextMissing, At, Paths
    <3> QED BY <1>0, <2>6, <3>1, DeleteSteps DEF AnyOK
  <2>7. CASE Refresh(r) \/ Finish(r) BY <1>0, <2>7, DeleteSteps DEF AnyOK, Idle
  <2> QED BY <2>1, <2>2, <2>3, <2>4, <2>5, <2>6, <2>7
<1>2. CASE ~Drop(r) /\ req[r].at \notin {"refresh", "unlink", "nextmissing", "tx", "settle"}
  <2>1. ~req[r].any BY <1>2 DEF AnyOK
  <2>2. CASE EditStep(r)
    <3>1. \A x : Go(r, [To(r, "refresh") EXCEPT !.any = x]) => req'[r].at = "refresh"
      BY <1>0 DEF RequestsOK, Go, To, RequestSet
    <3>2. req'[r].at = "refresh" BY <2>2, <3>1 DEF EditStep
    <3> QED BY <3>2 DEF AnyOK
  <2>3. CASE CommitDelete(r) BY <1>2, <2>3 DEF CommitDelete, At
  <2>4. CASE ~EditStep(r) /\ ~CommitDelete(r)
    <3>1. ~req'[r].any BY <1>0, <2>1, <2>4, ServeMoves
    <3> QED BY <3>1 DEF AnyOK
  <2> QED BY <2>2, <2>3, <2>4
<1> QED BY <1>1, <1>2, <1>3

\* Whoever has emptied the caches already, and has still to delete, had it to do
\* before the step; and who has still to empty them has it to do after it.
LEMMA PromisesKept ==
  ASSUME Base, Base', NEW r \in Requests, Serve(r), ~InvalidateFirst(r), ~Refresh(r), ~Drop(r), AnyOK(req[r]),
         NEW v
  PROVE  (Deleting(v)' => Deleting(v)) /\ (Refreshing(v) => Refreshing(v)')
<1>0. /\ RequestsOK /\ RequestsOK' /\ Paths(req[r]) /\ Paths(req'[r]) /\ req[r].any \in BOOLEAN
      /\ \A s \in Others(r) : req'[s] = req[s]
      /\ req'[r].op \in {req[r].op, "idle"}
  BY ServeMoves DEF Base, RequestsOK, RequestSet
<1>1. ASSUME req'[r].op \in {"delete", "deletemany"}, req'[r].at \in {"delrow", "tx", "settle"}, v \in req'[r].ids
      PROVE  req[r].op \in {"delete", "deletemany"} /\ req[r].at \in {"delrow", "tx", "settle"} /\ v \in req[r].ids
  <2>1. req[r].op \in {"delete", "deletemany"} BY <1>0, <1>1
  <2>2. req'[r] # Idle BY <1>1 DEF Idle
  <2>3. \A s : Move(r, s) => req'[r].at = s BY <1>0 DEF RequestsOK, Move, Go, To, RequestSet
  <2>4. req[r].at \in {"delrow", "tx", "settle", "unlink", "finish"}
    <3>1. ~Done(r) BY <1>0, <2>2, DoneOK
    <3>2. ~ViewStep(r) /\ ~SessionStep(r) BY <3>1 DEF ViewStep, SessionStep
    <3>3. CASE \/ DetailStep(r) \/ GetRow(r) \/ Fill(r) \/ ListStep(r) \/ FillList(r) \/ HashStep(r)
               \/ RenameStep(r)
               \/ SaveStep(r) \/ Saved(r) \/ SaveFails(r) \/ Discard(r) \/ ExternalStep(r)
      BY <1>0, <2>1, <3>3
      DEF Paths, At, DetailStep, GetRow, Fill, ListStep, FillList, HashStep, RenameStep, SaveStep, Saved,
          SaveFails, Discard,
          ExternalStep
    <3>4. CASE \/ ThumbnailStep(r) \/ FfmpegStep(r) \/ CoverUrl(r) \/ ScaleCover(r) \/ ThumbUrl(r)
               \/ CoversStep(r)
               \/ NextCover(r) \/ TmpCover(r) \/ PlaceCover(r) \/ NewCover(r) \/ NoExifStep(r) \/ ReadExif(r)
      BY <1>0, <2>1, <3>4
      DEF Paths, At, ThumbnailStep, FfmpegStep, CoverUrl, ScaleCover, ThumbUrl, CoversStep, NextCover,
          TmpCover, PlaceCover,
          NewCover, NoExifStep, ReadExif
    <3>5. CASE \/ UrlsStep(r) \/ ReadDir(r) \/ Adopt(r) \/ ListMedia(r) \/ CheckFiles(r) \/ NextMissing(r)
               \/ EditStep(r)
      BY <1>0, <2>1, <3>5
      DEF Paths, At, UrlsStep, ReadDir, Adopt, ListMedia, CheckFiles, NextMissing, EditStep
    <3>6. CASE \/ BurnRow(r) \/ ProgressStep(r) \/ BurnRecord(r) \/ ListVariants(r) \/ CheckReport(r)
               \/ AtEnd(r) \/ Upsert(r)
      BY <1>0, <2>1, <3>6 DEF Paths, At, BurnRow, ProgressStep, BurnRecord, ListVariants, CheckReport, AtEnd,
         Upsert
    <3>7. CASE DelRow(r) \/ BeginDelete(r) \/ CommitDelete(r) \/ Unlink(r) \/ Finish(r)
      BY <3>7 DEF At, DelRow, BeginDelete, CommitDelete, Unlink, Finish
    <3> QED BY <3>2, <3>3, <3>4, <3>5, <3>6, <3>7 DEF Serve
  <2>5. DelRow(r) \/ BeginDelete(r) \/ CommitDelete(r) \/ Unlink(r) \/ NextMissing(r) \/ Refresh(r)
        \/ Finish(r)
    BY <2>4, StepAt
  <2>6. CASE DelRow(r)
    <3>1. req[r].at = "delrow" BY <2>6 DEF DelRow, At
    <3> QED BY <1>0, <1>1, <2>1, <2>2, <2>6, <3>1, DeleteSteps
  <2>7. CASE BeginDelete(r)
    <3>1. req[r].at = "tx" BY <2>7 DEF BeginDelete, At
    <3> QED BY <1>0, <1>1, <2>1, <2>7, <3>1, DeleteSteps
  <2>8. CASE CommitDelete(r) \/ Unlink(r) BY <1>0, <1>1, <2>1, <2>8, DeleteSteps
  <2>9. CASE Refresh(r) \/ Finish(r) BY <1>0, <2>2, <2>9, DeleteSteps
  <2>10. CASE NextMissing(r) BY <1>0, <2>1, <2>10 DEF NextMissing, At, Paths
  <2> QED BY <2>5, <2>6, <2>7, <2>8, <2>9, <2>10
<1>2. ASSUME req[r].any, v \in req[r].ids \/ req[r].op = "sweep"
      PROVE  req'[r].any /\ (v \in req'[r].ids \/ req'[r].op = "sweep")
  <2>1. req[r].at \in {"refresh", "unlink", "nextmissing", "tx", "settle"} BY <1>2 DEF AnyOK
  <2>2. DelRow(r) \/ BeginDelete(r) \/ CommitDelete(r) \/ Unlink(r) \/ NextMissing(r) \/ Refresh(r)
        \/ Finish(r)
    BY <2>1, StepAt
  <2>3. CASE DelRow(r) \/ Finish(r) BY <2>1, <2>3 DEF DelRow, Finish, At
  <2>4. CASE BeginDelete(r) BY <1>0, <1>2, <2>4, DeleteSteps
  <2>5. CASE Unlink(r) BY <1>0, <1>2, <2>5, DeleteSteps
  <2>6. CASE CommitDelete(r)
    <3>1. req[r].at = "settle" BY <2>6 DEF CommitDelete, At
    <3>2. req[r].op = "sweep" BY <1>2, <3>1 DEF AnyOK
    <3> QED BY <1>0, <1>2, <2>6, <3>2, DeleteSteps
  <2>7. CASE NextMissing(r)
    <3>1. req[r].op = "sweep" BY <1>0, <2>7 DEF NextMissing, At, Paths
    <3> QED BY <1>0, <1>2, <2>7, <3>1, DeleteSteps
  <2> QED BY <2>2, <2>3, <2>4, <2>5, <2>6, <2>7
<1>3. Deleting(v)' => Deleting(v) BY <1>0, <1>1 DEF Deleting, Others
<1>4. Refreshing(v) => Refreshing(v)' BY <1>0, <1>2 DEF Refreshing, Others
<1> QED BY <1>3, <1>4

\* The same when a request begins, and while viewers attach something.
LEMMA PromisesStay ==
  ASSUME Base, Base', NEW r \in Requests, Arrive(r) \/ Engage(r) \/ Contribute(r), AnyOK(req[r]), NEW v
  PROVE  (Deleting(v)' => Deleting(v)) /\ (Refreshing(v) => Refreshing(v)') /\ AnyOK(req'[r])
<1>0. RequestsOK /\ req[r].any \in BOOLEAN BY DEF Base, RequestsOK, RequestSet
<1>1. \A s \in Others(r) : req'[s] = req[s] BY <1>0, ArriveMoves, ContributeMoves
<1>2. ~req[r].any /\ ~req'[r].any
  <2>1. CASE Arrive(r) \/ Engage(r)
    <3>1. At(r, "idle") BY <2>1 DEF Arrive, Engage, Free
    <3>2. Fresh(req'[r]) BY <2>1, ArriveFresh
    <3> QED BY <3>1, <3>2 DEF At, AnyOK, Fresh
  <2>2. CASE Contribute(r)
    <3>1. req'[r].any \in {req[r].any, FALSE}
             /\ req[r].at \notin {"refresh", "unlink", "nextmissing", "tx", "settle", "delrow"}
      BY <1>0, <2>2, ContributeMoves
    <3> QED BY <1>0, <3>1 DEF AnyOK
  <2> QED BY <2>1, <2>2
<1>3. ~(req'[r].op \in {"delete", "deletemany"} /\ req'[r].at \in {"delrow", "tx", "settle"})
  <2>1. CASE Arrive(r) \/ Engage(r)
    <3>1. Fresh(req'[r]) BY <2>1, ArriveFresh
    <3> QED BY <3>1 DEF Fresh, Starts
  <2>2. CASE Contribute(r) BY <1>0, <2>2, ContributeMoves
  <2> QED BY <2>1, <2>2
<1> QED BY <1>1, <1>2, <1>3 DEF Deleting, Refreshing, Others, AnyOK

\* What the caches show.
EntriesRight == DetailsRight /\ ListsRight

\* Entries that nobody touches stay right, and an empty cache is right; what Fill
\* and FillList put in it is right, or known to be late.
LEMMA EntriesKept ==
  ASSUME Base, EntriesRight, UNCHANGED caches,
         \A v \in Videos : (Deleting(v)' => Deleting(v)) /\ (Refreshing(v) => Refreshing(v)'),
         \A v \in Existing : (v \in Existing' /\ videos'[v].edited = videos[v].edited)
                  \/ Deleting(v) \/ Refreshing(v)'
  PROVE  EntriesRight'
<1>0. UNCHANGED <<detail, listed, late>> BY DEF caches
<1>1. ASSUME NEW v \in Videos, detail[v] # NoVideo
      PROVE  /\ detail[v].id = v
             /\ Gone(detail[v])' => <<"detail", v>> \in late \/ Refreshing(v)'
             /\ Deleting(v)' => <<"detail", v>> \in late
  <2>1. /\ detail[v].id = v
        /\ Gone(detail[v]) => <<"detail", v>> \in late \/ Refreshing(v)
        /\ Deleting(v) => <<"detail", v>> \in late
    BY <1>1 DEF EntriesRight, DetailsRight
  <2>2. ASSUME Gone(detail[v])' PROVE <<"detail", v>> \in late \/ Refreshing(v)'
    <3>1. v \notin Existing' \/ videos'[v].edited # detail[v].edited BY <1>0, <2>1, <2>2 DEF Gone
    <3>2. CASE v \notin Existing \/ videos[v].edited # detail[v].edited BY <2>1, <3>2 DEF Gone
    <3>3. CASE v \in Existing /\ videos[v].edited = detail[v].edited BY <2>1, <3>1, <3>3
    <3> QED BY <3>2, <3>3
  <2> QED BY <2>1, <2>2
<1>2. DetailsRight'
  <2>1. \A v \in Videos : detail'[v] # NoVideo =>
          /\ detail'[v].id = v
          /\ Gone(detail[v])' => <<"detail", v>> \in late' \/ Refreshing(v)'
          /\ Deleting(v)' => <<"detail", v>> \in late'
    BY <1>0, <1>1
  <2> QED BY <2>1 DEF DetailsRight
<1>3. ListsRight'
  <2>1. DOMAIN listed' = Users \cup {0} BY <1>0 DEF EntriesRight, ListsRight
  <2>2. ASSUME NEW u \in Users \cup {0}, listed'[u] # NoList
        PROVE  /\ listed'[u] \subseteq Videos
               /\ \A v \in listed'[u] : /\ v \notin Existing' => <<"list", u>> \in late' \/ Refreshing(v)'
                                        /\ Deleting(v)' => <<"list", u>> \in late'
    BY <1>0, <2>2 DEF EntriesRight, ListsRight
  <2> QED BY <2>1, <2>2 DEF ListsRight
<1> QED BY <1>2, <1>3 DEF EntriesRight

LEMMA EntriesNone ==
  ASSUME detail' = [v \in Videos |-> NoVideo], listed' = [u \in Users \cup {0} |-> NoList]
  PROVE  EntriesRight'
BY DEF EntriesRight, DetailsRight, ListsRight

LEMMA EntriesFill ==
  ASSUME Base, EntriesRight, NEW r \in Requests, Fill(r),
         \A v \in Videos : (Deleting(v)' => Deleting(v)) /\ (Refreshing(v) => Refreshing(v)')
  PROVE  EntriesRight'
<1>0. RequestsOK /\ Store BY DEF Base
<1>1. PICK row : row = Row(r) OBVIOUS
<1>2. row \in Rows
  <2>1. req[r].at = "fill" BY DEF Fill, At
  <2> QED BY <1>0, <1>1, <2>1, RequestOK DEF Fits, RequestSet, Row
<1>3. row.id \in Videos BY <1>2 DEF Rows
<1>4. /\ detail' = [detail EXCEPT ![row.id] = row]
      /\ late' = IF Gone(row) \/ Deleting(row.id) THEN late \cup {<<"detail", row.id>>} ELSE late
      /\ UNCHANGED <<videos, listed>>
  BY <1>1 DEF Fill
<1>5. Existing' = Existing BY <1>4 DEF Existing
<1>6. DetailsRight'
  <2> SUFFICES ASSUME NEW v \in Videos, detail'[v] # NoVideo
               PROVE  /\ detail'[v].id = v
                      /\ Gone(detail[v])' => <<"detail", v>> \in late' \/ Refreshing(v)'
                      /\ Deleting(v)' => <<"detail", v>> \in late'
    BY DEF DetailsRight
  <2>1. CASE v = row.id
    <3>1. detail'[v] = row BY <1>0, <1>3, <1>4, <2>1 DEF Store
    <3>2. Gone(detail[v])' => Gone(row) BY <1>4, <1>5, <3>1 DEF Gone
    <3> QED BY <1>4, <2>1, <3>1, <3>2
  <2>2. CASE v # row.id
    <3>1. detail'[v] = detail[v] BY <1>0, <1>4, <2>2 DEF Store
    <3>2. Gone(detail[v])' => Gone(detail[v]) BY <1>4, <1>5, <3>1 DEF Gone
    <3>3. late \subseteq late' BY <1>4
    <3> QED BY <3>1, <3>2, <3>3 DEF EntriesRight, DetailsRight
  <2> QED BY <2>1, <2>2
<1>7. ListsRight'
  <2>1. late \subseteq late' BY <1>4
  <2> QED BY <1>4, <1>5, <2>1 DEF EntriesRight, ListsRight
<1> QED BY <1>6, <1>7 DEF EntriesRight

LEMMA EntriesFillList ==
  ASSUME Base, EntriesRight, NEW r \in Requests, FillList(r),
         \A v \in Videos : (Deleting(v)' => Deleting(v)) /\ (Refreshing(v) => Refreshing(v)')
  PROVE  EntriesRight'
<1>0. RequestsOK /\ Store BY DEF Base
<1>1. req[r].user \in Users \cup {0} /\ req[r].ids \subseteq Videos BY <1>0, RequestOK DEF RequestSet
<1>2. PICK w, ids : w = req[r].user /\ ids = req[r].ids OBVIOUS
<1>3. /\ listed' = [listed EXCEPT ![w] = ids]
      /\ late' = IF \E v \in ids : v \notin Existing \/ Deleting(v) THEN late \cup {<<"list", w>>} ELSE late
      /\ UNCHANGED <<videos, detail>>
  BY <1>2 DEF FillList
<1>4. Existing' = Existing /\ late \subseteq late' BY <1>3 DEF Existing
<1>5. DetailsRight'
  <2>1. \A v \in Videos : Gone(detail[v])' => Gone(detail[v]) BY <1>3, <1>4 DEF Gone
  <2> QED BY <1>3, <1>4, <2>1 DEF EntriesRight, DetailsRight
<1>6. ListsRight'
  <2>1. DOMAIN listed' = Users \cup {0} BY <1>3 DEF EntriesRight, ListsRight
  <2>2. ASSUME NEW u \in Users \cup {0}, listed'[u] # NoList
        PROVE  /\ listed'[u] \subseteq Videos
               /\ \A v \in listed'[u] : /\ v \notin Existing' => <<"list", u>> \in late' \/ Refreshing(v)'
                                        /\ Deleting(v)' => <<"list", u>> \in late'
    <3>1. CASE u = w
      <4>1. listed'[u] = ids BY <1>3, <3>1 DEF EntriesRight, ListsRight
      <4> QED BY <1>1, <1>2, <1>3, <1>4, <3>1, <4>1
    <3>2. CASE u # w
      <4>1. listed'[u] = listed[u] BY <1>3, <3>2 DEF EntriesRight, ListsRight
      <4> QED BY <1>4, <2>2, <4>1 DEF EntriesRight, ListsRight
    <3> QED BY <3>1, <3>2
  <2> QED BY <2>1, <2>2 DEF ListsRight
<1> QED BY <1>5, <1>6 DEF EntriesRight

\* Whoever is dropped before it empties the caches leaves entries that are late.
LEMMA EntriesDrop ==
  ASSUME Base, EntriesRight, NEW r \in Requests, Drop(r)
  PROVE  EntriesRight'
<1>0. RequestsOK /\ req \in [Requests -> RequestSet] /\ req[r] \in RequestSet BY DEF Base, RequestsOK
<1>1. UNCHANGED <<videos, detail, listed>> /\ Existing' = Existing /\ late' = late \cup Stale(r)
  BY DEF Drop, Existing
<1>2. req'[r] = Idle \/ req'[r].at = "thumbnail"
  BY <1>0, DoneOK DEF Drop, Move, Go, To, RequestSet
<1>3. \A s \in Others(r) : req'[s] = req[s] BY <1>0, DoneOK DEF Drop, Move, Go, Others
<1>4. ASSUME NEW v, Deleting(v)' PROVE Deleting(v)
  <2>1. PICK s \in Requests : /\ req'[s].op \in {"delete", "deletemany"} /\ v \in req'[s].ids
                              /\ req'[s].at \in {"delrow", "tx", "settle"}
    BY <1>4 DEF Deleting
  <2>2. s # r BY <1>2, <2>1 DEF Idle
  <2>3. req'[s] = req[s] BY <1>3, <2>2 DEF Others
  <2> QED BY <2>1, <2>3 DEF Deleting
<1>5. ASSUME NEW v, Refreshing(v), ~Refreshing(v)' PROVE req[r].any /\ (v \in req[r].ids \/ req[r].op = "sweep")
  <2>1. PICK s \in Requests : req[s].any /\ (v \in req[s].ids \/ req[s].op = "sweep") BY <1>5 DEF Refreshing
  <2>2. CASE s # r
    <3>1. req'[s] = req[s] BY <1>3, <2>2 DEF Others
    <3> QED BY <1>5, <2>1, <3>1 DEF Refreshing
  <2> QED BY <2>1, <2>2
<1>6. ASSUME NEW v \in Videos, detail[v] # NoVideo, Gone(detail[v]), req[r].any,
             v \in req[r].ids \/ req[r].op = "sweep"
      PROVE  <<"detail", v>> \in late'
  BY <1>1, <1>6 DEF Stale
<1>7. ASSUME NEW u \in Users \cup {0}, NEW v \in Videos, v \in listed[u], v \notin Existing, req[r].any,
             v \in req[r].ids \/ req[r].op = "sweep"
      PROVE  <<"list", u>> \in late'
  <2> DEFINE V == {w \in Videos : req[r].any /\ (w \in req[r].ids \/ req[r].op = "sweep")}
  <2>1. v \in (listed[u] \cap V) \ Existing BY <1>7
  <2>2. (listed[u] \cap V) \ Existing # {} BY <2>1
  <2>3. <<"list", u>> \in Stale(r) BY <2>2 DEF Stale
  <2> QED BY <1>1, <2>3
<1>8. DetailsRight'
  <2> SUFFICES ASSUME NEW v \in Videos, detail[v] # NoVideo
               PROVE  /\ detail[v].id = v
                      /\ Gone(detail[v])' => <<"detail", v>> \in late' \/ Refreshing(v)'
                      /\ Deleting(v)' => <<"detail", v>> \in late'
    BY <1>1 DEF DetailsRight
  <2>1. /\ detail[v].id = v
        /\ Gone(detail[v]) => <<"detail", v>> \in late \/ Refreshing(v)
        /\ Deleting(v) => <<"detail", v>> \in late
    BY DEF EntriesRight, DetailsRight
  <2>2. Gone(detail[v])' => Gone(detail[v]) BY <1>1 DEF Gone
  <2>3. late \subseteq late' BY <1>1
  <2> QED BY <1>4, <1>5, <1>6, <2>1, <2>2, <2>3
<1>9. ListsRight'
  <2>1. DOMAIN listed' = Users \cup {0} BY <1>1 DEF EntriesRight, ListsRight
  <2>2. ASSUME NEW u \in Users \cup {0}, listed'[u] # NoList
        PROVE  /\ listed'[u] \subseteq Videos
               /\ \A v \in listed'[u] : /\ v \notin Existing' => <<"list", u>> \in late' \/ Refreshing(v)'
                                        /\ Deleting(v)' => <<"list", u>> \in late'
    <3>1. listed[u] # NoList /\ listed'[u] = listed[u] BY <1>1, <2>2
    <3>2. /\ listed[u] \subseteq Videos
          /\ \A v \in listed[u] : /\ v \notin Existing => <<"list", u>> \in late \/ Refreshing(v)
                                  /\ Deleting(v) => <<"list", u>> \in late
      BY <3>1 DEF EntriesRight, ListsRight
    <3>3. late \subseteq late' BY <1>1
    <3>4. ASSUME NEW v \in listed[u]
          PROVE  /\ v \notin Existing' => <<"list", u>> \in late' \/ Refreshing(v)'
                 /\ Deleting(v)' => <<"list", u>> \in late'
      BY <1>1, <1>4, <1>5, <1>7, <3>2, <3>3
    <3> QED BY <3>1, <3>2, <3>4
  <2> QED BY <2>1, <2>2 DEF ListsRight
<1> QED BY <1>8, <1>9 DEF EntriesRight

\* The invariant of the caches is inductive.
LEMMA CacheInvKept ==
  ASSUME Base, CacheInv, [Next]_vars
  PROVE  CacheInv'
<1>0. Base' /\ RequestsOK /\ Store /\ Numbered BY BaseKept DEF Base
<1>1. EntriesRight BY DEF CacheInv, EntriesRight
<1>2. \A s \in Requests : AnyOK(req[s]) BY DEF CacheInv
<1>3. ASSUME NEW r \in Requests, Serve(r) PROVE EntriesRight' /\ \A s \in Requests : AnyOK(req[s])'
  <2>1. \A s \in Requests : AnyOK(req[s])'
    <3>1. \A s \in Others(r) : req'[s] = req[s] BY <1>0, <1>3, ServeMoves
    <3>2. AnyOK(req'[r]) BY <1>0, <1>2, <1>3, AnyKept
    <3> QED BY <1>2, <3>1, <3>2 DEF Others, AnyOK
  <2>2. CASE Refresh(r) \/ InvalidateFirst(r) \/ Saved(r)
    BY <2>1, <2>2, EntriesNone DEF Refresh, InvalidateFirst, Saved, InvalidateCaches
  <2>4. CASE Drop(r) BY <1>1, <2>1, <2>4, EntriesDrop
  <2>3. CASE ~Refresh(r) /\ ~InvalidateFirst(r) /\ ~Saved(r) /\ ~Drop(r)
    <3>1. \A v \in Videos : (Deleting(v)' => Deleting(v)) /\ (Refreshing(v) => Refreshing(v)')
      BY <1>0, <1>2, <1>3, <2>3, PromisesKept
    <3>2. CASE Fill(r) BY <1>1, <2>1, <3>1, <3>2, EntriesFill
    <3>3. CASE FillList(r) BY <1>1, <2>1, <3>1, <3>3, EntriesFillList
    <3>4. CASE ~Fill(r) /\ ~FillList(r)
      <4>1. UNCHANGED caches BY <1>3, <2>3, <3>4, ServeCaches
      <4>2. \A v \in Existing : (v \in Existing' /\ videos'[v].edited = videos[v].edited)
               \/ Deleting(v) \/ Refreshing(v)'
        <5>1. CASE ~EditStep(r) /\ ~CommitDelete(r) BY <1>0, <1>3, <5>1, ServeStayPut DEF StayPut
        <5>2. CASE EditStep(r)
          <6>1. RowsKept /\ \A v \in Existing \ req[r].ids : videos'[v].edited = videos[v].edited
            BY <1>0, <5>2, EditVideosKeeps DEF EditStep
          <6>2. Go(r, [To(r, "refresh") EXCEPT !.any = TRUE]) BY <5>2 DEF EditStep
          <6>3. req'[r].any /\ req'[r].ids = req[r].ids BY <1>0, <6>2 DEF RequestsOK, Go, To, RequestSet
          <6>4. \A v \in req[r].ids : Refreshing(v)' BY <6>3 DEF Refreshing
          <6> QED BY <6>1, <6>4 DEF RowsKept
        <5>3. CASE CommitDelete(r)
          <6>1. Existing' = Existing \ req[r].ids /\ \A v \in Existing' : videos'[v] = videos[v]
            BY <1>0, <5>3, SCommitDelete
          <6>2. req[r].at = "settle" /\ req[r].op \in {"delete", "deletemany", "sweep", "burn", "playback"}
            BY <1>0, <5>3, RequestOK DEF CommitDelete, At, Paths
          <6>3. ASSUME NEW v \in req[r].ids \cap Existing PROVE Deleting(v) \/ Refreshing(v)'
            <7>1. CASE req[r].op \in {"delete", "deletemany"} BY <6>2, <7>1 DEF Deleting
            <7>2. CASE req[r].op \in {"sweep", "burn", "playback"}
              <8>1. RequestsOK' BY <1>0 DEF Base
              <8>2. req'[r].any /\ (req'[r].op = "sweep" \/ v \in req'[r].ids)
                BY <1>0, <5>3, <7>2, <8>1, DeleteSteps
              <8> QED BY <8>2 DEF Refreshing
            <7> QED BY <6>2, <7>1, <7>2
          <6> QED BY <6>1, <6>3
        <5> QED BY <5>1, <5>2, <5>3
      <4>3. EntriesRight' BY <1>1, <3>1, <4>1, <4>2, EntriesKept
      <4> QED BY <2>1, <4>3
    <3> QED BY <3>2, <3>3, <3>4
  <2> QED BY <2>2, <2>3, <2>4
<1>4. ASSUME NEW r \in Requests, Arrive(r) \/ Engage(r) \/ Contribute(r), \A s \in Requests : ~Serve(s)
      PROVE  EntriesRight' /\ \A s \in Requests : AnyOK(req[s])'
  <2>1. /\ \A v \in Videos : (Deleting(v)' => Deleting(v)) /\ (Refreshing(v) => Refreshing(v)')
        /\ AnyOK(req'[r])
    BY <1>0, <1>2, <1>4, PromisesStay
  <2>2. \A s \in Others(r) : req'[s] = req[s] BY <1>0, <1>4, ArriveMoves, ContributeMoves
  <2>3. UNCHANGED caches BY <1>4, CallApart, ContributeApart DEF caches
  <2>4. StayPut
    <3>1. [Next]_vars OBVIOUS
    <3> QED BY <1>4, <3>1, OtherStayPut
  <2>5. EntriesRight' BY <1>1, <2>1, <2>3, <2>4, EntriesKept DEF StayPut
  <2>6. \A s \in Requests : AnyOK(req[s])' BY <1>2, <2>1, <2>2 DEF Others, AnyOK
  <2> QED BY <2>5, <2>6
<1>5. ASSUME UNCHANGED req, UNCHANGED caches \/ TimePasses, \A s \in Requests : ~Serve(s)
      PROVE  EntriesRight' /\ \A s \in Requests : AnyOK(req[s])'
  <2>1. StayPut
    <3>1. [Next]_vars OBVIOUS
    <3> QED BY <1>5, <3>1, OtherStayPut
  <2>2. \A v \in Videos : (Deleting(v)' => Deleting(v)) /\ (Refreshing(v) => Refreshing(v)')
    BY <1>5 DEF Deleting, Refreshing
  <2>3. EntriesRight'
    <3>1. CASE UNCHANGED caches BY <1>1, <2>1, <2>2, <3>1, EntriesKept DEF StayPut
    <3>2. CASE TimePasses BY <3>2, EntriesNone DEF TimePasses
    <3> QED BY <1>5, <3>1, <3>2
  <2>4. \A s \in Requests : AnyOK(req[s])' BY <1>2, <1>5 DEF AnyOK
  <2> QED BY <2>3, <2>4
<1>6. RunTask \/ LoseFile \/ RestoreFile \/ CleanupShares \/ UNCHANGED vars => UNCHANGED caches /\ UNCHANGED req
  BY DEF RunTask, LoseFile, RestoreFile, CleanupShares, vars, libraryVars, caches
<1>7. TimePasses => UNCHANGED req BY DEF TimePasses
<1>8. EntriesRight' /\ \A s \in Requests : AnyOK(req[s])'
  <2>1. CASE \E r \in Requests : Serve(r) BY <1>3, <2>1
  <2>2. CASE \A r \in Requests : ~Serve(r) BY <1>4, <1>5, <1>6, <1>7, <2>2 DEF Next, LibraryNext
  <2> QED BY <2>1, <2>2
<1> QED BY <1>8 DEF CacheInv, EntriesRight

\* The caches of details and lists show a video that is gone, or as it was before
\* an edit, only while somebody has still to empty them, or from an entry that came late.
THEOREM CachesCorrect == Spec => []ShownIsThere
<1>1. Init => Base /\ CacheInv
  <2> SUFFICES ASSUME Init PROVE CacheInv BY BaseInit
  <2>1. \A r \in Requests : AnyOK(req[r]) BY DEF Init, Idle, AnyOK
  <2> QED BY <2>1 DEF Init, CacheInv, DetailsRight, ListsRight
<1>2. Base /\ CacheInv /\ [Next]_vars => Base' /\ CacheInv' BY BaseKept, CacheInvKept
<1>3. CacheInv => ShownIsThere BY DEF CacheInv, DetailsRight, ListsRight, ShownIsThere
<1> QED BY <1>1, <1>2, <1>3, PTL DEF Spec
=============================================================================
