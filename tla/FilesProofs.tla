----------------------------- MODULE FilesProofs -----------------------------
(***************************************************************************)
(* What TLAPS proves of the files of the video library, for every number   *)
(* of requests, videos and files on the disk, whatever is uploaded,        *)
(* scanned, deleted, swept, burned, lost and restored.                     *)
(*                                                                         *)
(* FilesInv is the invariant, on top of Base of LibraryProofs.  A request  *)
(* holds files between the step that makes or reads them and the one that  *)
(* records or removes them, so it says of each request what it holds       *)
(* (Holds), of two requests that they do not meet over a file on its way   *)
(* to a row (Apart), of each video that its file is its own (OwnedOK), of  *)
(* each uploaded file whose it is (Accounted), and that names are given    *)
(* once (NamesGiven).  FilesStep says what a step has to leave for that;   *)
(* lemmas named F... are about one action each.                            *)
(***************************************************************************)
EXTENDS LibraryProofs

-----------------------------------------------------------------------------
\* What is said of files.

\* The numbers in names were given: the next file, cover and thumbnail have names of
\* their own.
Named(f) == /\ f.kind \in {"media", "newcover", "tmpcover"} => f.n < seq.file
            /\ f.kind \in {"cover", "thumb"} => f.n < seq.video
NamesGiven ==
  /\ \A f \in disk : Named(f) /\ f.kind \in Kinds
  /\ \A f \in taken : Named(f) /\ f.kind = "media"
  /\ \A v \in Existing : \A f \in FilesOf(videos[v]) : Named(f)

\* The files that a request is about to give to a row or to remove.
Carrying == {"save", "discard", "placecover", "newcover"}
Claims(q, f) ==
  \/ q.at \in Carrying /\ f = q.file
  \/ q.at \in {"tx", "settle", "unlink"} /\ f \in q.files
  \/ q.at = "variants" /\ \E row \in q.rows : f \in FilesOf(row)
NewCoverOf(q) == File("newcover", q.file.n, None)

\* A file is a video's own: it is there, or was taken, no other row names it, and no
\* picture will have its name.
Own(w, f) ==
  /\ f \in disk \cup taken
  /\ f.kind \notin {"variant", "none"}
  /\ \A v \in Existing \ {w} : f \notin FilesOf(videos[v])
  /\ \A v \in Existing : f \notin {CoverOf(v), ThumbOf(v)}
Mine == {w \in Existing : IsLocal(videos[w]) /\ videos[w].file \notin raced}
OwnedOK == \A w \in Mine : \A f \in {videos[w].file} : Own(w, f)

\* What a request holds at the steps that make files or remove them.
HeldNames(q) ==
  /\ q.at \in {"adopt", "tx", "settle", "unlink"} => \A f \in q.files : Named(f)
  /\ q.at = "variants" => \A row \in q.rows : \A f \in FilesOf(row) : Named(f)
  /\ q.at \in Carrying => Named(q.file)
ClaimsOK(q) == \A w \in Mine :
  Claims(q, videos[w].file) => q.at \in {"tx", "settle", "variants"} /\ w \in q.ids
SavingOK(q) == q.at = "save" /\ q.file \notin raced =>
  /\ q.file \in disk \cup taken
  /\ \A v \in Existing : q.file \notin FilesOf(videos[v])
PlacingOK(q) == q.at = "placecover" =>
  /\ q.file.kind = "tmpcover"
  /\ NewCoverOf(q) \notin disk
  /\ \A w \in Mine : videos[w].file # NewCoverOf(q)
DrawingOK(q) ==
  /\ q.at \in {"coverurl", "scale"} => q.file = CoverOf(q.video) /\ q.video < seq.video
  /\ q.at = "thumburl" => q.file = ThumbOf(q.video) /\ q.video < seq.video
  /\ q.at = "newcover" => q.file.kind = "newcover"
  /\ q.at = "ffmpeg" => q.video < seq.video /\ \A row \in q.rows : row.id = q.video
  /\ q.at = "adopt" => \A f \in q.files : f.kind \notin {"variant", "none"} /\ f \notin q.known
  /\ q.at = "discard" => q.files = {q.file}

\* Whoever deletes videos has their files in hand, and the sweep deletes those whose
\* files have gone.
DeletingOK(q) ==
  /\ q.at \in {"invalidate", "delrow", "tx", "settle"} => \A v \in q.ids : v < seq.video
  /\ q.at \in {"tx", "settle"} /\ q.op # "sweep" =>
       \A v \in q.ids \cap Existing : videos[v].file.kind = "media" => videos[v].file \in q.files
  /\ q.at = "variants" =>
       /\ q.ids = {q.video} /\ q.video < seq.video
       /\ q.video \in Existing => \A row \in q.rows : videos[q.video].file = row.file
  /\ q.op = "sweep" /\ q.at \in {"list", "exists", "nextmissing", "tx", "settle"} => q.files = {}
  /\ q.at = "exists" =>
       \A row \in q.rows : row.id < seq.video /\ (row.id \in Existing => videos[row.id].file = row.file)
  /\ q.op = "sweep" /\ q.at \in {"nextmissing", "tx", "settle"} =>
       \A v \in q.todo \cup (IF q.at = "nextmissing" THEN {} ELSE q.ids) :
          /\ v < seq.video
          /\ v \in Existing /\ videos[v].file.kind = "media" => videos[v].file \in taken \/ videos[v].file \notin disk

\* All that is said of what a request holds.
Holds(q) == HeldNames(q) /\ ClaimsOK(q) /\ SavingOK(q) /\ PlacingOK(q) /\ DrawingOK(q) /\ DeletingOK(q)

\* Two requests do not meet over a file that is on its way to a row.
Apart(q, p) ==
  /\ q.at = "save" /\ q.file \notin raced => ~Claims(p, q.file)
  /\ q.at = "placecover" /\ p.at = "placecover" => q.file.n # p.file.n

\* An uploaded file on the disk belongs to a video, or to a request that saves or
\* removes it, or is known to have been left there.
Pending(q, f) == \/ q.at \in {"save", "discard"} /\ f = q.file
                 \/ q.at = "unlink" /\ f \in q.files
Accounted == \A f \in disk : f.kind = "media" =>
  \/ f \in taken \cup scene.left
  \/ \E v \in Existing : videos[v].file = f
  \/ \E r \in Requests : Pending(req[r], f)

\* The invariant.
FilesInv ==
  /\ NamesGiven /\ OwnedOK /\ Accounted
  /\ \A r \in Requests : \A q \in {req[r]} : Holds(q)
  /\ \A r \in Requests : \A s \in Others(r) : \A q \in {req[r]}, p \in {req[s]} : Apart(q, p)

\* The steps at which a request holds something that matters to the files.
Special == Carrying \cup {"adopt", "tx", "settle", "unlink", "variants", "coverurl", "scale", "thumburl", "ffmpeg",
                          "invalidate", "delrow", "list", "exists", "nextmissing"}

\* At the other steps a request holds nothing,
LEMMA PlainHolds == ASSUME NEW q, q.at \notin Special PROVE Holds(q)'
BY DEF Special, Carrying, Holds, HeldNames, ClaimsOK, Claims, SavingOK, PlacingOK, DrawingOK, DeletingOK

\* and meets nobody.
LEMMA PlainApart == ASSUME NEW q, NEW p, q.at \notin Special PROVE Apart(q, p)' /\ Apart(p, q)'
BY DEF Special, Carrying, Apart, Claims

\* What only grows.
Grows == /\ raced \subseteq raced' /\ taken \subseteq taken'
         /\ seq.file =< seq'.file /\ seq.video =< seq'.video

\* A name that was given stays given.
LEMMA NamedStays ==
  ASSUME Store, Store', Grows, NEW f \in FileSet, Named(f)
  PROVE  Named(f)'
<1>1. f.n \in Nat BY DEF FileSet
<1>2. seq.file \in Nat /\ seq'.file \in Nat /\ seq.video \in Nat /\ seq'.video \in Nat BY DEF Store, SeqSet
<1> QED BY <1>1, <1>2 DEF Named, Grows

\* The files of a row are files.
LEMMA FilesAre == ASSUME NEW row \in Rows PROVE FilesOf(row) \subseteq FileSet
BY DEF FilesOf, Rows

\* What a request holds stays right through a step of another one that keeps away
\* from it.
LEMMA HoldsStay ==
  ASSUME Store, Store', OldRows, Grows, NEW q \in RequestSet, Holds(q),
         \A f \in disk' \ disk : f.kind = "media" => f \in taken \/ \A v \in Existing : videos[v].file # f,
         \A v \in Mine' : v < seq.video \/ (/\ ~Claims(q, videos'[v].file)
                                            /\ q.at = "placecover" => videos'[v].file # NewCoverOf(q)),
         q.at = "save" /\ q.file \notin raced' =>
            /\ q.file \in disk \cup taken => q.file \in disk' \cup taken'
            /\ \A v \in Existing' : q.file \in FilesOf(videos'[v]) => v \in Existing /\ q.file \in FilesOf(videos[v]),
         q.at = "placecover" => NewCoverOf(q) \notin disk' \ disk
  PROVE  Holds(q)'
<1>a. /\ seq.video \in Nat /\ seq'.video \in Nat /\ seq.video =< seq'.video
      /\ raced \subseteq raced' /\ taken \subseteq taken'
  BY DEF Store, SeqSet, Grows
<1>b. /\ q.video \in Videos \cup {0} /\ q.ids \cup q.todo \subseteq Videos /\ q.rows \subseteq Rows
      /\ q.file \in FileSet /\ q.files \subseteq FileSet
  BY DEF RequestSet
<1>c. \A row \in Rows : row.id \in Videos BY DEF Rows
<1>v. \A v \in Videos : v \in Nat BY VideosAre
<1>f. q.video \in Nat BY <1>b, <1>v
<1>g. \A v \in q.ids \cup q.todo : v \in Nat BY <1>b, <1>v
<1>d. q.video \in Nat /\ \A v \in q.ids \cup q.todo : v \in Nat BY <1>f, <1>g
<1>e. \A row \in q.rows : row \in Rows /\ row.id \in Nat BY <1>b, <1>c, VideosAre
<1>0. /\ seq.video \in Nat /\ seq'.video \in Nat /\ seq.video =< seq'.video
      /\ raced \subseteq raced' /\ taken \subseteq taken'
      /\ q.video \in Nat /\ \A v \in q.ids \cup q.todo : v \in Nat
      /\ \A row \in q.rows : row \in Rows /\ row.id \in Nat
      /\ q.file \in FileSet /\ q.files \subseteq FileSet
  BY <1>a, <1>b, <1>d, <1>e
<1>1. \A v \in Existing' : v < seq.video => v \in Existing /\ videos'[v].file = videos[v].file
                                                  /\ videos'[v].source = videos[v].source
  BY DEF OldRows
<1>2. \A v \in Mine' : v < seq.video => v \in Mine /\ videos'[v].file = videos[v].file
  BY <1>0, <1>1 DEF Mine, IsLocal
<1>3. HeldNames(q)'
  <2>1. \A f \in q.files \cup {q.file} : Named(f) => Named(f)' BY <1>0, NamedStays
  <2>2. \A row \in q.rows : \A f \in FilesOf(row) : Named(f) => Named(f)' BY <1>0, FilesAre, NamedStays
  <2> HIDE DEF Named
  <2> QED BY <2>1, <2>2 DEF Holds, HeldNames
<1>4. ClaimsOK(q)'
  <2> SUFFICES ASSUME NEW w \in Mine', Claims(q, videos'[w].file)
               PROVE  q.at \in {"tx", "settle", "variants"} /\ w \in q.ids
    BY DEF ClaimsOK, Claims
  <2>1. w < seq.video OBVIOUS
  <2> QED BY <1>2, <2>1 DEF Holds, ClaimsOK
<1>5. SavingOK(q)' BY <1>0 DEF Holds, SavingOK
<1>6. PlacingOK(q)' BY <1>2 DEF Holds, PlacingOK, NewCoverOf
<1>7. DrawingOK(q)'
  <2>1. q.video < seq.video => q.video < seq'.video BY <1>0
  <2> QED BY <2>1 DEF Holds, DrawingOK
<1>8. DeletingOK(q)'
  <2>0. DeletingOK(q) BY DEF Holds
  <2>1. q.video < seq.video => q.video < seq'.video BY <1>0
  <2>2. \A v \in q.ids \cup q.todo : v < seq.video => v < seq'.video BY <1>0
  <2>3. \A row \in q.rows : row.id < seq.video => row.id < seq'.video BY <1>0
  <2>4. q.at \in {"invalidate", "delrow", "tx", "settle"} => \A v \in q.ids : v < seq.video /\ v < seq'.video
    BY <2>0, <2>2 DEF DeletingOK
  <2>5. q.at \in {"tx", "settle"} /\ q.op # "sweep" =>
          \A v \in q.ids \cap Existing' : videos'[v].file.kind = "media" => videos'[v].file \in q.files
    BY <1>1, <2>0, <2>4 DEF DeletingOK
  <2>6. q.at = "variants" =>
          /\ q.ids = {q.video} /\ q.video < seq'.video
          /\ q.video \in Existing' => \A row \in q.rows : videos'[q.video].file = row.file
    BY <1>1, <2>0, <2>1 DEF DeletingOK
  <2>7. q.at = "exists" => \A row \in q.rows : /\ row.id < seq'.video
                                               /\ row.id \in Existing' => videos'[row.id].file = row.file
    BY <1>1, <2>0, <2>3 DEF DeletingOK
  <2>8. q.op = "sweep" /\ q.at \in {"nextmissing", "tx", "settle"} =>
          \A v \in q.todo \cup (IF q.at = "nextmissing" THEN {} ELSE q.ids) :
            /\ v < seq'.video
            /\ v \in Existing' /\ videos'[v].file.kind = "media" =>
                 videos'[v].file \in taken' \/ videos'[v].file \notin disk'
    <3> SUFFICES ASSUME q.op = "sweep" /\ q.at \in {"nextmissing", "tx", "settle"},
                        NEW v \in q.todo \cup (IF q.at = "nextmissing" THEN {} ELSE q.ids)
                 PROVE  /\ v < seq'.video
                        /\ v \in Existing' /\ videos'[v].file.kind = "media" =>
                             videos'[v].file \in taken' \/ videos'[v].file \notin disk'
      OBVIOUS
    <3>1. /\ v < seq.video
          /\ v \in Existing /\ videos[v].file.kind = "media" => videos[v].file \in taken \/ videos[v].file \notin disk
      BY <2>0 DEF DeletingOK
    <3>2. v < seq'.video BY <2>2, <3>1
    <3>3. ASSUME v \in Existing', videos'[v].file.kind = "media", videos'[v].file \in disk'
          PROVE  videos'[v].file \in taken'
      <4>1. v \in Existing /\ videos'[v].file = videos[v].file BY <1>1, <3>1, <3>3
      <4>2. videos[v].file \in taken \/ videos[v].file \notin disk BY <3>1, <3>3, <4>1
      <4> QED BY <1>0, <3>3, <4>1, <4>2
    <3> QED BY <3>2, <3>3
  <2>9. q.op = "sweep" /\ q.at \in {"list", "exists", "nextmissing", "tx", "settle"} => q.files = {}
    BY <2>0 DEF DeletingOK
  <2> QED BY <2>4, <2>5, <2>6, <2>7, <2>8, <2>9 DEF DeletingOK
<1> QED BY <1>3, <1>4, <1>5, <1>6, <1>7, <1>8 DEF Holds

\* The files stay in order through a step that keeps away from what the other
\* requests hold: what it adds to the disk or to a row is nobody else's, what it
\* takes off the disk belongs to no video, and its new rows have their own files.
LEMMA FilesStep ==
  ASSUME Base, Base', FilesInv, OldRows, Grows, NEW r,
         \A s \in Requests : s # r => req'[s] = req[s],
         \A f \in disk' \ disk :
           /\ Named(f)' /\ f.kind \in Kinds
           /\ f.kind = "media" => f \in taken \/ \A v \in Existing : videos[v].file # f
           /\ \A s \in Requests : s # r /\ req[s].at = "placecover" => f # NewCoverOf(req[s]),
         \A f \in disk \ disk' :
           \/ f \in taken' \cup raced'
           \/ /\ \A w \in Mine \cap Existing' : videos[w].file # f
              /\ \A s \in Requests : s # r /\ req[s].at = "save" => req[s].file # f,
         \A f \in taken' \ taken : f \in disk /\ f.kind = "media",
         \A v \in Existing' : \A f \in FilesOf(videos'[v]) :
           \/ v \in Existing /\ f \in FilesOf(videos[v])
           \/ /\ Named(f)'
              /\ \/ f \in raced'
                 \/ /\ \A w \in Mine \cap Existing' : w # v => videos[w].file # f
                    /\ \A s \in Requests : s # r /\ req[s].at = "save" => req[s].file # f,
         \A v \in Mine' : v >= seq.video =>
           /\ \A f \in {videos'[v].file} : Own(v, f)'
           /\ \A s \in Requests : s # r =>
                /\ ~Claims(req[s], videos'[v].file)
                /\ req[s].at = "placecover" => videos'[v].file # NewCoverOf(req[s]),
         r \in Requests => \A q \in {req'[r]} :
           Holds(q)' /\ \A s \in Others(r) : \A p \in {req'[s]} : Apart(q, p)' /\ Apart(p, q)',
         Accounted'
  PROVE  FilesInv'
<1>0. /\ Store /\ Store' /\ Numbered /\ req \in [Requests -> RequestSet]
      /\ NamesGiven /\ OwnedOK
      /\ seq.video \in Nat /\ seq'.video \in Nat /\ seq.video =< seq'.video
      /\ raced \subseteq raced' /\ taken \subseteq taken'
  BY DEF Base, RequestsOK, FilesInv, Store, SeqSet, Grows
<1>1. \A v \in Existing' : v < seq.video => v \in Existing /\ videos'[v].file = videos[v].file
                                                  /\ videos'[v].source = videos[v].source
  BY DEF OldRows
<1>2. \A v \in Mine' : v < seq.video => v \in Mine /\ v \in Existing' /\ videos'[v].file = videos[v].file
  BY <1>0, <1>1 DEF Mine, IsLocal
<1>3. \A v \in Existing' : v \in Nat /\ videos'[v] \in Rows
  <2>1. \A v \in Existing' : v \in Videos /\ videos'[v] \in Rows BY <1>0 DEF Store, Existing
  <2>2. \A v \in Videos : v \in Nat BY VideosAre
  <2> QED BY <2>1, <2>2
<1>4. NamesGiven'
  <2>1. \A f \in FileSet : Named(f) => Named(f)' BY <1>0, NamedStays
  <2>2. disk \subseteq FileSet /\ taken \subseteq FileSet BY <1>0 DEF Store
  <2>3. \A v \in Existing' : FilesOf(videos'[v]) \subseteq FileSet BY <1>3, FilesAre
  <2> HIDE DEF Named
  <2>4. \A f \in disk' : Named(f)' /\ f.kind \in Kinds BY <1>0, <2>1, <2>2 DEF NamesGiven
  <2>5. \A f \in taken' : Named(f)' /\ f.kind = "media" BY <1>0, <2>1, <2>2 DEF NamesGiven
  <2>6. \A v \in Existing' : \A f \in FilesOf(videos'[v]) : Named(f)' BY <1>0, <2>1, <2>3 DEF NamesGiven
  <2> QED BY <2>4, <2>5, <2>6 DEF NamesGiven
<1>5. OwnedOK'
  <2> SUFFICES ASSUME NEW w \in Mine', NEW f, f = videos'[w].file PROVE Own(w, f)'
    BY DEF OwnedOK
  <2>1. w \in Existing' /\ f \notin raced' /\ w \in Nat BY <1>3 DEF Mine
  <2>2. CASE w < seq.video
    <3>1. w \in Mine /\ f = videos[w].file BY <1>2, <2>2
    <3>2. Own(w, f) BY <1>0, <3>1 DEF OwnedOK
    <3>3. f \in disk' \cup taken' BY <1>0, <2>1, <3>1, <3>2 DEF Own
    <3>4. \A v \in Existing' \ {w} : f \notin FilesOf(videos'[v])
      <4> SUFFICES ASSUME NEW v \in Existing' \ {w}, f \in FilesOf(videos'[v]) PROVE FALSE
        OBVIOUS
      <4>1. CASE v \in Existing /\ f \in FilesOf(videos[v]) BY <3>2, <4>1 DEF Own
      <4>2. CASE ~(v \in Existing /\ f \in FilesOf(videos[v]))
        <5>1. w \in Mine \cap Existing' /\ w # v /\ videos[w].file = f BY <2>1, <3>1
        <5> QED BY <2>1, <4>2, <5>1
      <4> QED BY <4>1, <4>2
    <3>5. \A v \in Existing' : f \notin {CoverOf(v), ThumbOf(v)}
      <4> SUFFICES ASSUME NEW v \in Existing', f \in {CoverOf(v), ThumbOf(v)} PROVE FALSE
        OBVIOUS
      <4>1. CASE v < seq.video BY <1>1, <3>2, <4>1 DEF Own
      <4>2. CASE ~(v < seq.video)
        <5>1. f.kind \in {"cover", "thumb"} /\ f.n = v BY DEF CoverOf, ThumbOf, File
        <5>2. f \in disk \cup taken BY <3>2 DEF Own
        <5>3. Named(f) BY <1>0, <5>2 DEF NamesGiven
        <5> QED BY <1>0, <1>3, <4>2, <5>1, <5>3 DEF Named
      <4> QED BY <4>1, <4>2
    <3>6. f.kind \notin {"variant", "none"} BY <3>2 DEF Own
    <3> QED BY <3>3, <3>4, <3>5, <3>6 DEF Own
  <2>3. CASE w >= seq.video BY <2>3
  <2> QED BY <1>0, <2>1, <2>2, <2>3
<1>6. ASSUME NEW s \in Requests, s # r, NEW q, q = req[s] PROVE Holds(q)'
  <2>0. req'[s] = q /\ q \in RequestSet /\ Holds(q) BY <1>0, <1>6 DEF FilesInv
  <2>1. \A f \in disk' \ disk : f.kind = "media" => f \in taken \/ \A v \in Existing : videos[v].file # f
    OBVIOUS
  <2>2. \A v \in Mine' : v < seq.video \/ (/\ ~Claims(q, videos'[v].file)
                                           /\ q.at = "placecover" => videos'[v].file # NewCoverOf(q))
    <3>1. \A v \in Mine' : v < seq.video \/ v >= seq.video BY <1>0, <1>3 DEF Mine
    <3> QED BY <1>6, <3>1
  <2>3. q.at = "save" /\ q.file \notin raced' =>
            /\ q.file \in disk \cup taken => q.file \in disk' \cup taken'
            /\ \A v \in Existing' : q.file \in FilesOf(videos'[v]) => v \in Existing /\ q.file \in FilesOf(videos[v])
    <3> SUFFICES ASSUME q.at = "save", q.file \notin raced'
                 PROVE  /\ q.file \in disk \cup taken => q.file \in disk' \cup taken'
                        /\ \A v \in Existing' : q.file \in FilesOf(videos'[v]) =>
                             v \in Existing /\ q.file \in FilesOf(videos[v])
      OBVIOUS
    <3>1. q.file \in disk \cup taken => q.file \in disk' \cup taken' BY <1>0, <1>6
    <3>2. \A v \in Existing' : q.file \in FilesOf(videos'[v]) => v \in Existing /\ q.file \in FilesOf(videos[v])
      BY <1>6
    <3> QED BY <3>1, <3>2
  <2>4. q.at = "placecover" => NewCoverOf(q) \notin disk' \ disk BY <1>6
  <2> QED BY <1>0, <2>0, <2>1, <2>2, <2>3, <2>4, HoldsStay
<1>7. ASSUME NEW s \in Requests, NEW t \in Others(s), s # r, t # r, NEW q, q = req[s], NEW p, p = req[t]
      PROVE  Apart(q, p)'
  <2>1. Apart(q, p) BY <1>7 DEF FilesInv, Others
  <2> QED BY <1>0, <2>1 DEF Apart
<1>8. \A s \in Requests : \A q \in {req'[s]} : Holds(q)' BY <1>6
<1>9. \A s \in Requests : \A t \in Others(s) : \A q \in {req'[s]}, p \in {req'[t]} : Apart(q, p)'
  <2> SUFFICES ASSUME NEW s \in Requests, NEW t \in Others(s), NEW q, q = req'[s], NEW p, p = req'[t]
               PROVE  Apart(q, p)'
    OBVIOUS
  <2>1. CASE s # r /\ t # r BY <1>7, <2>1 DEF Others
  <2>2. CASE s = r BY <2>2
  <2>3. CASE t = r BY <2>3 DEF Others
  <2> QED BY <2>1, <2>2, <2>3
<1> QED BY <1>4, <1>5, <1>8, <1>9 DEF FilesInv, Others

\* What a step that adds no row and changes no file of one leaves.
RowsSame == /\ Existing' = Existing /\ raced' = raced /\ seq'.video = seq.video
            /\ \A v \in Existing : FilesOf(videos'[v]) = FilesOf(videos[v]) /\ videos'[v].file = videos[v].file

\* So it is when a step changes the disk and its request.
LEMMA DiskStep ==
  ASSUME Base, Base', FilesInv, OldRows, Grows, RowsSame, NEW r,
         \A s \in Requests : s # r => req'[s] = req[s],
         \A f \in disk' \ disk :
           /\ Named(f)' /\ f.kind \in Kinds
           /\ f.kind = "media" => \/ f \in taken
                                  \/ /\ r \in Requests /\ Pending(req'[r], f)
                                     /\ \A v \in Existing : videos[v].file # f
           /\ \A s \in Requests : s # r /\ req[s].at = "placecover" => f # NewCoverOf(req[s]),
         \A f \in disk \ disk' :
           \/ f \in taken' \cup raced'
           \/ /\ \A w \in Mine : videos[w].file # f
              /\ \A s \in Requests : s # r /\ req[s].at = "save" => req[s].file # f,
         \A f \in taken' \ taken : f \in disk /\ f.kind = "media",
         r \in Requests =>
           /\ \A q \in {req'[r]} :
                Holds(q)' /\ \A s \in Others(r) : \A p \in {req'[s]} : Apart(q, p)' /\ Apart(p, q)'
           /\ \A f \in disk' : f.kind = "media" /\ Pending(req[r], f) => Pending(req'[r], f) \/ f \in scene'.left
  PROVE  FilesInv'
<1>0. Store /\ Store' /\ Numbered /\ Accounted /\ seq.video \in Nat
  BY DEF Base, FilesInv, Store, SeqSet
<1>1. \A v \in Existing' : v \in Nat /\ v < seq.video
  <2>1. \A v \in Existing' : v \in Videos /\ v < seq.video BY <1>0 DEF RowsSame, Numbered, Existing
  <2>2. \A v \in Videos : v \in Nat BY VideosAre
  <2> QED BY <2>1, <2>2
<1>2. \A v \in Existing' : \A f \in FilesOf(videos'[v]) : v \in Existing /\ f \in FilesOf(videos[v])
  BY DEF RowsSame
<1>3. \A v \in Mine' : ~(v >= seq.video) BY <1>0, <1>1 DEF Mine
<1>4. Accounted'
  <2> SUFFICES ASSUME NEW f \in disk', f.kind = "media"
               PROVE  \/ f \in taken' \cup scene'.left
                      \/ \E v \in Existing' : videos'[v].file = f
                      \/ \E s \in Requests : Pending(req'[s], f)
    BY DEF Accounted, Pending
  <2>1. CASE f \notin disk BY <2>1 DEF Grows
  <2>2. CASE f \in disk
    <3>1. CASE f \in taken \cup scene.left BY <3>1 DEF Grows, OldRows
    <3>2. CASE \E v \in Existing : videos[v].file = f BY <3>2 DEF RowsSame
    <3>3. CASE \E s \in Requests : Pending(req[s], f)
      <4>1. PICK s \in Requests : Pending(req[s], f) BY <3>3
      <4>2. Pending(req'[s], f) \/ f \in scene'.left
        <5>1. CASE s = r BY <4>1, <5>1
        <5>2. CASE s # r
          <6>1. req'[s] = req[s] BY <5>2
          <6> QED BY <4>1, <6>1
        <5> QED BY <5>1, <5>2
      <4> QED BY <4>2
    <3> QED BY <1>0, <2>2, <3>1, <3>2, <3>3 DEF Accounted
  <2> QED BY <2>1, <2>2
<1>5. \A f \in disk' \ disk :
        /\ Named(f)' /\ f.kind \in Kinds
        /\ f.kind = "media" => f \in taken \/ \A v \in Existing : videos[v].file # f
        /\ \A s \in Requests : s # r /\ req[s].at = "placecover" => f # NewCoverOf(req[s])
  OBVIOUS
<1>6. \A f \in disk \ disk' :
        \/ f \in taken' \cup raced'
        \/ /\ \A w \in Mine \cap Existing' : videos[w].file # f
           /\ \A s \in Requests : s # r /\ req[s].at = "save" => req[s].file # f
  OBVIOUS
<1>7. \A v \in Existing' : \A f \in FilesOf(videos'[v]) :
           \/ v \in Existing /\ f \in FilesOf(videos[v])
           \/ /\ Named(f)'
              /\ \/ f \in raced'
                 \/ /\ \A w \in Mine \cap Existing' : w # v => videos[w].file # f
                    /\ \A s \in Requests : s # r /\ req[s].at = "save" => req[s].file # f
  BY <1>2
<1>8. \A v \in Mine' : v >= seq.video =>
           /\ \A f \in {videos'[v].file} : Own(v, f)'
           /\ \A s \in Requests : s # r =>
                /\ ~Claims(req[s], videos'[v].file)
                /\ req[s].at = "placecover" => videos'[v].file # NewCoverOf(req[s])
  BY <1>3
<1> QED BY <1>4, <1>5, <1>6, <1>7, <1>8, FilesStep

\* And when a request moves on and the tables and the disk stay.
LEMMA StillStep ==
  ASSUME Base, Base', FilesInv, OldRows, RowsSame, UNCHANGED <<disk, taken>>, seq'.file = seq.file, NEW r \in Requests,
         \A s \in Others(r) : req'[s] = req[s],
         \A q \in {req'[r]} : Holds(q)' /\ \A s \in Others(r) : \A p \in {req[s]} : Apart(q, p)' /\ Apart(p, q)',
         \A f \in disk : f.kind = "media" /\ Pending(req[r], f) => Pending(req'[r], f) \/ f \in scene'.left
  PROVE  FilesInv'
<1>1. seq.video \in Nat /\ seq.file \in Nat BY DEF Base, Store, SeqSet
<1>2. Grows BY <1>1 DEF Grows, RowsSame
<1>3. \A s \in Requests : s # r => req'[s] = req[s] BY DEF Others
<1>4. \A q \in {req'[r]} : Holds(q)' /\ \A s \in Others(r) : \A p \in {req'[s]} : Apart(q, p)' /\ Apart(p, q)'
  OBVIOUS
<1>5. disk' = disk /\ taken' = taken OBVIOUS
<1> HIDE DEF Pending
<1>6. /\ \A f \in disk' \ disk :
           /\ Named(f)' /\ f.kind \in Kinds
           /\ f.kind = "media" => \/ f \in taken
                                  \/ /\ r \in Requests /\ Pending(req'[r], f)
                                     /\ \A v \in Existing : videos[v].file # f
           /\ \A s \in Requests : s # r /\ req[s].at = "placecover" => f # NewCoverOf(req[s])
      /\ \A f \in disk \ disk' :
           \/ f \in taken' \cup raced'
           \/ /\ \A w \in Mine : videos[w].file # f
              /\ \A s \in Requests : s # r /\ req[s].at = "save" => req[s].file # f
      /\ \A f \in taken' \ taken : f \in disk /\ f.kind = "media"
      /\ \A f \in disk' : f.kind = "media" /\ Pending(req[r], f) => Pending(req'[r], f) \/ f \in scene'.left
  BY <1>5
<1> QED BY <1>2, <1>3, <1>4, <1>6, DiskStep

\* Or when it moves on to a step at which it holds nothing.
LEMMA PlainStep ==
  ASSUME Base, Base', FilesInv, OldRows, RowsSame, UNCHANGED <<disk, taken>>, seq'.file = seq.file, NEW r \in Requests,
         \A s \in Others(r) : req'[s] = req[s],
         req[r].at \notin {"save", "discard", "unlink"}, req'[r].at \notin Special
  PROVE  FilesInv'
<1>1. \A q \in {req'[r]} : Holds(q)' /\ \A s \in Others(r) : \A p \in {req[s]} : Apart(q, p)' /\ Apart(p, q)'
  BY PlainHolds, PlainApart
<1>2. \A f \in disk : f.kind = "media" /\ Pending(req[r], f) => Pending(req'[r], f) BY DEF Pending
<1> QED BY <1>1, <1>2, StillStep

\* There is something that is no request.
LEMMA SomethingElse == ASSUME NEW S PROVE \E x : x \notin S
<1> DEFINE R == {x \in S : x \notin x}
<1>1. R \notin S OBVIOUS
<1> QED BY <1>1

\* The same of steps of nobody.
LEMMA NobodysStep ==
  ASSUME Base, Base', FilesInv, OldRows, Grows, RowsSame, req' = req,
         \A f \in disk' \ disk :
           /\ Named(f)' /\ f.kind \in Kinds
           /\ f.kind = "media" => f \in taken
           /\ f.kind # "newcover",
         \A f \in disk \ disk' : f \in taken',
         \A f \in taken' \ taken : f \in disk /\ f.kind = "media"
  PROVE  FilesInv'
<1>1. PICK r : r \notin Requests BY SomethingElse
<1>2. \A f \in disk' \ disk :
           /\ Named(f)' /\ f.kind \in Kinds
           /\ f.kind = "media" => \/ f \in taken
                                  \/ /\ r \in Requests /\ Pending(req'[r], f)
                                     /\ \A v \in Existing : videos[v].file # f
           /\ \A s \in Requests : s # r /\ req[s].at = "placecover" => f # NewCoverOf(req[s])
  BY DEF NewCoverOf, File
<1>3. \A f \in disk \ disk' :
           \/ f \in taken' \cup raced'
           \/ /\ \A w \in Mine : videos[w].file # f
              /\ \A s \in Requests : s # r /\ req[s].at = "save" => req[s].file # f
  OBVIOUS
<1> QED BY <1>1, <1>2, <1>3, DiskStep

\* A number that was not given is in no name.
LEMMA FreshName ==
  ASSUME Base, FilesInv, NEW f, f.kind \in {"media", "newcover", "tmpcover"}, f.n = seq.file
  PROVE  /\ f \notin disk \cup taken /\ \A v \in Existing : f \notin FilesOf(videos[v]) /\ videos[v].file # f
         /\ \A s \in Requests : \A p \in {req[s]} : p.at \in Carrying => p.file # f
         /\ \A s \in Requests : \A p \in {req[s]} : ~Claims(p, f)
<1>1. ~Named(f) BY DEF Base, Store, SeqSet, Named
<1>2. f \notin disk \cup taken /\ \A v \in Existing : f \notin FilesOf(videos[v]) BY <1>1 DEF FilesInv, NamesGiven
<1>3. \A v \in Existing : videos[v].file # f BY <1>2 DEF FilesOf, NoFile, File
<1> HIDE DEF Named
<1>4. \A s \in Requests : \A p \in {req[s]} : HeldNames(p) BY DEF FilesInv, Holds
<1>5. \A s \in Requests : \A p \in {req[s]} : p.at \in Carrying => p.file # f BY <1>1, <1>4 DEF HeldNames
<1>6. \A s \in Requests : \A p \in {req[s]} : ~Claims(p, f) BY <1>1, <1>4, <1>5 DEF HeldNames, Claims
<1> QED BY <1>2, <1>3, <1>5, <1>6

-----------------------------------------------------------------------------
\* Uploads.

\* The received file gets a name that nobody has, and its request claims it.
LEMMA FRenameStep ==
  ASSUME Base, Base', FilesInv, OldRows, NEW r \in Requests, RenameStep(r)
  PROVE  FilesInv'
<1>a. PICK f : f = DestName(req[r].file.content) OBVIOUS
<1>0. /\ RequestsOK /\ RequestsOK' /\ Store /\ Store' /\ req \in [Requests -> RequestSet] /\ req[r] \in RequestSet
      /\ seq.video \in Nat /\ seq.file \in Nat /\ req[r].at = "rename" /\ Paths(req'[r])
  BY DEF Base, RequestsOK, Store, SeqSet, RenameStep, At
<1>1. f.kind = "media" /\ f.n = seq.file BY <1>a DEF DestName, File
<1>2. /\ disk' = disk \cup {f} /\ videos' = videos /\ raced' = raced /\ taken' = taken
      /\ seq'.file = seq.file + 1 /\ seq'.video = seq.video
  BY <1>0, <1>a DEF RenameStep, history, Store, SeqSet
<1>3. req'[r] = [To(r, "save") EXCEPT !.file = f] /\ \A s \in Others(r) : req'[s] = req[s]
  BY <1>0, <1>a DEF RenameStep, Go, Others
<1>4. req'[r].at = "save" /\ req'[r].file = f BY <1>0, <1>3 DEF To, RequestSet
<1>5. /\ f \notin disk \cup taken /\ \A v \in Existing : f \notin FilesOf(videos[v]) /\ videos[v].file # f
      /\ \A s \in Requests : \A p \in {req[s]} : p.at \in Carrying => p.file # f
      /\ \A s \in Requests : \A p \in {req[s]} : ~Claims(p, f)
  BY <1>1, FreshName
<1>6. Grows /\ RowsSame BY <1>0, <1>2 DEF Grows, RowsSame, Existing
<1>7. Named(f)' BY <1>0, <1>1, <1>2 DEF Named
<1>8. f.kind \in Kinds BY <1>1 DEF Kinds
<1>9. \A q \in {req'[r]} : Holds(q)' /\ \A s \in Others(r) : \A p \in {req'[s]} : Apart(q, p)' /\ Apart(p, q)'
  <2> TAKE q \in {req'[r]}
  <2>0. q.at = "save" /\ q.file = f /\ q.op = "upload" BY <1>0, <1>4 DEF Paths
  <2>1. HeldNames(q)' BY <1>7, <2>0 DEF HeldNames, Carrying
  <2>2. ClaimsOK(q)' BY <1>2, <1>5, <2>0 DEF ClaimsOK, Claims, Mine, Existing
  <2>3. SavingOK(q)' BY <1>2, <1>5, <2>0 DEF SavingOK, Existing
  <2>4. PlacingOK(q)' /\ DrawingOK(q)' /\ DeletingOK(q)' BY <2>0 DEF PlacingOK, DrawingOK, DeletingOK
  <2>5. ASSUME NEW s \in Others(r), NEW p, p = req[s] PROVE Apart(q, p)' /\ Apart(p, q)'
    <3>1. Apart(q, p)' BY <1>5, <2>0, <2>5 DEF Apart, Others
    <3>2. Apart(p, q)' BY <1>5, <2>0, <2>5 DEF Apart, Claims, Carrying, Others
    <3> QED BY <3>1, <3>2
  <2> QED BY <1>3, <2>1, <2>2, <2>3, <2>4, <2>5 DEF Holds
<1>10. \A s \in Requests : s # r => req'[s] = req[s] BY <1>3 DEF Others
<1>11. Pending(req'[r], f) BY <1>4 DEF Pending
<1>12. \A g \in disk' : g.kind = "media" /\ Pending(req[r], g) => Pending(req'[r], g) BY <1>0 DEF Pending
<1>13. \A s \in Requests : s # r /\ req[s].at = "placecover" => f # NewCoverOf(req[s])
  BY <1>1 DEF NewCoverOf, File
<1> HIDE DEF Pending
<1>14. \A g \in disk' \ disk :
           /\ Named(g)' /\ g.kind \in Kinds
           /\ g.kind = "media" => \/ g \in taken
                                  \/ /\ r \in Requests /\ Pending(req'[r], g)
                                     /\ \A v \in Existing : videos[v].file # g
           /\ \A s \in Requests : s # r /\ req[s].at = "placecover" => g # NewCoverOf(req[s])
  <2> HIDE DEF Named
  <2> QED BY <1>2, <1>5, <1>7, <1>8, <1>11, <1>13
<1>15. disk \ disk' = {} /\ taken' \ taken = {} BY <1>2
<1> QED BY <1>6, <1>9, <1>10, <1>12, <1>14, <1>15, DiskStep

\* An upload that is refused is removed, and so is a cover that could not be recorded.
LEMMA FRefused ==
  ASSUME Base, Base', FilesInv, OldRows, RowsSame, UNCHANGED <<disk, taken>>, seq'.file = seq.file,
         NEW r \in Requests, req[r].at \in {"save", "newcover"}, Go(r, [To(r, "discard") EXCEPT !.files = {req[r].file}])
  PROVE  FilesInv'
<1>0. /\ RequestsOK /\ RequestsOK' /\ Store /\ Store' /\ req \in [Requests -> RequestSet] /\ req[r] \in RequestSet
      /\ Paths(req'[r]) /\ req[r].file \in FileSet
      /\ seq.video \in Nat /\ seq.file \in Nat
  BY DEF Base, RequestsOK, RequestSet, Store, SeqSet
<1>1. req'[r] = [To(r, "discard") EXCEPT !.files = {req[r].file}] /\ \A s \in Others(r) : req'[s] = req[s]
  BY <1>0 DEF Go, Others
<1>2. req'[r].at = "discard" /\ req'[r].file = req[r].file /\ req'[r].files = {req[r].file}
  BY <1>0, <1>1 DEF To, RequestSet
<1>3. Grows BY <1>0 DEF Grows, RowsSame
<1>4. PICK q0 : q0 = req[r] OBVIOUS
<1>5. Holds(q0) /\ q0.at \in {"save", "newcover"} BY <1>4 DEF FilesInv
<1>6. Mine' \subseteq Mine /\ \A w \in Mine' : videos'[w].file = videos[w].file
  <2>1. \A v \in Existing' : v \in Existing /\ v < seq.video BY DEF Base, Numbered, RowsSame
  <2> QED BY <2>1 DEF RowsSame, OldRows, Mine, IsLocal
<1>7. \A q \in {req'[r]} : Holds(q)' /\ \A s \in Others(r) : \A p \in {req[s]} : Apart(q, p)' /\ Apart(p, q)'
  <2> TAKE q \in {req'[r]}
  <2>0. q.at = "discard" /\ q.file = q0.file /\ q.files = {q.file}
    BY <1>2, <1>4
  <2>1. HeldNames(q)'
    <3>1. Named(q0.file) BY <1>5 DEF Holds, HeldNames, Carrying
    <3>2. Named(q0.file)' BY <1>0, <1>3, <1>4, <3>1, NamedStays
    <3> QED BY <2>0, <3>2 DEF HeldNames
  <2>2. ClaimsOK(q)'
    <3>1. \A f : Claims(q, f) => Claims(q0, f) BY <1>5, <2>0 DEF Claims, Carrying
    <3>2. \A w \in Mine : ~Claims(q0, videos[w].file) BY <1>5 DEF Holds, ClaimsOK
    <3>3. \A w \in Mine' : ~Claims(q, videos'[w].file) BY <1>6, <3>1, <3>2
    <3> QED BY <3>3 DEF ClaimsOK, Claims
  <2>3. SavingOK(q)' /\ PlacingOK(q)' /\ DrawingOK(q)' /\ DeletingOK(q)'
    BY <2>0 DEF SavingOK, PlacingOK, DrawingOK, DeletingOK
  <2>4. ASSUME NEW s \in Others(r), NEW p, p = req[s] PROVE Apart(q, p)' /\ Apart(p, q)'
    <3>1. Apart(q, p)' BY <2>0 DEF Apart
    <3>2. Apart(p, q0) BY <1>4, <2>4 DEF FilesInv, Others
    <3>3. raced' = raced BY DEF RowsSame
    <3>4. Apart(p, q)' BY <1>5, <2>0, <3>2, <3>3 DEF Apart, Claims, Carrying
    <3> QED BY <3>1, <3>4
  <2> QED BY <2>1, <2>2, <2>3, <2>4 DEF Holds
<1>8. \A f \in disk : f.kind = "media" /\ Pending(req[r], f) => Pending(req'[r], f)
  BY <1>2 DEF Pending
<1> QED BY <1>1, <1>7, <1>8, StillStep

\* A request removes what no video has.
LEMMA FDiscard ==
  ASSUME Base, Base', FilesInv, OldRows, NEW r \in Requests, Discard(r) \/ Unlink(r)
  PROVE  FilesInv'
<1>0. /\ RequestsOK /\ RequestsOK' /\ Store /\ Store' /\ req \in [Requests -> RequestSet] /\ req[r] \in RequestSet
      /\ seq.video \in Nat /\ seq.file \in Nat
  BY DEF Base, RequestsOK, Store, SeqSet
<1>1. /\ RemoveFiles(req[r].files) /\ UNCHANGED <<videos, seq, raced, taken>> /\ req[r].at \in {"discard", "unlink"}
  BY DEF Discard, Unlink, history, At
<1>r. /\ disk' \subseteq disk /\ disk \ req[r].files \subseteq disk'
      /\ req[r].files \cap disk' \subseteq scene'.left
  <2>1. req[r].files \in SUBSET FileSet BY <1>0 DEF RequestSet
  <2> QED BY <1>0, <1>1, <2>1, RemoveOK
<1>2. /\ \A s \in Others(r) : req'[s] = req[s]
      /\ req'[r].at \in {"idle", "finish", "refresh"}
  <2>1. CASE Discard(r) BY <1>0, <2>1 DEF Discard, Done, Go, Others, Idle
  <2>2. CASE Unlink(r) BY <1>0, <2>2 DEF Unlink, Move, To, Go, Others, RequestSet
  <2> QED BY <2>1, <2>2
<1>3. Grows /\ RowsSame BY <1>0, <1>1 DEF Grows, RowsSame, Existing
<1>4. PICK q : q = req[r] OBVIOUS
<1>5. Holds(q) /\ \A s \in Others(r) : \A p \in {req[s]} : Apart(p, q) BY <1>4 DEF FilesInv, Others
<1>6. \A f \in q.files : Claims(q, f)
  <2>1. q.at = "discard" => q.files = {q.file} BY <1>5 DEF Holds, DrawingOK
  <2> QED BY <1>1, <1>4, <2>1 DEF Claims, Carrying
<1>7. \A f \in disk \ disk' :
           \/ f \in taken' \cup raced'
           \/ /\ \A w \in Mine : videos[w].file # f
              /\ \A s \in Requests : s # r /\ req[s].at = "save" => req[s].file # f
  <2> SUFFICES ASSUME NEW f \in disk \ disk', f \notin raced
               PROVE  /\ \A w \in Mine : videos[w].file # f
                      /\ \A s \in Requests : s # r /\ req[s].at = "save" => req[s].file # f
    BY <1>1
  <2>1. Claims(q, f) BY <1>r, <1>4, <1>6
  <2>2. \A w \in Mine : videos[w].file # f BY <1>1, <1>4, <1>5, <2>1 DEF Holds, ClaimsOK
  <2>3. \A s \in Requests : s # r /\ req[s].at = "save" => req[s].file # f
    BY <1>5, <2>1 DEF Apart, Others
  <2> QED BY <2>2, <2>3
<1>8. \A x \in {req'[r]} : Holds(x)' /\ \A s \in Others(r) : \A p \in {req'[s]} : Apart(x, p)' /\ Apart(p, x)'
  <2>1. \A x \in {req'[r]} : x.at \notin Special BY <1>2 DEF Special, Carrying
  <2> QED BY <2>1, PlainHolds, PlainApart
<1>9. \A f \in disk' : f.kind = "media" /\ Pending(req[r], f) => Pending(req'[r], f) \/ f \in scene'.left
  <2> SUFFICES ASSUME NEW f \in disk', Pending(q, f) PROVE f \in scene'.left
    BY <1>4
  <2>1. q.at = "discard" => q.files = {q.file} BY <1>5 DEF Holds, DrawingOK
  <2>2. f \in q.files BY <1>1, <1>4, <2>1 DEF Pending
  <2> QED BY <1>r, <1>4, <2>2
<1>10. disk' \ disk = {} /\ taken' \ taken = {} BY <1>1, <1>r
<1>11. \A s \in Requests : s # r => req'[s] = req[s] BY <1>2 DEF Others
<1> QED BY <1>3, <1>7, <1>8, <1>9, <1>10, <1>11, DiskStep

\* Requests of viewers, and those that only read, hold no files.
LEMMA PlainOp ==
  ASSUME NEW q, Paths(q),
         q.op \notin {"upload", "scan", "delete", "deletemany", "sweep", "burn", "playback", "cover", "backfill"}
  PROVE  q.at \notin Special
BY DEF Paths, Special, Carrying

\* The files of new rows, with the next ids, that have no pictures of their own.
LEMMA FilesOfNew ==
  ASSUME NEW row \in Rows, row.cover = NoFile, row.thumb \in {NoFile, row.file}
  PROVE  FilesOf(row) \subseteq {row.file}
BY DEF FilesOf

\* The row of an upload takes the file over from its request, or the upload is refused.
LEMMA FSaveStep ==
  ASSUME Base, Base', FilesInv, OldRows, NEW r \in Requests, SaveStep(r)
  PROVE  FilesInv'
<1>a. PICK f : f = req[r].file OBVIOUS
<1>b. PICK q : q = req[r] OBVIOUS
<1>c. PICK n : n = seq.video OBVIOUS
<1>d. PICK u : u = req[r].user OBVIOUS
<1>0. /\ RequestsOK /\ RequestsOK' /\ Store /\ Store' /\ Numbered /\ req \in [Requests -> RequestSet]
      /\ req[r] \in RequestSet /\ q.at = "save" /\ At(r, "save")
      /\ seq.video \in Nat /\ seq.file \in Nat
  BY <1>b DEF Base, RequestsOK, Store, SeqSet, SaveStep, At
<1>1. CASE Outcome(u, f) = "ok"
  <2>1. PICK row : row = NewVideo(seq.video, u, SourceOf(f), f, f.content) OBVIOUS
  <2>2. /\ RoomFor(1) /\ videos' = [videos EXCEPT ![seq.video] = row] /\ seq' = [seq EXCEPT !.video = @ + 1]
        /\ storage' = [storage EXCEPT ![u] = @ + SizeOf[f.content]]
        /\ tasks' = tasks \cup Background(seq.video, f)
        /\ UNCHANGED <<disk, raced, taken, variants, progress, scene, detail>>
        /\ Go(r, [To(r, "saved") EXCEPT !.video = seq.video])
    BY <1>1, <1>a, <1>d, <2>1 DEF SaveStep, SaveLocalVideoWithQuota, history, attached, caches
  <2>3. /\ u \in Users /\ f \in FileSet /\ f.kind = "media" /\ f.content \in Contents
        /\ row \in Rows /\ row.id = seq.video /\ row.file = f /\ IsLocal(row)
        /\ row.cover = NoFile /\ row.thumb = NoFile
    BY <1>0, <1>a, <1>d, <2>1, <2>2, SavedRow
  <2>4. /\ Existing' = Existing \cup {n} /\ n \notin Existing
        /\ \A v \in Existing : videos'[v] = videos[v]
        /\ videos'[n] = row
    <3>1. seq.video \in Videos BY <1>0, <2>2, RoomOK
    <3>2. videos'[n] = row BY <1>0, <1>c, <2>2, <3>1 DEF Store
    <3>3. n \notin Existing BY <1>0, <1>c DEF Numbered
    <3>4. Existing' = Existing \cup {n} BY <1>0, <1>c, <2>2, <2>3, <3>1, RowIsNoVideo DEF Store, Existing
    <3>5. \A v \in Existing : videos'[v] = videos[v] BY <1>0, <1>c, <2>2, <3>3 DEF Existing, Store
    <3> QED BY <3>2, <3>3, <3>4, <3>5
  <2>5. /\ seq'.video = seq.video + 1 /\ seq'.file = seq.file /\ disk' = disk /\ raced' = raced /\ taken' = taken
    BY <1>0, <2>2 DEF Store, SeqSet
  <2>6. req'[r].at = "saved" /\ \A s \in Requests : s # r => req'[s] = req[s]
    BY <1>0, <2>2 DEF Go, To, RequestSet
  <2>7. Grows BY <1>0, <2>5 DEF Grows
  <2>8. Holds(q) BY <1>b DEF FilesInv
  <2>9. \A s \in Requests : s # r => \A p \in {req[s]} : Apart(q, p) /\ Apart(p, q)
    BY <1>b DEF FilesInv, Others
  <2>10. Named(f)'
    <3>1. Named(f) BY <1>0, <1>a, <1>b, <2>8 DEF Holds, HeldNames, Carrying
    <3> QED BY <1>0, <2>3, <2>7, <3>1, NamedStays
  <2>11. Claims(q, f) /\ \A w \in Mine : videos[w].file # f
    <3>1. Claims(q, f) BY <1>0, <1>a, <1>b DEF Claims, Carrying
    <3> QED BY <1>0, <2>8, <3>1 DEF Holds, ClaimsOK
  <2>12. FilesOf(row) = {f}
    BY <2>3 DEF FilesOf, NoFile, File
  <2>13. \A v \in Existing' : \A g \in FilesOf(videos'[v]) :
           \/ v \in Existing /\ g \in FilesOf(videos[v])
           \/ /\ Named(g)'
              /\ \/ g \in raced'
                 \/ /\ \A w \in Mine \cap Existing' : w # v => videos[w].file # g
                    /\ \A s \in Requests : s # r /\ req[s].at = "save" => req[s].file # g
    <3> SUFFICES ASSUME NEW v \in Existing', NEW g \in FilesOf(videos'[v]), v \notin Existing
                 PROVE  /\ Named(g)'
                        /\ \/ g \in raced'
                           \/ /\ \A w \in Mine \cap Existing' : w # v => videos[w].file # g
                              /\ \A s \in Requests : s # r /\ req[s].at = "save" => req[s].file # g
      BY <2>4
    <3>1. g = f BY <2>4, <2>12
    <3>2. ASSUME f \notin raced, NEW s \in Requests, s # r, req[s].at = "save" PROVE req[s].file # f
      BY <2>9, <2>11, <3>2 DEF Apart
    <3> QED BY <2>5, <2>10, <2>11, <3>1, <3>2
  <2>14. \A v \in Mine' : v >= seq.video =>
           /\ \A g \in {videos'[v].file} : Own(v, g)'
           /\ \A s \in Requests : s # r =>
                /\ ~Claims(req[s], videos'[v].file)
                /\ req[s].at = "placecover" => videos'[v].file # NewCoverOf(req[s])
    <3> SUFFICES ASSUME NEW v \in Mine', v >= seq.video
                 PROVE  /\ \A g \in {videos'[v].file} : Own(v, g)'
                        /\ \A s \in Requests : s # r =>
                             /\ ~Claims(req[s], videos'[v].file)
                             /\ req[s].at = "placecover" => videos'[v].file # NewCoverOf(req[s])
      OBVIOUS
    <3>1. v \in Existing' /\ v \notin Existing /\ videos'[v].file \notin raced
      BY <1>0, <2>5, VideosAre DEF Mine, Numbered, Existing
    <3>2. v = n /\ videos'[v].file = f /\ f \notin raced BY <2>3, <2>4, <3>1
    <3>3. f \in disk \cup taken /\ \A w \in Existing : f \notin FilesOf(videos[w])
      BY <1>0, <1>a, <1>b, <2>8, <3>2 DEF Holds, SavingOK
    <3>4. Own(v, f)' BY <2>3, <2>4, <2>5, <3>2, <3>3 DEF Own, CoverOf, ThumbOf, File
    <3>5. ASSUME NEW s \in Requests, s # r
          PROVE  ~Claims(req[s], f) /\ (req[s].at = "placecover" => f # NewCoverOf(req[s]))
      <4>1. ~Claims(req[s], f) BY <1>0, <1>a, <1>b, <2>9, <3>2, <3>5 DEF Apart
      <4>2. f # NewCoverOf(req[s]) BY <2>3 DEF NewCoverOf, File
      <4> QED BY <4>1, <4>2
    <3> QED BY <3>2, <3>4, <3>5
  <2>15. Accounted'
    <3> SUFFICES ASSUME NEW g \in disk', g.kind = "media"
                 PROVE  \/ g \in taken' \cup scene'.left
                        \/ \E v \in Existing' : videos'[v].file = g
                        \/ \E s \in Requests : Pending(req'[s], g)
      BY DEF Accounted
    <3>0. Accounted BY DEF FilesInv
    <3>1. CASE g \in taken \cup scene.left BY <2>5, <3>1 DEF OldRows
    <3>2. CASE \E v \in Existing : videos[v].file = g BY <2>4, <3>2
    <3>3. CASE \E s \in Requests : Pending(req[s], g)
      <4>1. PICK s \in Requests : Pending(req[s], g) BY <3>3
      <4>2. CASE s = r
        <5>1. g = f BY <1>0, <1>a, <1>b, <4>1, <4>2 DEF Pending
        <5> QED BY <2>3, <2>4, <5>1
      <4>3. CASE s # r
        <5>1. req'[s] = req[s] BY <2>6, <4>3
        <5> QED BY <4>1, <5>1
      <4> QED BY <4>2, <4>3
    <3> QED BY <2>5, <3>0, <3>1, <3>2, <3>3 DEF Accounted
  <2>16. r \in Requests => \A x \in {req'[r]} :
           Holds(x)' /\ \A s \in Others(r) : \A p \in {req'[s]} : Apart(x, p)' /\ Apart(p, x)'
    <3>1. \A x \in {req'[r]} : x.at \notin Special BY <2>6 DEF Special, Carrying
    <3> QED BY <3>1, PlainHolds, PlainApart
  <2>17. disk' \ disk = {} /\ disk \ disk' = {} /\ taken' \ taken = {} BY <2>5
  <2> QED BY <2>6, <2>7, <2>13, <2>14, <2>15, <2>16, <2>17, FilesStep
<1>2. CASE Outcome(u, f) # "ok"
  <2>1. /\ Go(r, [To(r, "discard") EXCEPT !.files = {req[r].file}])
        /\ UNCHANGED <<videos, seq, disk, raced, taken>>
    BY <1>2, <1>a, <1>d DEF SaveStep, history
  <2>2. RowsSame BY <2>1 DEF RowsSame, Existing
  <2> QED BY <1>0, <1>b, <2>1, <2>2, FRefused
<1> QED BY <1>1, <1>2

\* So it is when the database fails.
LEMMA FSaveFails ==
  ASSUME Base, Base', FilesInv, OldRows, NEW r \in Requests, SaveFails(r)
  PROVE  FilesInv'
<1>1. UNCHANGED <<videos, seq, disk, raced, taken>> /\ req[r].at = "save"
  BY DEF SaveFails, history, At
<1>2. RowsSame /\ seq'.file = seq.file BY <1>1 DEF RowsSame, Existing
<1> QED BY <1>1, <1>2, FRefused DEF SaveFails

\* An external video has no files.
LEMMA FExternalStep ==
  ASSUME Base, Base', FilesInv, OldRows, NEW r \in Requests, ExternalStep(r)
  PROVE  FilesInv'
<1>c. PICK n : n = seq.video OBVIOUS
<1>0. /\ RequestsOK /\ RequestsOK' /\ Store /\ Store' /\ Numbered /\ req \in [Requests -> RequestSet]
      /\ req[r] \in RequestSet /\ req[r].at = "external"
      /\ seq.video \in Nat /\ seq.file \in Nat
  BY DEF Base, RequestsOK, Store, SeqSet, ExternalStep, At
<1>1. PICK row : row = NewVideo(seq.video, req[r].user, "external", NoFile, None) OBVIOUS
<1>2. /\ RoomFor(1) /\ videos' = [videos EXCEPT ![seq.video] = row] /\ seq' = [seq EXCEPT !.video = @ + 1]
      /\ UNCHANGED <<disk, raced, taken>> /\ Move(r, "refresh")
  BY <1>1 DEF ExternalStep, SaveExternalVideo, history
<1>3. row \in Rows /\ row.file = NoFile /\ row.cover = NoFile /\ row.thumb = NoFile /\ row.source = "external"
  <2>1. seq.video \in Videos BY <1>0, <1>2, RoomOK
  <2>2. req[r].user \in Users \cup {0} /\ NoFile \in FileSet
    BY <1>0 DEF RequestSet, NoFile, File, FileSet, None
  <2> QED BY <1>1, <2>1, <2>2, NewVideoOK
<1>4. /\ Existing' = Existing \cup {n} /\ n \notin Existing
      /\ \A v \in Existing : videos'[v] = videos[v]
      /\ videos'[n] = row
  <2>1. seq.video \in Videos BY <1>0, <1>2, RoomOK
  <2>2. videos'[n] = row BY <1>0, <1>c, <1>2, <2>1 DEF Store
  <2>3. n \notin Existing BY <1>0, <1>c DEF Numbered
  <2>4. Existing' = Existing \cup {n} BY <1>0, <1>c, <1>2, <1>3, <2>1, RowIsNoVideo DEF Store, Existing
  <2>5. \A v \in Existing : videos'[v] = videos[v] BY <1>0, <1>c, <1>2, <2>3 DEF Existing, Store
  <2> QED BY <2>2, <2>3, <2>4, <2>5
<1>5. seq'.video = seq.video + 1 /\ seq'.file = seq.file /\ disk' = disk /\ raced' = raced /\ taken' = taken
  BY <1>0, <1>2 DEF Store, SeqSet
<1>6. req'[r].at = "refresh" /\ \A s \in Requests : s # r => req'[s] = req[s]
  BY <1>0, <1>2 DEF Move, Go, To, RequestSet
<1>7. Grows BY <1>0, <1>5 DEF Grows
<1>8. FilesOf(row) = {} /\ ~IsLocal(row) BY <1>3 DEF FilesOf, IsLocal
<1>9. \A v \in Existing' : \A g \in FilesOf(videos'[v]) :
           \/ v \in Existing /\ g \in FilesOf(videos[v])
           \/ /\ Named(g)'
              /\ \/ g \in raced'
                 \/ /\ \A w \in Mine \cap Existing' : w # v => videos[w].file # g
                    /\ \A s \in Requests : s # r /\ req[s].at = "save" => req[s].file # g
  BY <1>4, <1>8
<1>10. \A v \in Mine' : ~(v >= seq.video)
  <2>1. \A v \in Existing : v \in Nat /\ v < seq.video BY <1>0, VideosAre DEF Existing, Numbered
  <2> QED BY <1>0, <1>4, <1>8, <2>1 DEF Mine
<1>11. Accounted'
  <2> SUFFICES ASSUME NEW g \in disk', g.kind = "media"
               PROVE  \/ g \in taken' \cup scene'.left
                      \/ \E v \in Existing' : videos'[v].file = g
                      \/ \E s \in Requests : Pending(req'[s], g)
    BY DEF Accounted
  <2>0. Accounted BY DEF FilesInv
  <2>1. CASE g \in taken \cup scene.left BY <1>5, <2>1 DEF OldRows
  <2>2. CASE \E v \in Existing : videos[v].file = g BY <1>4, <2>2
  <2>3. CASE \E s \in Requests : Pending(req[s], g)
    <3>1. PICK s \in Requests : Pending(req[s], g) BY <2>3
    <3>2. s # r BY <1>0, <3>1 DEF Pending
    <3>3. req'[s] = req[s] BY <1>6, <3>2
    <3> QED BY <3>1, <3>3
  <2> QED BY <1>5, <2>0, <2>1, <2>2, <2>3 DEF Accounted
<1>12. r \in Requests => \A x \in {req'[r]} :
         Holds(x)' /\ \A s \in Others(r) : \A p \in {req'[s]} : Apart(x, p)' /\ Apart(p, x)'
  <2>1. \A x \in {req'[r]} : x.at \notin Special BY <1>6 DEF Special, Carrying
  <2> QED BY <2>1, PlainHolds, PlainApart
<1>13. disk' \ disk = {} /\ disk \ disk' = {} /\ taken' \ taken = {} BY <1>5
<1> HIDE DEF Accounted
<1> QED BY <1>6, <1>7, <1>9, <1>10, <1>11, <1>12, <1>13, FilesStep

\* A scan adopts files that nobody has, or they are known to be raced for.
LEMMA FAdopt ==
  ASSUME Base, Base', FilesInv, OldRows, NEW r \in Requests, Adopt(r)
  PROVE  FilesInv'
<1>a. PICK files : files = req[r].files OBVIOUS
<1>b. PICK q : q = req[r] OBVIOUS
<1>0. /\ RequestsOK /\ RequestsOK' /\ Store /\ Store' /\ Numbered /\ req \in [Requests -> RequestSet]
      /\ req[r] \in RequestSet /\ q.at = "adopt" /\ req[r].at = "adopt"
      /\ seq.video \in Nat /\ seq.file \in Nat
  BY <1>b DEF Base, RequestsOK, Store, SeqSet, Adopt, At
<1>1. files \in SUBSET FileSet /\ IsFiniteSet(files)
  BY <1>0, <1>a, RequestOK DEF RequestSet, Fits
<1>2. BatchSaveLocalVideos(files) /\ raced' = raced \cup {f \in files : SpokenFor(r, f)} /\ Move(r, "refresh")
      /\ disk' = disk /\ taken' = taken
  BY <1>a DEF Adopt
<1>3. /\ videos' \in [Videos -> Rows \cup {NoVideo}]
      /\ \A v \in Videos : v < seq.video => videos'[v] = videos[v]
      /\ \A v \in Existing' : v >= seq.video => /\ v < seq'.video
                                                /\ videos'[v].file \in files /\ IsLocal(videos'[v])
                                                /\ videos'[v].cover = NoFile
                                                /\ videos'[v].thumb \in {NoFile, videos'[v].file}
      /\ \A v, w \in Existing' : v >= seq.video /\ w >= seq.video /\ videos'[v].file = videos'[w].file => v = w
      /\ seq' = [seq EXCEPT !.video = @ + Cardinality(files)]
      /\ Cardinality(files) \in Nat
  BY <1>0, <1>1, <1>2, AdoptedRows
<1>4. seq'.video >= seq.video /\ seq'.file = seq.file BY <1>0, <1>3 DEF Store, SeqSet
<1>5. req'[r].at = "refresh" /\ \A s \in Requests : s # r => req'[s] = req[s]
  BY <1>0, <1>2 DEF Move, Go, To, RequestSet
<1>6. Grows BY <1>0, <1>2, <1>4 DEF Grows
<1>7. Holds(q) BY <1>b DEF FilesInv
<1>8. \A v \in Existing' : v \in Videos /\ v \in Nat /\ videos'[v] \in Rows
  BY <1>3, VideosAre DEF Existing
<1>9. \A v \in Existing : v \in Videos /\ v \in Nat /\ v < seq.video /\ videos'[v] = videos[v]
  BY <1>0, <1>3, VideosAre DEF Existing, Numbered
<1>10. \A v \in Existing' : v < seq.video => v \in Existing
  BY <1>3 DEF Existing
<1>10a. Existing \subseteq Existing' BY <1>9 DEF Existing
<1>11. \A v \in Existing' : v >= seq.video => FilesOf(videos'[v]) \subseteq {videos'[v].file}
  BY <1>3, <1>8, FilesOfNew
<1>12. \A f \in files : Named(f) /\ Named(f)' /\ f \in FileSet
  <2>1. \A f \in files : Named(f) BY <1>0, <1>a, <1>b, <1>7 DEF Holds, HeldNames
  <2>2. \A f \in files : Named(f)' BY <1>0, <1>1, <1>6, <2>1, NamedStays
  <2> QED BY <1>1, <2>1, <2>2
<1>13. \A f \in files : f.kind \notin {"variant", "none"} /\ f \notin q.known
  BY <1>0, <1>a, <1>b, <1>7 DEF Holds, DrawingOK
<1>14. ASSUME NEW f \in files, f \notin raced'
       PROVE  /\ f \in disk
              /\ \A v \in Existing : f \notin FilesOf(videos[v]) /\ videos[v].file # f
              /\ \A v \in Existing : f \notin {CoverOf(v), ThumbOf(v)}
              /\ \A s \in Requests : s # r => /\ f # req[s].file /\ ~Claims(req[s], f)
                                              /\ req[s].at = "placecover" => f # NewCoverOf(req[s])
  <2>1. ~SpokenFor(r, f) BY <1>2, <1>14
  <2>2. f \in disk /\ \A v \in Existing : f \notin {CoverOf(v), ThumbOf(v)} BY <2>1 DEF SpokenFor
  <2>3. \A v \in Existing : f \notin FilesOf(videos[v]) BY <1>b, <1>13, <2>1 DEF SpokenFor
  <2>4. \A v \in Existing : videos[v].file # f
    <3>1. f # NoFile BY <1>13 DEF NoFile, File
    <3> QED BY <2>3, <3>1 DEF FilesOf
  <2>5. ASSUME NEW s \in Requests, s # r
        PROVE  f # req[s].file /\ ~Claims(req[s], f) /\ (req[s].at = "placecover" => f # NewCoverOf(req[s]))
    <3>1. /\ f # req[s].file /\ (f \in req[s].files => req[s].op = "scan")
          /\ \A row \in req[s].rows : f \notin {row.file, row.cover, row.thumb}
      BY <2>1, <2>5 DEF SpokenFor, Others
    <3>2. Paths(req[s]) BY <1>0 DEF RequestsOK
    <3>3. req[s].at \in {"tx", "settle", "unlink"} => f \notin req[s].files BY <3>1, <3>2 DEF Paths
    <3>4. ~Claims(req[s], f) BY <3>1, <3>3 DEF Claims, FilesOf
    <3>5. PICK p : p = req[s] OBVIOUS
    <3>6. p.at = "placecover" => NewCoverOf(p) \notin disk BY <3>5 DEF FilesInv, Holds, PlacingOK
    <3> QED BY <2>2, <3>1, <3>4, <3>5, <3>6
  <2> QED BY <2>2, <2>3, <2>4, <2>5
<1>15. \A v \in Existing' : \A g \in FilesOf(videos'[v]) :
           \/ v \in Existing /\ g \in FilesOf(videos[v])
           \/ /\ Named(g)'
              /\ \/ g \in raced'
                 \/ /\ \A w \in Mine \cap Existing' : w # v => videos[w].file # g
                    /\ \A s \in Requests : s # r /\ req[s].at = "save" => req[s].file # g
  <2> SUFFICES ASSUME NEW v \in Existing', NEW g \in FilesOf(videos'[v]), v \notin Existing
               PROVE  /\ Named(g)'
                      /\ \/ g \in raced'
                         \/ /\ \A w \in Mine \cap Existing' : w # v => videos[w].file # g
                            /\ \A s \in Requests : s # r /\ req[s].at = "save" => req[s].file # g
    BY <1>9
  <2>1. v >= seq.video BY <1>0, <1>8, <1>10
  <2>2. g \in files BY <1>3, <1>11, <2>1
  <2> QED BY <1>12, <1>14, <2>2 DEF Mine
<1>16. \A v \in Mine' : v >= seq.video =>
           /\ \A g \in {videos'[v].file} : Own(v, g)'
           /\ \A s \in Requests : s # r =>
                /\ ~Claims(req[s], videos'[v].file)
                /\ req[s].at = "placecover" => videos'[v].file # NewCoverOf(req[s])
  <2> SUFFICES ASSUME NEW v \in Mine', v >= seq.video, NEW g, g = videos'[v].file
               PROVE  /\ Own(v, g)'
                      /\ \A s \in Requests : s # r =>
                           /\ ~Claims(req[s], g)
                           /\ req[s].at = "placecover" => g # NewCoverOf(req[s])
    OBVIOUS
  <2>1. v \in Existing' /\ g \notin raced' /\ g \in files BY <1>3 DEF Mine
  <2>2. g \in disk' BY <1>2, <1>14, <2>1
  <2>3. \A w \in Existing' \ {v} : g \notin FilesOf(videos'[w])
    <3> SUFFICES ASSUME NEW w \in Existing' \ {v}, g \in FilesOf(videos'[w]) PROVE FALSE OBVIOUS
    <3>1. CASE w \in Existing BY <1>9, <1>14, <2>1, <3>1
    <3>2. CASE w \notin Existing
      <4>1. w >= seq.video BY <1>0, <1>8, <1>10, <3>2
      <4>2. g = videos'[w].file BY <1>11, <4>1
      <4> QED BY <1>3, <2>1, <4>1, <4>2
    <3> QED BY <3>1, <3>2
  <2>4. \A w \in Existing' : g \notin {CoverOf(w), ThumbOf(w)}
    <3> SUFFICES ASSUME NEW w \in Existing', g \in {CoverOf(w), ThumbOf(w)} PROVE FALSE OBVIOUS
    <3>1. CASE w \in Existing BY <1>14, <2>1, <3>1
    <3>2. CASE w \notin Existing
      <4>1. w >= seq.video /\ w \in Nat BY <1>0, <1>8, <1>10, <3>2
      <4>2. g.kind \in {"cover", "thumb"} /\ g.n = w BY DEF CoverOf, ThumbOf, File
      <4>3. Named(g) BY <1>12, <2>1
      <4> QED BY <1>0, <4>1, <4>2, <4>3 DEF Named
    <3> QED BY <3>1, <3>2
  <2>5. g.kind \notin {"variant", "none"} BY <1>13, <2>1
  <2>6. Own(v, g)' BY <2>2, <2>3, <2>4, <2>5 DEF Own
  <2> QED BY <1>14, <2>1, <2>6
<1>17. Accounted'
  <2> SUFFICES ASSUME NEW g \in disk', g.kind = "media"
               PROVE  \/ g \in taken' \cup scene'.left
                      \/ \E v \in Existing' : videos'[v].file = g
                      \/ \E s \in Requests : Pending(req'[s], g)
    BY DEF Accounted
  <2>0. Accounted BY DEF FilesInv
  <2>1. CASE g \in taken \cup scene.left BY <1>2, <2>1 DEF OldRows
  <2>2. CASE \E v \in Existing : videos[v].file = g BY <1>9, <1>10a, <2>2
  <2>3. CASE \E s \in Requests : Pending(req[s], g)
    <3>1. PICK s \in Requests : Pending(req[s], g) BY <2>3
    <3>2. s # r BY <1>0, <3>1 DEF Pending
    <3>3. req'[s] = req[s] BY <1>5, <3>2
    <3> QED BY <3>1, <3>3
  <2> QED BY <1>2, <2>0, <2>1, <2>2, <2>3 DEF Accounted
<1>18. r \in Requests => \A x \in {req'[r]} :
         Holds(x)' /\ \A s \in Others(r) : \A p \in {req'[s]} : Apart(x, p)' /\ Apart(p, x)'
  <2>1. \A x \in {req'[r]} : x.at \notin Special BY <1>5 DEF Special, Carrying
  <2> QED BY <2>1, PlainHolds, PlainApart
<1>19. disk' \ disk = {} /\ disk \ disk' = {} /\ taken' \ taken = {} BY <1>2
<1> HIDE DEF Accounted
<1> QED BY <1>5, <1>6, <1>15, <1>16, <1>17, <1>18, <1>19, FilesStep

\* The rows go, and whoever deleted them holds their files, which it removes next.
LEMMA FCommitDelete ==
  ASSUME Base, Base', FilesInv, OldRows, NEW r \in Requests, CommitDelete(r)
  PROVE  FilesInv'
<1>b. PICK q : q = req[r] OBVIOUS
<1>s. PICK some \in BOOLEAN : some = (q.ids \cap Existing # {}) OBVIOUS
<1>x. PICK x : x = req'[r] OBVIOUS
<1>0. /\ RequestsOK /\ RequestsOK' /\ Store /\ Store' /\ Numbered /\ req \in [Requests -> RequestSet]
      /\ q \in RequestSet /\ q.at = "settle" /\ x \in RequestSet
      /\ seq.video \in Nat /\ seq.file \in Nat
      /\ q.op \in {"delete", "deletemany", "sweep", "burn", "playback"}
  BY <1>b, <1>x DEF Base, RequestsOK, Store, SeqSet, CommitDelete, At, Paths
<1>1. Existing' = Existing \ q.ids /\ \A v \in Existing' : videos'[v] = videos[v]
  BY <1>0, <1>b, SCommitDelete
<1>2. disk' = disk /\ taken' = taken /\ raced' = raced /\ seq' = seq
  BY DEF CommitDelete
<1>3. x = AfterDelete(r, some) /\ \A s \in Requests : s # r => req'[s] = req[s]
  BY <1>0, <1>b, <1>s, <1>x DEF CommitDelete, Go
<1>4. /\ x.op = q.op /\ x.file = q.file /\ x.files = q.files /\ x.todo = q.todo /\ x.ids = q.ids
      /\ q.op \in {"delete", "deletemany"} => x.at = "unlink"
      /\ q.op = "sweep" => x.at = "nextmissing"
      /\ q.op \in {"burn", "playback"} => x.at = IF some THEN "unlink" ELSE "finish"
  <2>1. q \in RequestSet BY <1>0
  <2>2. CASE q.op \in {"delete", "deletemany"}
    <3>1. x = [q EXCEPT !.at = "unlink"] BY <1>3, <1>b, <2>2 DEF AfterDelete, To
    <3> QED BY <2>1, <2>2, <3>1 DEF RequestSet
  <2>3. CASE q.op = "sweep"
    <3>1. PICK any : x = [q EXCEPT !.at = "nextmissing", !.any = any] BY <1>3, <1>b, <2>3 DEF AfterDelete, To
    <3> QED BY <2>1, <2>3, <3>1 DEF RequestSet
  <2>4. CASE q.op \in {"burn", "playback"}
    <3>1. PICK at : at = IF some THEN "unlink" ELSE "finish" OBVIOUS
    <3>2. x = [q EXCEPT !.at = at, !.any = some] BY <1>3, <1>b, <2>4, <3>1 DEF AfterDelete, To
    <3> QED BY <2>1, <2>4, <3>1, <3>2 DEF RequestSet
  <2> QED BY <1>0, <2>2, <2>3, <2>4
<1>5. Grows BY <1>0, <1>2 DEF Grows
<1>6. Holds(q) BY <1>b DEF FilesInv
<1>7. Mine' \subseteq Mine /\ \A w \in Mine' : videos'[w].file = videos[w].file /\ w \notin q.ids
  BY <1>1, <1>2 DEF Mine
<1>8. \A f : Claims(x, f) => Claims(q, f) BY <1>0, <1>4 DEF Claims, Carrying
<1>9. \A w \in Mine' : ~Claims(x, videos'[w].file)
  <2>1. \A w \in Mine' : Claims(q, videos[w].file) => w \in q.ids BY <1>6, <1>7 DEF Holds, ClaimsOK
  <2> QED BY <1>7, <1>8, <2>1
<1>10. Holds(x)'
  <2>1. HeldNames(x)'
    <3>1. \A f \in q.files : Named(f) /\ f \in FileSet BY <1>0, <1>6 DEF Holds, HeldNames, RequestSet
    <3>2. \A f \in q.files : Named(f)' BY <1>0, <1>5, <3>1, NamedStays
    <3>3. x.at \notin Carrying /\ x.at # "variants" BY <1>0, <1>4 DEF Carrying
    <3> QED BY <1>4, <3>2, <3>3 DEF HeldNames
  <2>2. ClaimsOK(x)' BY <1>9 DEF ClaimsOK, Claims
  <2>3. SavingOK(x)' /\ PlacingOK(x)' /\ DrawingOK(x)' BY <1>0, <1>4 DEF SavingOK, PlacingOK, DrawingOK
  <2>4. DeletingOK(x)'
    <3>1. q.op = "sweep" => q.files = {} BY <1>0, <1>6 DEF Holds, DeletingOK
    <3>2. ASSUME q.op = "sweep", NEW v \in q.todo
          PROVE  /\ v < seq'.video
                 /\ v \in Existing' /\ videos'[v].file.kind = "media" =>
                      videos'[v].file \in taken' \/ videos'[v].file \notin disk'
      <4>1. /\ v < seq.video
            /\ v \in Existing /\ videos[v].file.kind = "media" =>
                 videos[v].file \in taken \/ videos[v].file \notin disk
        BY <1>0, <1>6, <3>2 DEF Holds, DeletingOK
      <4> QED BY <1>1, <1>2, <4>1
    <3>3. x.at \in {"unlink", "nextmissing", "finish"} BY <1>0, <1>4
    <3>4. x.op = "sweep" => x.at = "nextmissing" BY <1>4
    <3> QED BY <1>4, <3>1, <3>2, <3>3, <3>4 DEF DeletingOK
  <2> QED BY <2>1, <2>2, <2>3, <2>4 DEF Holds
<1>11. ASSUME NEW s \in Others(r), NEW p, p = req'[s] PROVE Apart(x, p)' /\ Apart(p, x)'
  <2>1. p = req[s] BY <1>3, <1>11 DEF Others
  <2>2. Apart(p, q) BY <1>b, <2>1 DEF FilesInv, Others
  <2>3. x.at \notin {"save", "placecover"} BY <1>0, <1>4
  <2>4. Apart(x, p)' BY <2>3 DEF Apart
  <2>5. Apart(p, x)' BY <1>2, <1>8, <2>2, <2>3 DEF Apart, Claims
  <2> QED BY <2>4, <2>5
<1>12. Accounted'
  <2> SUFFICES ASSUME NEW g \in disk', g.kind = "media"
               PROVE  \/ g \in taken' \cup scene'.left
                      \/ \E v \in Existing' : videos'[v].file = g
                      \/ \E s \in Requests : Pending(req'[s], g)
    BY DEF Accounted
  <2>0. Accounted BY DEF FilesInv
  <2>1. CASE g \in taken \cup scene.left BY <1>2, <2>1 DEF OldRows
  <2>2. CASE \E v \in Existing : videos[v].file = g
    <3>1. PICK v \in Existing : videos[v].file = g BY <2>2
    <3>2. CASE v \notin q.ids BY <1>1, <3>1, <3>2
    <3>3. CASE v \in q.ids /\ q.op # "sweep"
      <4>1. g \in q.files BY <1>0, <1>6, <3>1, <3>3 DEF Holds, DeletingOK
      <4>2. some = TRUE BY <1>s, <3>1, <3>3
      <4>3. x.at = "unlink" BY <1>0, <1>4, <3>3, <4>2
      <4> QED BY <1>x, <1>4, <4>1, <4>3 DEF Pending
    <3>4. CASE v \in q.ids /\ q.op = "sweep"
      <4>1. g \in taken \/ g \notin disk BY <1>0, <1>6, <3>1, <3>4 DEF Holds, DeletingOK
      <4> QED BY <1>2, <4>1
    <3> QED BY <3>2, <3>3, <3>4
  <2>3. CASE \E s \in Requests : Pending(req[s], g)
    <3>1. PICK s \in Requests : Pending(req[s], g) BY <2>3
    <3>2. s # r BY <1>0, <1>b, <3>1 DEF Pending
    <3>3. req'[s] = req[s] BY <1>3, <3>2
    <3> QED BY <3>1, <3>3
  <2> QED BY <1>2, <2>0, <2>1, <2>2, <2>3 DEF Accounted
<1>13. r \in Requests => \A y \in {req'[r]} :
         Holds(y)' /\ \A s \in Others(r) : \A p \in {req'[s]} : Apart(y, p)' /\ Apart(p, y)'
  <2>1. \A s \in Others(r) : \A p \in {req'[s]} : Apart(x, p)' /\ Apart(p, x)' BY <1>11
  <2> QED BY <1>x, <1>10, <2>1
<1>14. disk' \ disk = {} /\ disk \ disk' = {} /\ taken' \ taken = {} BY <1>2
<1>15. \A v \in Existing' : \A g \in FilesOf(videos'[v]) : v \in Existing /\ g \in FilesOf(videos[v])
  BY <1>1
<1>16. \A v \in Mine' : ~(v >= seq.video)
  <2>1. \A v \in Existing : v \in Nat /\ v < seq.video BY <1>0, VideosAre DEF Existing, Numbered
  <2> QED BY <1>0, <1>1, <2>1 DEF Mine
<1> HIDE DEF Accounted
<1> QED BY <1>3, <1>5, <1>12, <1>13, <1>14, <1>15, <1>16, FilesStep

-----------------------------------------------------------------------------
\* Pictures.

\* What is saved is an upload.
LEMMA SavesMedia == ASSUME RequestsOK, NEW s \in Requests, req[s].at = "save" PROVE req[s].file.kind = "media"
BY DEF RequestsOK, Fits

\* A request that draws claims nothing.
LEMMA DrawHolds ==
  ASSUME NEW x, x.at \in {"ffmpeg", "coverurl", "scale", "thumburl"}, x.op # "sweep", DrawingOK(x)'
  PROVE  Holds(x)'
BY DEF Holds, HeldNames, Carrying, ClaimsOK, Claims, SavingOK, PlacingOK, DeletingOK

\* It meets nobody who saves.
LEMMA DrawApart ==
  ASSUME NEW x, NEW p, x.at \in {"ffmpeg", "coverurl", "scale", "thumburl"}
  PROVE  Apart(x, p)' /\ Apart(p, x)'
BY DEF Apart, Claims, Carrying

\* A row gets a picture that is no video's file.
LEMMA PictureStep ==
  ASSUME Base, Base', FilesInv, OldRows, NEW r \in Requests, RowsKept, UNCHANGED <<seq, disk, raced, taken>>,
         NEW v, NEW f \in FileSet, Named(f), f.kind # "media",
         \A w \in Existing : FilesOf(videos'[w]) \subseteq FilesOf(videos[w]) \cup (IF w = v THEN {f} ELSE {}),
         v \in Existing => \A w \in Mine : videos[w].file # f,
         req[r].at \notin {"save", "discard", "unlink"},
         \A s \in Others(r) : req'[s] = req[s],
         \A x \in {req'[r]} : Holds(x)' /\ \A s \in Others(r) : \A p \in {req[s]} : Apart(x, p)' /\ Apart(p, x)'
  PROVE  FilesInv'
<1>0. /\ RequestsOK /\ Store /\ Store' /\ Numbered /\ seq.video \in Nat /\ seq.file \in Nat
  BY DEF Base, Store, SeqSet
<1>1. Grows BY <1>0 DEF Grows
<1>2. Existing' = Existing /\ \A w \in Existing : videos'[w].file = videos[w].file /\ videos'[w].source = videos[w].source
  BY DEF RowsKept
<1>3. Named(f)' BY <1>0, <1>1, NamedStays
<1>4. \A u \in Existing' : \A g \in FilesOf(videos'[u]) :
           \/ u \in Existing /\ g \in FilesOf(videos[u])
           \/ /\ Named(g)'
              /\ \/ g \in raced'
                 \/ /\ \A w \in Mine \cap Existing' : w # u => videos[w].file # g
                    /\ \A s \in Requests : s # r /\ req[s].at = "save" => req[s].file # g
  <2> SUFFICES ASSUME NEW u \in Existing, NEW g \in FilesOf(videos'[u]), g \notin FilesOf(videos[u])
               PROVE  /\ Named(g)'
                      /\ \A w \in Mine : videos[w].file # g
                      /\ \A s \in Requests : s # r /\ req[s].at = "save" => req[s].file # g
    BY <1>2
  <2>1. u = v /\ g = f OBVIOUS
  <2> QED BY <1>0, <1>3, <2>1, SavesMedia
<1>5. \A u \in Mine' : ~(u >= seq.video)
  <2>1. \A u \in Existing : u \in Nat /\ u < seq.video BY <1>0, VideosAre DEF Existing, Numbered
  <2> QED BY <1>0, <1>2, <2>1 DEF Mine
<1>6. Accounted'
  <2>1. Accounted BY DEF FilesInv
  <2>2. \A g \in disk : \A s \in Requests : Pending(req[s], g) => Pending(req'[s], g)
    BY DEF Pending, Others
  <2>3. scene.left \subseteq scene'.left BY DEF OldRows
  <2> HIDE DEF Pending
  <2> QED BY <1>2, <2>1, <2>2, <2>3 DEF Accounted
<1>7. \A s \in Requests : s # r => req'[s] = req[s] BY DEF Others
<1>8. r \in Requests => \A y \in {req'[r]} :
         Holds(y)' /\ \A s \in Others(r) : \A p \in {req'[s]} : Apart(y, p)' /\ Apart(p, y)'
  OBVIOUS
<1>9. disk' \ disk = {} /\ disk \ disk' = {} /\ taken' \ taken = {} OBVIOUS
<1> HIDE DEF Accounted
<1> QED BY <1>1, <1>4, <1>5, <1>6, <1>7, <1>8, <1>9, FilesStep

\* The two updates that record a picture, and what they leave alone.
LEMMA CoverUrlRows ==
  ASSUME Store, NEW v, NEW f \in FileSet, UpdateCoverUrl(v, f)
  PROVE  RowsKept /\ \A w \in Existing :
           FilesOf(videos'[w]) \subseteq FilesOf(videos[w]) \cup (IF w = v THEN {f} ELSE {})
<1>1. RowsKept BY UpdateCoverUrlKeeps
<1>2. \A w \in Existing : videos[w] \in Rows /\ w \in Videos BY ExistingAre
<1>3. \A w \in Existing : videos'[w] = IF w = v THEN [videos[w] EXCEPT !.cover = f] ELSE videos[w]
  BY <1>2 DEF UpdateCoverUrl, UpdateRows
<1>4. \A w \in Existing : FilesOf([videos[w] EXCEPT !.cover = f]) \subseteq FilesOf(videos[w]) \cup {f}
  BY <1>2 DEF FilesOf, Rows
<1> QED BY <1>1, <1>3, <1>4

LEMMA ThumbUrlRows ==
  ASSUME Store, NEW v, NEW f \in FileSet, UpdateThumbUrl(v, f)
  PROVE  RowsKept /\ \A w \in Existing :
           FilesOf(videos'[w]) \subseteq FilesOf(videos[w]) \cup (IF w = v THEN {f} ELSE {})
<1>1. RowsKept BY UpdateThumbUrlKeeps
<1>2. \A w \in Existing : videos[w] \in Rows /\ w \in Videos BY ExistingAre
<1>3. \A w \in Existing : videos'[w] = IF w = v THEN [videos[w] EXCEPT !.thumb = f] ELSE videos[w]
  BY <1>2 DEF UpdateThumbUrl, UpdateRows
<1>4. \A w \in Existing : FilesOf([videos[w] EXCEPT !.thumb = f]) \subseteq FilesOf(videos[w]) \cup {f}
  BY <1>2 DEF FilesOf, Rows
<1> QED BY <1>1, <1>3, <1>4

\* After the pictures nothing is held.
LEMMA AfterThumbnailAt ==
  ASSUME RequestsOK, NEW r \in Requests, AfterThumbnail(r)
  PROVE  req'[r].at \in {"nextcover", "idle"} /\ \A s \in Others(r) : req'[s] = req[s]
<1>1. CASE req[r].op = "backfill"
  BY <1>1 DEF AfterThumbnail, Move, Go, To, Others, RequestsOK, RequestSet
<1>2. CASE req[r].op # "backfill" BY <1>2 DEF AfterThumbnail, Done, Go, Idle, Others, RequestsOK
<1> QED BY <1>1, <1>2

\* A cover, a thumbnail, and a cover that an administrator uploaded are recorded.
LEMMA FCoverUrl ==
  ASSUME Base, Base', FilesInv, OldRows, NEW r \in Requests, CoverUrl(r)
  PROVE  FilesInv'
<1>b. PICK q : q = req[r] OBVIOUS
<1>x. PICK x : x = req'[r] OBVIOUS
<1>0. /\ RequestsOK /\ RequestsOK' /\ Store /\ q \in RequestSet /\ q.at = "coverurl" /\ Paths(x)
      /\ req \in [Requests -> RequestSet] /\ UNCHANGED <<seq, disk, raced, taken>>
  BY <1>b, <1>x DEF Base, RequestsOK, CoverUrl, At, history
<1>1. q.file = CoverOf(q.video) /\ q.video < seq.video /\ q.file \in FileSet
  BY <1>0, <1>b DEF FilesInv, Holds, DrawingOK, RequestSet
<1>2. /\ x.at = "scale" /\ x.file = q.file /\ x.video = q.video /\ \A s \in Others(r) : req'[s] = req[s]
  BY <1>0, <1>b, <1>x DEF CoverUrl, Move, To, Go, Others, RequestSet
<1>3. Named(q.file) /\ q.file.kind # "media" BY <1>1 DEF Named, CoverOf, File
<1>4. RowsKept /\ \A w \in Existing :
           FilesOf(videos'[w]) \subseteq FilesOf(videos[w]) \cup (IF w = q.video THEN {q.file} ELSE {})
  BY <1>0, <1>1, <1>b, CoverUrlRows DEF CoverUrl
<1>5. q.video \in Existing => \A w \in Mine : videos[w].file # q.file BY <1>1 DEF FilesInv, OwnedOK, Own
<1>6. x.op # "sweep" BY <1>0, <1>2 DEF Paths
<1>7. DrawingOK(x)' BY <1>0, <1>1, <1>2 DEF DrawingOK
<1>8. \A y \in {req'[r]} : Holds(y)' /\ \A s \in Others(r) : \A p \in {req[s]} : Apart(y, p)' /\ Apart(p, y)'
  BY <1>2, <1>6, <1>7, <1>x, DrawHolds, DrawApart
<1>9. req[r].at \notin {"save", "discard", "unlink"} BY <1>0, <1>b
<1> QED BY <1>0, <1>1, <1>2, <1>3, <1>4, <1>5, <1>8, <1>9, PictureStep

LEMMA FThumbUrl ==
  ASSUME Base, Base', FilesInv, OldRows, NEW r \in Requests, ThumbUrl(r)
  PROVE  FilesInv'
<1>b. PICK q : q = req[r] OBVIOUS
<1>0. /\ RequestsOK /\ RequestsOK' /\ Store /\ q \in RequestSet /\ q.at = "thumburl"
      /\ req \in [Requests -> RequestSet] /\ UNCHANGED <<seq, disk, raced, taken>>
  BY <1>b DEF Base, RequestsOK, ThumbUrl, At, history
<1>1. q.file = ThumbOf(q.video) /\ q.video < seq.video /\ q.file \in FileSet
  BY <1>0, <1>b DEF FilesInv, Holds, DrawingOK, RequestSet
<1>2. req'[r].at \notin Special /\ \A s \in Others(r) : req'[s] = req[s]
  BY <1>0, AfterThumbnailAt DEF ThumbUrl, Special, Carrying
<1>3. Named(q.file) /\ q.file.kind # "media" BY <1>1 DEF Named, ThumbOf, File
<1>4. RowsKept /\ \A w \in Existing :
           FilesOf(videos'[w]) \subseteq FilesOf(videos[w]) \cup (IF w = q.video THEN {q.file} ELSE {})
  BY <1>0, <1>1, <1>b, ThumbUrlRows DEF ThumbUrl
<1>5. q.video \in Existing => \A w \in Mine : videos[w].file # q.file BY <1>1 DEF FilesInv, OwnedOK, Own
<1>8. \A y \in {req'[r]} : Holds(y)' /\ \A s \in Others(r) : \A p \in {req[s]} : Apart(y, p)' /\ Apart(p, y)'
  BY <1>2, PlainHolds, PlainApart
<1>9. req[r].at \notin {"save", "discard", "unlink"} BY <1>0, <1>b
<1> QED BY <1>0, <1>1, <1>2, <1>3, <1>4, <1>5, <1>8, <1>9, PictureStep

LEMMA FNewCover ==
  ASSUME Base, Base', FilesInv, OldRows, NEW r \in Requests, NewCover(r)
  PROVE  FilesInv'
<1>b. PICK q : q = req[r] OBVIOUS
<1>0. /\ RequestsOK /\ RequestsOK' /\ Store /\ q \in RequestSet /\ q.at = "newcover"
      /\ req \in [Requests -> RequestSet] /\ UNCHANGED <<seq, disk, raced, taken>>
  BY <1>b DEF Base, RequestsOK, NewCover, At, history
<1>1. q.file.kind = "newcover" /\ q.file \in FileSet /\ Named(q.file)
  BY <1>0, <1>b DEF FilesInv, Holds, DrawingOK, HeldNames, Carrying, RequestSet
<1>2. CASE UpdateCoverUrl(q.video, q.file) /\ Move(r, "refresh")
  <2>1. req'[r].at \notin Special /\ \A s \in Others(r) : req'[s] = req[s]
    BY <1>0, <1>b, <1>2 DEF Move, To, Go, Others, RequestSet, Special, Carrying
  <2>2. RowsKept /\ \A w \in Existing :
             FilesOf(videos'[w]) \subseteq FilesOf(videos[w]) \cup (IF w = q.video THEN {q.file} ELSE {})
    BY <1>0, <1>1, <1>2, CoverUrlRows
  <2>3. \A w \in Mine : videos[w].file # q.file
    BY <1>0, <1>b DEF FilesInv, Holds, ClaimsOK, Claims, Carrying
  <2>4. \A y \in {req'[r]} : Holds(y)' /\ \A s \in Others(r) : \A p \in {req[s]} : Apart(y, p)' /\ Apart(p, y)'
    BY <2>1, PlainHolds, PlainApart
  <2>5. req[r].at \notin {"save", "discard", "unlink"} BY <1>0, <1>b
  <2> HIDE DEF Named
  <2> QED BY <1>0, <1>1, <2>1, <2>2, <2>3, <2>4, <2>5, PictureStep
<1>3. CASE UNCHANGED videos /\ Go(r, [To(r, "discard") EXCEPT !.files = {req[r].file}])
  <2>1. RowsSame /\ seq'.file = seq.file BY <1>0, <1>3 DEF RowsSame, Existing
  <2> QED BY <1>0, <1>b, <1>3, <2>1, FRefused
<1> QED BY <1>b, <1>2, <1>3 DEF NewCover

\* A request that is to make pictures has the row it read.
LEMMA FThumbnailStep ==
  ASSUME Base, Base', FilesInv, OldRows, NEW r \in Requests, ThumbnailStep(r)
  PROVE  FilesInv'
<1>b. PICK q : q = req[r] OBVIOUS
<1>x. PICK x : x = req'[r] OBVIOUS
<1>0. /\ RequestsOK /\ RequestsOK' /\ Store /\ Numbered /\ q \in RequestSet /\ q.at = "thumbnail" /\ Paths(x)
      /\ req \in [Requests -> RequestSet] /\ UNCHANGED <<seq, disk, raced, taken, videos>>
      /\ req[r].at \notin {"save", "discard", "unlink"}
  BY <1>b, <1>x DEF Base, RequestsOK, ThumbnailStep, At, Quiet, history
<1>1. RowsSame /\ seq'.file = seq.file BY <1>0 DEF RowsSame, Existing
<1> DEFINE rows == {row \in FindById(q.video) : IsLocal(row)}
<1>2. CASE rows = {}
  <2>1. req'[r].at \notin Special /\ \A s \in Others(r) : req'[s] = req[s]
    BY <1>0, <1>2, <1>b, AfterThumbnailAt DEF ThumbnailStep, Special, Carrying
  <2> QED BY <1>0, <1>1, <2>1, PlainStep
<1>3. CASE rows # {}
  <2>0. Go(r, [To(r, "ffmpeg") EXCEPT !.rows = rows]) BY <1>3, <1>b DEF ThumbnailStep
  <2> HIDE DEF rows
  <2>1. x.at = "ffmpeg" /\ x.rows = rows /\ x.video = q.video /\ \A s \in Others(r) : req'[s] = req[s]
    BY <1>0, <1>b, <1>x, <2>0 DEF To, Go, Others, RequestSet
  <2> USE DEF rows
  <2>2. q.video < seq.video /\ \A row \in rows : row.id = q.video
    BY <1>0, <1>3 DEF FindById, Numbered
  <2>3. x.op # "sweep" BY <1>0, <2>1 DEF Paths
  <2> HIDE DEF rows
  <2>4. DrawingOK(x)' BY <1>0, <2>1, <2>2 DEF DrawingOK
  <2>5. \A y \in {req'[r]} : Holds(y)' /\ \A s \in Others(r) : \A p \in {req[s]} : Apart(y, p)' /\ Apart(p, y)'
    BY <1>x, <2>1, <2>3, <2>4, DrawHolds, DrawApart
  <2>6. \A f \in disk : f.kind = "media" /\ Pending(req[r], f) => Pending(req'[r], f) BY <1>0 DEF Pending
  <2> QED BY <1>0, <1>1, <2>1, <2>5, <2>6, StillStep
<1> QED BY <1>2, <1>3

\* A picture that is made of a video has the name of the video.
LEMMA DrawStep ==
  ASSUME Base, Base', FilesInv, OldRows, NEW r \in Requests, UNCHANGED <<seq, raced, taken, videos>>,
         NEW v \in Nat, v < seq.video, NEW f \in {CoverOf(v), ThumbOf(v)}, disk' = disk \cup {f},
         req[r].at \notin {"save", "discard", "unlink"},
         \A s \in Others(r) : req'[s] = req[s],
         \A x \in {req'[r]} : x.at \in {"coverurl", "thumburl"} /\ DrawingOK(x)'
  PROVE  FilesInv'
<1>0. RequestsOK' /\ seq.video \in Nat /\ seq.file \in Nat BY DEF Base, Store, SeqSet
<1>1. Grows /\ RowsSame BY <1>0 DEF Grows, RowsSame, Existing
<1>2. f.kind \in {"cover", "thumb"} /\ f.n = v /\ f.kind \in Kinds BY DEF CoverOf, ThumbOf, File, Kinds
<1>3. Named(f)' BY <1>2 DEF Named
<1>4. \A s \in Requests : f # NewCoverOf(req[s]) BY <1>2 DEF NewCoverOf, File
<1>5. \A g \in disk' \ disk :
           /\ Named(g)' /\ g.kind \in Kinds
           /\ g.kind = "media" => \/ g \in taken
                                  \/ /\ r \in Requests /\ Pending(req'[r], g)
                                     /\ \A w \in Existing : videos[w].file # g
           /\ \A s \in Requests : s # r /\ req[s].at = "placecover" => g # NewCoverOf(req[s])
  <2> HIDE DEF Named
  <2> QED BY <1>2, <1>3, <1>4
<1>6. \A x \in {req'[r]} : Holds(x)' /\ \A s \in Others(r) : \A p \in {req'[s]} : Apart(x, p)' /\ Apart(p, x)'
  <2>1. \A x \in {req'[r]} : x.op # "sweep" BY <1>0 DEF RequestsOK, Paths
  <2> QED BY <2>1, DrawHolds, DrawApart
<1>7. \A g \in disk' : g.kind = "media" /\ Pending(req[r], g) => Pending(req'[r], g) BY DEF Pending
<1>8. \A s \in Requests : s # r => req'[s] = req[s] BY DEF Others
<1>9. disk \ disk' = {} /\ taken' \ taken = {} OBVIOUS
<1> HIDE DEF Pending
<1> QED BY <1>1, <1>5, <1>6, <1>7, <1>8, <1>9, DiskStep

\* The picture of a frame or of an image, and the small one made of it.
LEMMA FFfmpegStep ==
  ASSUME Base, Base', FilesInv, OldRows, NEW r \in Requests, FfmpegStep(r)
  PROVE  FilesInv'
<1>b. PICK q : q = req[r] OBVIOUS
<1>x. PICK x : x = req'[r] OBVIOUS
<1>w. PICK row : row = Row(r) OBVIOUS
<1>0. /\ RequestsOK /\ RequestsOK' /\ Store /\ q \in RequestSet /\ q.at = "ffmpeg" /\ q.rows # {}
      /\ req \in [Requests -> RequestSet] /\ UNCHANGED <<seq, raced, taken, videos>>
      /\ req[r].at \notin {"save", "discard", "unlink"}
  BY <1>b, <1>x DEF Base, RequestsOK, FfmpegStep, At, history, Fits
<1>1. row.id = q.video /\ q.video < seq.video /\ q.video \in Nat
  <2>1. row \in q.rows BY <1>0, <1>b, <1>w DEF Row
  <2>2. q.video < seq.video /\ \A u \in q.rows : u.id = q.video BY <1>0, <1>b DEF FilesInv, Holds, DrawingOK
  <2>3. q.video \in Videos \cup {0} BY <1>0 DEF RequestSet
  <2>4. \A v \in Videos : v \in Nat BY VideosAre
  <2>5. q.video \in Nat BY <2>3, <2>4
  <2> QED BY <2>1, <2>2, <2>5
<1>2. CASE AfterThumbnail(r) /\ UNCHANGED disk
  <2>1. req'[r].at \notin Special /\ \A s \in Others(r) : req'[s] = req[s]
    BY <1>0, <1>2, AfterThumbnailAt DEF Special, Carrying
  <2>2. RowsSame /\ seq'.file = seq.file BY <1>0 DEF RowsSame, Existing
  <2> QED BY <1>0, <1>2, <2>1, <2>2, PlainStep
<1>3. CASE ~(AfterThumbnail(r) /\ UNCHANGED disk)
  <2>1. PICK f : f = IF IsImageSource(row) THEN ThumbOf(q.video) ELSE CoverOf(q.video) OBVIOUS
  <2>2. /\ disk' = disk \cup {f}
        /\ Go(r, [To(r, IF IsImageSource(row) THEN "thumburl" ELSE "coverurl") EXCEPT !.file = f])
    BY <1>1, <1>3, <1>w, <2>1 DEF FfmpegStep
  <2>3. /\ x.at = (IF IsImageSource(row) THEN "thumburl" ELSE "coverurl") /\ x.file = f /\ x.video = q.video
        /\ \A s \in Others(r) : req'[s] = req[s]
    BY <1>0, <1>b, <1>x, <2>2 DEF To, Go, Others, RequestSet
  <2>4. DrawingOK(x)' BY <1>0, <1>1, <2>1, <2>3 DEF DrawingOK
  <2>5. \A y \in {req'[r]} : y.at \in {"coverurl", "thumburl"} /\ DrawingOK(y)' BY <1>x, <2>3, <2>4
  <2>6. f \in {CoverOf(q.video), ThumbOf(q.video)} BY <2>1
  <2> QED BY <1>0, <1>1, <2>2, <2>3, <2>5, <2>6, DrawStep
<1> QED BY <1>2, <1>3

LEMMA FScaleCover ==
  ASSUME Base, Base', FilesInv, OldRows, NEW r \in Requests, ScaleCover(r)
  PROVE  FilesInv'
<1>b. PICK q : q = req[r] OBVIOUS
<1>x. PICK x : x = req'[r] OBVIOUS
<1>0. /\ RequestsOK /\ RequestsOK' /\ Store /\ q \in RequestSet /\ q.at = "scale"
      /\ req \in [Requests -> RequestSet] /\ UNCHANGED <<seq, raced, taken, videos>>
      /\ req[r].at \notin {"save", "discard", "unlink"}
  BY <1>b, <1>x DEF Base, RequestsOK, ScaleCover, At, history
<1>1. q.video < seq.video /\ q.video \in Nat
  <2>1. q.video < seq.video BY <1>0, <1>b DEF FilesInv, Holds, DrawingOK
  <2>2. q.video \in Videos \cup {0} BY <1>0 DEF RequestSet
  <2>4. \A v \in Videos : v \in Nat BY VideosAre
  <2>5. q.video \in Nat BY <2>2, <2>4
  <2> QED BY <2>1, <2>5
<1>2. CASE AfterThumbnail(r) /\ UNCHANGED disk
  <2>1. req'[r].at \notin Special /\ \A s \in Others(r) : req'[s] = req[s]
    BY <1>0, <1>2, AfterThumbnailAt DEF Special, Carrying
  <2>2. RowsSame /\ seq'.file = seq.file BY <1>0 DEF RowsSame, Existing
  <2> QED BY <1>0, <1>2, <2>1, <2>2, PlainStep
<1>3. CASE ~(AfterThumbnail(r) /\ UNCHANGED disk)
  <2>1. PICK f : f = ThumbOf(q.video) OBVIOUS
  <2>2. disk' = disk \cup {f} /\ Go(r, [To(r, "thumburl") EXCEPT !.file = f])
    BY <1>3, <1>b, <2>1 DEF ScaleCover
  <2>3. x.at = "thumburl" /\ x.file = f /\ x.video = q.video /\ \A s \in Others(r) : req'[s] = req[s]
    BY <1>0, <1>b, <1>x, <2>2 DEF To, Go, Others, RequestSet
  <2>4. DrawingOK(x)' BY <1>0, <1>1, <2>1, <2>3 DEF DrawingOK
  <2>5. \A y \in {req'[r]} : y.at \in {"coverurl", "thumburl"} /\ DrawingOK(y)' BY <1>x, <2>3, <2>4
  <2>6. f \in {CoverOf(q.video), ThumbOf(q.video)} BY <2>1
  <2> QED BY <1>0, <1>1, <2>2, <2>3, <2>5, <2>6, DrawStep
<1> QED BY <1>2, <1>3

\* An uploaded cover has a number of its own, and with it the name of the cover.
LEMMA FTmpCover ==
  ASSUME Base, Base', FilesInv, OldRows, NEW r \in Requests, TmpCover(r)
  PROVE  FilesInv'
<1>a. PICK f : f = File("tmpcover", seq.file, None) OBVIOUS
<1>g. PICK g : g = File("newcover", seq.file, None) OBVIOUS
<1>x. PICK x : x = req'[r] OBVIOUS
<1>0. /\ RequestsOK /\ RequestsOK' /\ Store /\ req \in [Requests -> RequestSet] /\ req[r] \in RequestSet
      /\ seq.video \in Nat /\ seq.file \in Nat /\ req[r].at = "tmpcover" /\ Paths(x)
  BY <1>x DEF Base, RequestsOK, Store, SeqSet, TmpCover, At
<1>1. f.kind = "tmpcover" /\ f.n = seq.file /\ g.kind = "newcover" /\ g.n = seq.file /\ g # f
  BY <1>a, <1>g DEF File
<1>2. /\ disk' = disk \cup {f} /\ videos' = videos /\ raced' = raced /\ taken' = taken
      /\ seq'.file = seq.file + 1 /\ seq'.video = seq.video
  BY <1>0, <1>a DEF TmpCover, history, Store, SeqSet
<1>3. x.at = "placecover" /\ x.file = f /\ \A s \in Others(r) : req'[s] = req[s]
  BY <1>0, <1>a, <1>x DEF TmpCover, Go, To, Others, RequestSet
<1>5. /\ f \notin disk \cup taken /\ \A v \in Existing : f \notin FilesOf(videos[v]) /\ videos[v].file # f
      /\ \A s \in Requests : \A p \in {req[s]} : p.at \in Carrying => p.file # f
      /\ g \notin disk \cup taken /\ \A v \in Existing : g \notin FilesOf(videos[v]) /\ videos[v].file # g
  BY <1>1, FreshName
<1>6. Grows /\ RowsSame BY <1>0, <1>2 DEF Grows, RowsSame, Existing
<1>7. Named(f)' BY <1>0, <1>1, <1>2 DEF Named
<1>8. f.kind \in Kinds BY <1>1 DEF Kinds
<1>9. NewCoverOf(x) = g BY <1>a, <1>g, <1>3 DEF NewCoverOf, File
<1>10. Holds(x)'
  <2>1. HeldNames(x)' BY <1>3, <1>7 DEF HeldNames, Carrying
  <2>2. ClaimsOK(x)' BY <1>2, <1>3, <1>5 DEF ClaimsOK, Claims, Mine, Existing
  <2>3. PlacingOK(x)' BY <1>1, <1>2, <1>3, <1>5, <1>9 DEF PlacingOK, Mine, Existing
  <2>4. SavingOK(x)' /\ DrawingOK(x)' /\ DeletingOK(x)' BY <1>0, <1>3 DEF SavingOK, DrawingOK, DeletingOK, Paths
  <2> QED BY <2>1, <2>2, <2>3, <2>4 DEF Holds
<1>11. ASSUME NEW s \in Others(r), NEW p, p = req[s] PROVE Apart(x, p)' /\ Apart(p, x)'
  <2>1. p.at = "placecover" => p.file.n < seq.file
    <3>1. p.at = "placecover" => Named(p.file) /\ p.file.kind = "tmpcover"
      BY <1>11 DEF FilesInv, Holds, HeldNames, Carrying, PlacingOK, Others
    <3> QED BY <3>1 DEF Named
  <2>2. p.at = "save" => p.file # f BY <1>5, <1>11 DEF Others, Carrying
  <2>3. p.at = "placecover" => p.file.n # seq.file BY <1>0, <2>1
  <2>4. Apart(x, p)' BY <1>1, <1>3, <2>3 DEF Apart
  <2>5. Apart(p, x)' BY <1>1, <1>3, <2>2, <2>3 DEF Apart, Claims, Carrying
  <2> QED BY <2>4, <2>5
<1>12. \A y \in {req'[r]} : Holds(y)' /\ \A s \in Others(r) : \A p \in {req'[s]} : Apart(y, p)' /\ Apart(p, y)'
  <2>1. \A s \in Others(r) : \A p \in {req'[s]} : Apart(x, p)' /\ Apart(p, x)' BY <1>3, <1>11
  <2> QED BY <1>x, <1>10, <2>1
<1>13. \A s \in Requests : s # r => req'[s] = req[s] BY <1>3 DEF Others
<1>14. \A h \in disk' : h.kind = "media" /\ Pending(req[r], h) => Pending(req'[r], h) BY <1>0 DEF Pending
<1>15. \A s \in Requests : f # NewCoverOf(req[s]) BY <1>1 DEF NewCoverOf, File
<1> HIDE DEF Pending
<1>16. \A h \in disk' \ disk :
           /\ Named(h)' /\ h.kind \in Kinds
           /\ h.kind = "media" => \/ h \in taken
                                  \/ /\ r \in Requests /\ Pending(req'[r], h)
                                     /\ \A v \in Existing : videos[v].file # h
           /\ \A s \in Requests : s # r /\ req[s].at = "placecover" => h # NewCoverOf(req[s])
  <2> HIDE DEF Named
  <2> QED BY <1>1, <1>2, <1>7, <1>8, <1>15
<1>17. disk \ disk' = {} /\ taken' \ taken = {} BY <1>2
<1> QED BY <1>6, <1>12, <1>13, <1>14, <1>16, <1>17, DiskStep

\* So the cover takes the place of nothing.
LEMMA FPlaceCover ==
  ASSUME Base, Base', FilesInv, OldRows, NEW r \in Requests, PlaceCover(r)
  PROVE  FilesInv'
<1>b. PICK q : q = req[r] OBVIOUS
<1>x. PICK x : x = req'[r] OBVIOUS
<1>f. PICK f : f = NewCoverOf(q) OBVIOUS
<1>0. /\ RequestsOK /\ RequestsOK' /\ Store /\ req \in [Requests -> RequestSet] /\ q \in RequestSet
      /\ seq.video \in Nat /\ seq.file \in Nat /\ q.at = "placecover" /\ Paths(x)
      /\ UNCHANGED <<videos, seq, raced, taken>>
  BY <1>b, <1>x DEF Base, RequestsOK, Store, SeqSet, PlaceCover, At, history
<1>1. Holds(q) /\ \A s \in Requests : s # r => \A p \in {req[s]} : Apart(q, p) /\ Apart(p, q)
  BY <1>b DEF FilesInv, Others
<1>2. f.kind = "newcover" /\ f.n = q.file.n /\ q.file.kind = "tmpcover"
  BY <1>0, <1>1, <1>f DEF NewCoverOf, File, Holds, PlacingOK
<1>3. \/ /\ disk' = (disk \ {q.file}) \cup {f}
         /\ Go(r, [To(r, "newcover") EXCEPT !.file = f])
      \/ disk' \subseteq disk /\ disk \ {q.file} \subseteq disk' /\ Done(r)
  <2>1. {q.file} \in SUBSET FileSet BY <1>0 DEF RequestSet
  <2>2. RemoveFiles({q.file}) => disk' \subseteq disk /\ disk \ {q.file} \subseteq disk' BY <1>0, <2>1, RemoveOK
  <2> HIDE DEF RemoveFiles
  <2> QED BY <1>b, <1>f, <2>2 DEF PlaceCover, NewCoverOf
<1>4. \/ disk' = (disk \ {q.file}) \cup {f} /\ x.at = "newcover" /\ x.file = f
      \/ disk' \subseteq disk /\ disk \ {q.file} \subseteq disk' /\ x.at = "idle"
  <2>1. CASE disk' = (disk \ {q.file}) \cup {f} /\ Go(r, [To(r, "newcover") EXCEPT !.file = f])
    BY <1>0, <1>b, <1>x, <2>1 DEF Go, To, RequestSet
  <2>2. CASE disk' \subseteq disk /\ disk \ {q.file} \subseteq disk' /\ Done(r)
    BY <1>0, <1>b, <1>x, <2>2 DEF Go, Done, Idle
  <2> QED BY <1>3, <2>1, <2>2
<1>5. \A s \in Requests : s # r => req'[s] = req[s] BY <1>0, <1>3 DEF Go, Done
<1>6. Grows /\ RowsSame BY <1>0 DEF Grows, RowsSame, Existing
<1>7. Named(f)' /\ f.kind \in Kinds
  <2>1. Named(q.file) BY <1>0, <1>1 DEF Holds, HeldNames, Carrying
  <2> QED BY <1>0, <1>2, <2>1 DEF Named, Kinds
<1>8. \A s \in Requests : s # r /\ req[s].at = "placecover" => f # NewCoverOf(req[s])
  BY <1>0, <1>1, <1>2 DEF Apart, NewCoverOf, File
<1>9. \A g \in disk \ disk' :
           \/ g \in taken' \cup raced'
           \/ /\ \A w \in Mine : videos[w].file # g
              /\ \A s \in Requests : s # r /\ req[s].at = "save" => req[s].file # g
  <2> SUFFICES ASSUME NEW g \in disk \ disk'
               PROVE  /\ \A w \in Mine : videos[w].file # g
                      /\ \A s \in Requests : s # r /\ req[s].at = "save" => req[s].file # g
    OBVIOUS
  <2>1. g = q.file BY <1>4
  <2>2. Claims(q, g) BY <1>0, <2>1 DEF Claims, Carrying
  <2>3. \A w \in Mine : videos[w].file # g BY <1>0, <1>1, <2>2 DEF Holds, ClaimsOK
  <2>4. \A s \in Requests : s # r /\ req[s].at = "save" => req[s].file # g BY <1>0, <1>2, <2>1, SavesMedia
  <2> QED BY <2>3, <2>4
<1>10. ASSUME x.at = "newcover", x.file = f
       PROVE  Holds(x)' /\ \A s \in Others(r) : \A p \in {req'[s]} : Apart(x, p)' /\ Apart(p, x)'
  <2>1. HeldNames(x)' BY <1>7, <1>10 DEF HeldNames, Carrying
  <2>2. \A w \in Mine : videos[w].file # f BY <1>0, <1>1, <1>f DEF Holds, PlacingOK
  <2>3. ClaimsOK(x)' BY <1>0, <1>10, <2>2 DEF ClaimsOK, Claims, Mine, Existing
  <2>4. SavingOK(x)' /\ PlacingOK(x)' /\ DrawingOK(x)' BY <1>2, <1>10 DEF SavingOK, PlacingOK, DrawingOK
  <2>5. DeletingOK(x)' BY <1>0, <1>10 DEF DeletingOK, Paths
  <2>6. ASSUME NEW s \in Others(r), NEW p, p = req'[s] PROVE Apart(x, p)' /\ Apart(p, x)'
    <3>1. p = req[s] /\ s \in Requests BY <1>5, <2>6 DEF Others
    <3>2. p.at = "save" => p.file # f BY <1>0, <1>2, <3>1, SavesMedia
    <3>3. Apart(x, p)' BY <1>10 DEF Apart
    <3>4. Apart(p, x)' BY <1>10, <3>2 DEF Apart, Claims, Carrying
    <3> QED BY <3>3, <3>4
  <2> QED BY <2>1, <2>3, <2>4, <2>5, <2>6 DEF Holds
<1>11. ASSUME x.at = "idle"
       PROVE  Holds(x)' /\ \A s \in Others(r) : \A p \in {req'[s]} : Apart(x, p)' /\ Apart(p, x)'
  <2>1. x.at \notin Special BY <1>11 DEF Special, Carrying
  <2> QED BY <2>1, PlainHolds, PlainApart
<1>12. \A y \in {req'[r]} : Holds(y)' /\ \A s \in Others(r) : \A p \in {req'[s]} : Apart(y, p)' /\ Apart(p, y)'
  <2> HIDE DEF Holds, Apart
  <2> QED BY <1>x, <1>4, <1>10, <1>11
<1>13. \A g \in disk' : g.kind = "media" /\ Pending(req[r], g) => Pending(req'[r], g) BY <1>0, <1>b DEF Pending
<1> HIDE DEF Pending
<1>14. \A h \in disk' \ disk :
           /\ Named(h)' /\ h.kind \in Kinds
           /\ h.kind = "media" => \/ h \in taken
                                  \/ /\ r \in Requests /\ Pending(req'[r], h)
                                     /\ \A v \in Existing : videos[v].file # h
           /\ \A s \in Requests : s # r /\ req[s].at = "placecover" => h # NewCoverOf(req[s])
  <2>1. \A h \in disk' \ disk : h = f BY <1>4
  <2> HIDE DEF Named
  <2> QED BY <1>2, <1>7, <1>8, <2>1
<1>15. taken' \ taken = {} BY <1>0
<1> QED BY <1>5, <1>6, <1>9, <1>12, <1>13, <1>14, <1>15, DiskStep

\* What a step that only reads leaves alone.
Steady == UNCHANGED <<videos, seq, disk, raced, taken>>

\* Steps that only read: what the request has read is right, for now.
LEMMA SteadyStep ==
  ASSUME Base, Base', FilesInv, OldRows, Steady, NEW r \in Requests,
         req[r].at \notin {"save", "discard", "unlink"},
         \A s \in Others(r) : req'[s] = req[s],
         \A x \in {req'[r]} : Holds(x) /\ \A s \in Others(r) : \A p \in {req[s]} : Apart(x, p) /\ Apart(p, x)
  PROVE  FilesInv'
<1>1. RowsSame /\ seq'.file = seq.file /\ UNCHANGED <<disk, taken>> BY DEF RowsSame, Existing, Steady
<1>2. ASSUME NEW x, Holds(x) PROVE Holds(x)'
  <2>1. NewCoverOf(x)' = NewCoverOf(x) BY DEF NewCoverOf
  <2>2. Existing' = Existing /\ Mine' = Mine BY DEF Steady, Existing, Mine
  <2>3. HeldNames(x)' /\ ClaimsOK(x)' BY <1>2, <2>2 DEF Steady, Holds, HeldNames, ClaimsOK, Named, Claims
  <2>4. SavingOK(x)' /\ PlacingOK(x)' /\ DrawingOK(x)'
    BY <1>2, <2>1, <2>2 DEF Steady, Holds, SavingOK, PlacingOK, DrawingOK
  <2>5. DeletingOK(x)' BY <1>2, <2>2 DEF Steady, Holds, DeletingOK
  <2> QED BY <2>3, <2>4, <2>5 DEF Holds
<1>3. ASSUME NEW x, NEW p, Apart(x, p) PROVE Apart(x, p)' BY <1>3 DEF Apart, Claims, Steady
<1>4. \A x \in {req'[r]} : Holds(x)' /\ \A s \in Others(r) : \A p \in {req[s]} : Apart(x, p)' /\ Apart(p, x)'
  BY <1>2, <1>3
<1>5. \A f \in disk : f.kind = "media" /\ Pending(req[r], f) => Pending(req'[r], f) BY DEF Pending
<1> QED BY <1>1, <1>4, <1>5, StillStep

\* The files of a row that is there belong to no other video, and to no upload.
LEMMA OwnRow ==
  ASSUME Base, FilesInv, NEW v \in Existing, NEW f \in FilesOf(videos[v])
  PROVE  /\ Named(f)
         /\ \A w \in Mine : videos[w].file = f => w = v
         /\ \A s \in Requests : \A p \in {req[s]} : p.at = "save" /\ p.file \notin raced => p.file # f
BY DEF FilesInv, NamesGiven, OwnedOK, Own, Mine, Holds, SavingOK

\* A scan takes the files that it did not know.
LEMMA FReadDir ==
  ASSUME Base, Base', FilesInv, OldRows, NEW r \in Requests, ReadDir(r)
  PROVE  FilesInv'
<1>b. PICK q : q = req[r] OBVIOUS
<1>x. PICK x : x = req'[r] OBVIOUS
<1>n. PICK new : new = Candidates(q.known) OBVIOUS
<1>0. /\ RequestsOK /\ Store /\ q \in RequestSet /\ q.at = "readdir" /\ Paths(x) /\ Steady
      /\ req \in [Requests -> RequestSet] /\ req[r].at \notin {"save", "discard", "unlink"}
  BY <1>b, <1>x DEF Base, RequestsOK, ReadDir, At, Quiet, history, Steady
<1>1. CASE new = {}
  <2>1. req'[r].at \notin Special /\ \A s \in Others(r) : req'[s] = req[s]
    BY <1>0, <1>1, <1>b, <1>n DEF ReadDir, Move, Go, To, Others, RequestSet, Special, Carrying
  <2>2. RowsSame /\ seq'.file = seq.file /\ UNCHANGED <<disk, taken>> BY <1>0 DEF RowsSame, Existing, Steady
  <2> QED BY <1>0, <2>1, <2>2, PlainStep
<1>2. CASE new # {}
  <2>0. Go(r, [To(r, "adopt") EXCEPT !.files = new]) BY <1>2, <1>b, <1>n DEF ReadDir
  <2>1. /\ x.at = "adopt" /\ x.files = new /\ x.known = q.known
        /\ \A s \in Others(r) : req'[s] = req[s]
    BY <1>0, <1>b, <1>x, <2>0 DEF Go, To, Others, RequestSet
  <2>2. \A f \in new : Named(f) /\ f.kind \notin {"variant", "none"} /\ f \notin x.known
    BY <1>n, <2>1 DEF Candidates, FilesInv, NamesGiven, Kinds
  <2>3. x.op = "scan" BY <1>0, <2>1 DEF Paths
  <2>4. Holds(x)
    BY <2>1, <2>2, <2>3 DEF Holds, HeldNames, Carrying, ClaimsOK, Claims, SavingOK, PlacingOK, DrawingOK, DeletingOK
  <2>5. \A p : Apart(x, p) /\ Apart(p, x) BY <2>1 DEF Apart, Claims, Carrying
  <2>6. \A y \in {req'[r]} : Holds(y) /\ \A s \in Others(r) : \A p \in {req[s]} : Apart(y, p) /\ Apart(p, y)
    BY <1>x, <2>4, <2>5
  <2> QED BY <1>0, <2>1, <2>6, SteadyStep
<1> QED BY <1>1, <1>2

\* A deletion empties the caches,
LEMMA FInvalidateFirst ==
  ASSUME Base, Base', FilesInv, OldRows, NEW r \in Requests, InvalidateFirst(r)
  PROVE  FilesInv'
<1>b. PICK q : q = req[r] OBVIOUS
<1>x. PICK x : x = req'[r] OBVIOUS
<1>0. /\ RequestsOK /\ q \in RequestSet /\ q.at = "invalidate" /\ Paths(x) /\ Steady
      /\ req \in [Requests -> RequestSet] /\ req[r].at \notin {"save", "discard", "unlink"}
  BY <1>b, <1>x DEF Base, RequestsOK, InvalidateFirst, At, history, Steady
<1>1. x.at = "delrow" /\ x.ids = q.ids /\ x.op = q.op /\ \A s \in Others(r) : req'[s] = req[s]
  BY <1>0, <1>b, <1>x DEF InvalidateFirst, Move, Go, To, Others, RequestSet
<1>2. \A v \in q.ids : v < seq.video BY <1>0, <1>b DEF FilesInv, Holds, DeletingOK
<1>3. x.op # "sweep" BY <1>0, <1>1 DEF Paths
<1>4. Holds(x)
  BY <1>1, <1>2, <1>3 DEF Holds, HeldNames, Carrying, ClaimsOK, Claims, SavingOK, PlacingOK, DrawingOK, DeletingOK
<1>5. \A p : Apart(x, p) /\ Apart(p, x) BY <1>1 DEF Apart, Claims, Carrying
<1>6. \A y \in {req'[r]} : Holds(y) /\ \A s \in Others(r) : \A p \in {req[s]} : Apart(y, p) /\ Apart(p, y)
  BY <1>x, <1>4, <1>5
<1> QED BY <1>0, <1>1, <1>6, SteadyStep

\* reads the rows, and has their files in hand,
LEMMA FDelRow ==
  ASSUME Base, Base', FilesInv, OldRows, NEW r \in Requests, DelRow(r)
  PROVE  FilesInv'
<1>b. PICK q : q = req[r] OBVIOUS
<1>x. PICK x : x = req'[r] OBVIOUS
<1>n. PICK rows : rows = {videos[v] : v \in q.ids \cap Existing} OBVIOUS
<1>f. PICK files : files = UNION {FilesOf(row) : row \in rows} OBVIOUS
<1>0. /\ RequestsOK /\ Store /\ q \in RequestSet /\ q.at = "delrow" /\ Paths(x) /\ Steady
      /\ req \in [Requests -> RequestSet] /\ req[r].at \notin {"save", "discard", "unlink"}
  BY <1>b, <1>x DEF Base, RequestsOK, DelRow, At, Quiet, history, Steady
<1>1. CASE Done(r)
  <2>1. req'[r].at \notin Special /\ \A s \in Others(r) : req'[s] = req[s]
    BY <1>0, <1>1 DEF Done, Idle, Go, Others, Special, Carrying
  <2>2. RowsSame /\ seq'.file = seq.file /\ UNCHANGED <<disk, taken>> BY <1>0 DEF RowsSame, Existing, Steady
  <2> QED BY <1>0, <2>1, <2>2, PlainStep
<1>2. CASE Go(r, [To(r, "tx") EXCEPT !.files = files])
  <2>1. /\ x.at = "tx" /\ x.files = files /\ x.ids = q.ids /\ x.op = q.op
        /\ \A s \in Others(r) : req'[s] = req[s]
    BY <1>0, <1>2, <1>b, <1>x DEF Go, To, Others, RequestSet
  <2>2. x.op # "sweep"
    <3>1. Paths(q) BY <1>b DEF Base, RequestsOK
    <3> QED BY <1>0, <2>1, <3>1 DEF Paths
  <2>3. \A f \in files : \E v \in q.ids \cap Existing : f \in FilesOf(videos[v]) BY <1>f, <1>n
  <2>4. \A v \in q.ids \cap Existing : FilesOf(videos[v]) \subseteq files BY <1>f, <1>n
  <2>5. \A v \in q.ids : v < seq.video BY <1>0, <1>b DEF FilesInv, Holds, DeletingOK
  <2>6. HeldNames(x) BY <2>1, <2>3, OwnRow DEF HeldNames, Carrying
  <2>7. ClaimsOK(x)
    <3>1. ASSUME NEW w \in Mine, Claims(x, videos[w].file) PROVE w \in x.ids
      <4>1. videos[w].file \in files BY <2>1, <3>1 DEF Claims, Carrying
      <4>2. PICK v \in q.ids \cap Existing : videos[w].file \in FilesOf(videos[v]) BY <2>3, <4>1
      <4>3. w = v BY <3>1, <4>2, OwnRow
      <4> QED BY <2>1, <4>2, <4>3
    <3> QED BY <2>1, <3>1 DEF ClaimsOK
  <2>8. SavingOK(x) /\ PlacingOK(x) /\ DrawingOK(x) BY <2>1 DEF SavingOK, PlacingOK, DrawingOK
  <2>9. \A v \in x.ids \cap Existing : videos[v].file.kind = "media" => videos[v].file \in x.files
    BY <2>1, <2>4 DEF FilesOf, NoFile, File
  <2>10. DeletingOK(x) BY <2>1, <2>2, <2>5, <2>9 DEF DeletingOK
  <2>11. ASSUME NEW s \in Others(r), NEW p, p = req[s] PROVE Apart(x, p) /\ Apart(p, x)
    <3>1. Apart(x, p) BY <2>1 DEF Apart
    <3>2. p.at = "save" /\ p.file \notin raced => p.file \notin files
      <4>1. ASSUME NEW v \in Existing, NEW f \in FilesOf(videos[v]), p.at = "save", p.file \notin raced PROVE p.file # f
        BY <2>11, <4>1, OwnRow DEF Others
      <4> QED BY <2>3, <4>1
    <3>3. Apart(p, x) BY <2>1, <3>2 DEF Apart, Claims, Carrying
    <3> QED BY <3>1, <3>3
  <2>12. \A y \in {req'[r]} : Holds(y) /\ \A s \in Others(r) : \A p \in {req[s]} : Apart(y, p) /\ Apart(p, y)
    BY <1>x, <2>6, <2>7, <2>8, <2>10, <2>11 DEF Holds
  <2> QED BY <1>0, <2>1, <2>12, SteadyStep
<1> QED BY <1>1, <1>2, <1>b, <1>f, <1>n DEF DelRow

\* and reads what it will charge.
LEMMA FBeginDelete ==
  ASSUME Base, Base', FilesInv, OldRows, NEW r \in Requests, BeginDelete(r)
  PROVE  FilesInv'
<1>b. PICK q : q = req[r] OBVIOUS
<1>x. PICK x : x = req'[r] OBVIOUS
<1>0. /\ RequestsOK /\ q \in RequestSet /\ q.at = "tx" /\ Steady
      /\ req \in [Requests -> RequestSet] /\ req[r].at \notin {"save", "discard", "unlink"}
  BY <1>b, <1>x DEF Base, RequestsOK, BeginDelete, At, Quiet, history, Steady
<1>1. /\ x.at = "settle" /\ x.files = q.files /\ x.ids = q.ids /\ x.op = q.op /\ x.todo = q.todo
      /\ \A s \in Others(r) : req'[s] = req[s]
  BY <1>0, <1>b, <1>x DEF BeginDelete, Go, To, Others, RequestSet
<1>2. Holds(q) BY <1>b DEF FilesInv
<1>3. HeldNames(x) /\ ClaimsOK(x) BY <1>0, <1>1, <1>2 DEF Holds, HeldNames, Carrying, ClaimsOK, Claims
<1>4. SavingOK(x) /\ PlacingOK(x) /\ DrawingOK(x) BY <1>1 DEF SavingOK, PlacingOK, DrawingOK
<1>5. DeletingOK(x) BY <1>0, <1>1, <1>2 DEF Holds, DeletingOK
<1>6. ASSUME NEW s \in Others(r), NEW p, p = req[s] PROVE Apart(x, p) /\ Apart(p, x)
  <2>1. Apart(p, q) BY <1>b, <1>6 DEF FilesInv, Others
  <2>2. Apart(x, p) BY <1>1 DEF Apart
  <2>3. Apart(p, x) BY <1>0, <1>1, <2>1 DEF Apart, Claims, Carrying
  <2> QED BY <2>2, <2>3
<1>7. \A y \in {req'[r]} : Holds(y) /\ \A s \in Others(r) : \A p \in {req[s]} : Apart(y, p) /\ Apart(p, y)
  BY <1>x, <1>3, <1>4, <1>5, <1>6 DEF Holds
<1> QED BY <1>0, <1>1, <1>7, SteadyStep

-----------------------------------------------------------------------------
\* The sweep.

\* A sweep claims no file.
LEMMA SweepApart ==
  ASSUME NEW x, NEW p, x.at \in {"exists", "nextmissing"} \/ (x.at = "tx" /\ x.files = {})
  PROVE  Apart(x, p) /\ Apart(p, x)
BY DEF Apart, Claims, Carrying

\* It reads the rows, looks for their files, and deletes the rows one by one.
LEMMA FListMedia ==
  ASSUME Base, Base', FilesInv, OldRows, NEW r \in Requests, ListMedia(r)
  PROVE  FilesInv'
<1>b. PICK q : q = req[r] OBVIOUS
<1>x. PICK x : x = req'[r] OBVIOUS
<1>n. PICK rows : rows = {videos[v] : v \in ListLocalVideoMedia} OBVIOUS
<1>0. /\ RequestsOK /\ Numbered /\ q \in RequestSet /\ q.at = "list" /\ q.op = "sweep" /\ Steady
      /\ req \in [Requests -> RequestSet] /\ req[r].at \notin {"save", "discard", "unlink"}
  BY <1>b, <1>x DEF Base, RequestsOK, ListMedia, At, Quiet, history, Steady, Paths
<1>1. Go(r, [To(r, "exists") EXCEPT !.rows = rows]) BY <1>n DEF ListMedia
<1>2. /\ x.at = "exists" /\ x.files = q.files /\ x.op = q.op /\ x.rows = rows
      /\ \A s \in Others(r) : req'[s] = req[s]
  BY <1>0, <1>b, <1>x, <1>1 DEF Go, To, Others, RequestSet
<1>3. q.files = {} BY <1>0, <1>b DEF FilesInv, Holds, DeletingOK
<1>4. \A row \in rows : row.id < seq.video /\ (row.id \in Existing => videos[row.id].file = row.file)
  BY <1>0, <1>n DEF ListLocalVideoMedia, Numbered
<1>5. Holds(x)
  BY <1>0, <1>2, <1>3, <1>4 DEF Holds, HeldNames, Carrying, ClaimsOK, Claims, SavingOK, PlacingOK, DrawingOK, DeletingOK
<1>6. \A y \in {req'[r]} : Holds(y) /\ \A s \in Others(r) : \A p \in {req[s]} : Apart(y, p) /\ Apart(p, y)
  BY <1>x, <1>2, <1>5, SweepApart
<1> QED BY <1>0, <1>2, <1>6, SteadyStep

LEMMA FCheckFiles ==
  ASSUME Base, Base', FilesInv, OldRows, NEW r \in Requests, CheckFiles(r)
  PROVE  FilesInv'
<1>b. PICK q : q = req[r] OBVIOUS
<1>x. PICK x : x = req'[r] OBVIOUS
<1>n. PICK todo : todo = MissingOf(q.rows) OBVIOUS
<1>0. /\ RequestsOK /\ Numbered /\ q \in RequestSet /\ q.at = "exists" /\ q.op = "sweep" /\ Steady
      /\ req \in [Requests -> RequestSet] /\ req[r].at \notin {"save", "discard", "unlink"}
  BY <1>b, <1>x DEF Base, RequestsOK, CheckFiles, At, Quiet, history, Steady, Paths
<1>1. Go(r, [To(r, "nextmissing") EXCEPT !.todo = todo, !.rows = {}]) BY <1>b, <1>n DEF CheckFiles
<1>2. /\ x.at = "nextmissing" /\ x.files = q.files /\ x.op = q.op /\ x.todo = todo
      /\ \A s \in Others(r) : req'[s] = req[s]
  BY <1>0, <1>b, <1>x, <1>1 DEF Go, To, Others, RequestSet
<1>3. q.files = {} /\ \A row \in q.rows : row.id < seq.video /\ (row.id \in Existing => videos[row.id].file = row.file)
  BY <1>0, <1>b DEF FilesInv, Holds, DeletingOK
<1>4. \A v \in todo : v < seq.video /\ (v \in Existing => videos[v].file \notin disk)
  BY <1>3, <1>n DEF MissingOf
<1>5. Holds(x)
  BY <1>0, <1>2, <1>3, <1>4 DEF Holds, HeldNames, Carrying, ClaimsOK, Claims, SavingOK, PlacingOK, DrawingOK, DeletingOK
<1>6. \A y \in {req'[r]} : Holds(y) /\ \A s \in Others(r) : \A p \in {req[s]} : Apart(y, p) /\ Apart(p, y)
  BY <1>x, <1>2, <1>5, SweepApart
<1> QED BY <1>0, <1>2, <1>6, SteadyStep

LEMMA FNextMissing ==
  ASSUME Base, Base', FilesInv, OldRows, NEW r \in Requests, NextMissing(r)
  PROVE  FilesInv'
<1>b. PICK q : q = req[r] OBVIOUS
<1>x. PICK x : x = req'[r] OBVIOUS
<1>n. PICK v : v = Min(q.todo) OBVIOUS
<1>0. /\ RequestsOK /\ Numbered /\ q \in RequestSet /\ q.at = "nextmissing" /\ q.op = "sweep" /\ Steady
      /\ req \in [Requests -> RequestSet] /\ req[r].at \notin {"save", "discard", "unlink"}
  BY <1>b, <1>x DEF Base, RequestsOK, NextMissing, At, Quiet, history, Steady, Paths
<1>1. CASE q.todo = {}
  <2>1. Move(r, IF q.any THEN "refresh" ELSE "finish") BY <1>1, <1>b DEF NextMissing
  <2>2. req'[r].at \notin Special /\ \A s \in Others(r) : req'[s] = req[s]
    BY <1>0, <2>1 DEF Move, Go, To, Others, RequestSet, Special, Carrying
  <2>3. RowsSame /\ seq'.file = seq.file /\ UNCHANGED <<disk, taken>> BY <1>0 DEF RowsSame, Existing, Steady
  <2> QED BY <1>0, <2>2, <2>3, PlainStep
<1>2. CASE q.todo # {}
  <2>1. Go(r, [To(r, "tx") EXCEPT !.ids = {v}, !.todo = q.todo \ {v}]) BY <1>2, <1>b, <1>n DEF NextMissing
  <2>2. /\ x.at = "tx" /\ x.files = q.files /\ x.op = q.op /\ x.todo = q.todo \ {v} /\ x.ids = {v}
        /\ \A s \in Others(r) : req'[s] = req[s]
    BY <1>0, <1>b, <1>x, <2>1 DEF Go, To, Others, RequestSet
  <2>3. v \in q.todo
    <3>1. q.todo \in SUBSET Nat BY <1>0, VideosAre DEF RequestSet
    <3> QED BY <1>2, <1>n, <3>1, MinIn
  <2>4. q.files = {} /\ \A w \in q.todo :
          /\ w < seq.video
          /\ w \in Existing /\ videos[w].file.kind = "media" => videos[w].file \in taken \/ videos[w].file \notin disk
    BY <1>0, <1>b DEF FilesInv, Holds, DeletingOK
  <2>5. \A w \in x.ids \cup x.todo : w \in q.todo BY <2>2, <2>3
  <2>6. HeldNames(x) /\ ClaimsOK(x) BY <2>2, <2>4 DEF HeldNames, Carrying, ClaimsOK, Claims
  <2>7. SavingOK(x) /\ PlacingOK(x) /\ DrawingOK(x) BY <2>2 DEF SavingOK, PlacingOK, DrawingOK
  <2>8. DeletingOK(x) BY <1>0, <2>2, <2>4, <2>5 DEF DeletingOK
  <2>9. \A y \in {req'[r]} : Holds(y) /\ \A s \in Others(r) : \A p \in {req[s]} : Apart(y, p) /\ Apart(p, y)
    BY <1>x, <2>2, <2>4, <2>6, <2>7, <2>8, SweepApart DEF Holds
  <2> QED BY <1>0, <2>2, <2>9, SteadyStep
<1> QED BY <1>1, <1>2

-----------------------------------------------------------------------------
\* Burning.

\* A burn reads the row, and its files with the names of its variants.
LEMMA FBurnRecord ==
  ASSUME Base, Base', FilesInv, OldRows, NEW r \in Requests, BurnRecord(r)
  PROVE  FilesInv'
<1>b. PICK q : q = req[r] OBVIOUS
<1>x. PICK x : x = req'[r] OBVIOUS
<1>n. PICK rows : rows = {row \in FindById(q.video) : MayBurn(q.user, row)} OBVIOUS
<1>0. /\ RequestsOK /\ Numbered /\ q \in RequestSet /\ q.at = "burnrecord" /\ q.op \in {"burn", "playback"} /\ Steady
      /\ req \in [Requests -> RequestSet] /\ req[r].at \notin {"save", "discard", "unlink"}
  BY <1>b, <1>x DEF Base, RequestsOK, BurnRecord, At, Quiet, history, Steady, Paths
<1>1. CASE rows = {}
  <2>1. Done(r) BY <1>1, <1>b, <1>n DEF BurnRecord
  <2>2. req'[r].at \notin Special /\ \A s \in Others(r) : req'[s] = req[s]
    BY <1>0, <2>1 DEF Done, Idle, Go, Others, Special, Carrying
  <2>3. RowsSame /\ seq'.file = seq.file /\ UNCHANGED <<disk, taken>> BY <1>0 DEF RowsSame, Existing, Steady
  <2> QED BY <1>0, <2>2, <2>3, PlainStep
<1>2. CASE rows # {}
  <2>1. Go(r, [To(r, "variants") EXCEPT !.rows = rows, !.ids = {q.video}]) BY <1>2, <1>b, <1>n DEF BurnRecord
  <2>2. /\ x.at = "variants" /\ x.op = q.op /\ x.video = q.video /\ x.rows = rows /\ x.ids = {q.video}
        /\ \A s \in Others(r) : req'[s] = req[s]
    BY <1>0, <1>b, <1>x, <2>1 DEF Go, To, Others, RequestSet
  <2>3. q.video \in Existing /\ \A row \in rows : row = videos[q.video] BY <1>2, <1>n DEF FindById
  <2>4. HeldNames(x) BY <2>2, <2>3, OwnRow DEF HeldNames, Carrying
  <2>5. ClaimsOK(x) BY <2>2, <2>3, OwnRow DEF ClaimsOK, Claims, Carrying
  <2>6. SavingOK(x) /\ PlacingOK(x) /\ DrawingOK(x) BY <2>2 DEF SavingOK, PlacingOK, DrawingOK
  <2>7. DeletingOK(x) BY <1>0, <2>2, <2>3 DEF DeletingOK, Numbered
  <2>8. ASSUME NEW s \in Others(r), NEW p, p = req[s] PROVE Apart(x, p) /\ Apart(p, x)
    <3>1. Apart(x, p) BY <2>2 DEF Apart
    <3>2. ASSUME NEW f \in FilesOf(videos[q.video]), p.at = "save", p.file \notin raced PROVE p.file # f
      BY <2>3, <2>8, <3>2, OwnRow DEF Others
    <3>3. Apart(p, x) BY <2>2, <2>3, <3>2 DEF Apart, Claims, Carrying
    <3> QED BY <3>1, <3>3
  <2>9. \A y \in {req'[r]} : Holds(y) /\ \A s \in Others(r) : \A p \in {req[s]} : Apart(y, p) /\ Apart(p, y)
    BY <1>x, <2>4, <2>5, <2>6, <2>7, <2>8 DEF Holds
  <2> QED BY <1>0, <2>2, <2>9, SteadyStep
<1> QED BY <1>1, <1>2

LEMMA FListVariants ==
  ASSUME Base, Base', FilesInv, OldRows, NEW r \in Requests, ListVariants(r)
  PROVE  FilesInv'
<1>b. PICK q : q = req[r] OBVIOUS
<1>x. PICK x : x = req'[r] OBVIOUS
<1>w. PICK row : row = Row(r) OBVIOUS
<1>n. PICK made : made = {VariantOf(v) : v \in variants \cap {q.video}} OBVIOUS
<1>0. /\ RequestsOK /\ q \in RequestSet /\ q.at = "variants" /\ q.op \in {"burn", "playback"} /\ Steady
      /\ q.rows # {} /\ req \in [Requests -> RequestSet] /\ req[r].at \notin {"save", "discard", "unlink"}
  BY <1>b, <1>x DEF Base, RequestsOK, ListVariants, At, Quiet, history, Steady, Paths, Fits
<1>1. Go(r, [To(r, "tx") EXCEPT !.files = FilesOf(row) \cup made]) BY <1>b, <1>n, <1>w DEF ListVariants
<1>2. /\ x.at = "tx" /\ x.op = q.op /\ x.ids = q.ids /\ x.files = FilesOf(row) \cup made
      /\ \A s \in Others(r) : req'[s] = req[s]
  BY <1>0, <1>b, <1>x, <1>1 DEF Go, To, Others, RequestSet
<1>3. row \in q.rows BY <1>0, <1>b, <1>w DEF Row
<1>4. Holds(q) BY <1>b DEF FilesInv
<1>5. \A f \in made : f.kind = "variant" BY <1>n DEF VariantOf, File
<1>6. \A f \in FilesOf(row) : Claims(q, f) /\ Named(f)
  BY <1>0, <1>3, <1>4 DEF Claims, Holds, HeldNames
<1>7. \A f \in made : Named(f) BY <1>5 DEF Named
<1> HIDE DEF Named
<1>8. HeldNames(x) BY <1>2, <1>6, <1>7 DEF HeldNames, Carrying
<1>9. ClaimsOK(x)
  <2>1. \A w \in Mine : videos[w].file.kind # "variant" BY DEF FilesInv, OwnedOK, Own
  <2>2. \A w \in Mine : Claims(q, videos[w].file) => w \in q.ids BY <1>4 DEF Holds, ClaimsOK
  <2> QED BY <1>2, <1>5, <1>6, <2>1, <2>2 DEF ClaimsOK, Claims, Carrying
<1>10. SavingOK(x) /\ PlacingOK(x) /\ DrawingOK(x) BY <1>2 DEF SavingOK, PlacingOK, DrawingOK
<1>11. DeletingOK(x)
  <2>1. q.ids = {q.video} /\ q.video < seq.video /\ (q.video \in Existing => videos[q.video].file = row.file)
    BY <1>0, <1>3, <1>4 DEF Holds, DeletingOK
  <2>2. row.file.kind = "media" => row.file \in FilesOf(row) BY DEF FilesOf, NoFile, File
  <2> QED BY <1>0, <1>2, <2>1, <2>2 DEF DeletingOK
<1>12. ASSUME NEW s \in Others(r), NEW p, p = req[s] PROVE Apart(x, p) /\ Apart(p, x)
  <2>1. Apart(x, p) BY <1>2 DEF Apart
  <2>2. Apart(p, q) BY <1>b, <1>12 DEF FilesInv, Others
  <2>3. p.at = "save" => p.file.kind = "media" BY <1>0, <1>12, SavesMedia DEF Others
  <2>4. Apart(p, x) BY <1>2, <1>5, <1>6, <2>2, <2>3 DEF Apart, Claims, Carrying
  <2> QED BY <2>1, <2>4
<1>13. \A y \in {req'[r]} : Holds(y) /\ \A s \in Others(r) : \A p \in {req[s]} : Apart(y, p) /\ Apart(p, y)
  BY <1>x, <1>8, <1>9, <1>10, <1>11, <1>12 DEF Holds
<1> QED BY <1>0, <1>2, <1>13, SteadyStep

-----------------------------------------------------------------------------
\* Steps that move no file.

\* The updates that leave the names of files alone.
LEMMA NamesKept ==
  ASSUME NEW row \in Rows
  PROVE  /\ FilesOf([row EXCEPT !.edited = @ + 1]) = FilesOf(row)
         /\ FilesOf([row EXCEPT !.views = @ + 1]) = FilesOf(row)
         /\ FilesOf([row EXCEPT !.length = Seconds]) = FilesOf(row)
         /\ FilesOf([row EXCEPT !.exif = TRUE]) = FilesOf(row)
BY DEF FilesOf, Rows

\* Edits, views, lengths and EXIF data name no files,
LEMMA UpdatesKeepNames ==
  ASSUME Store, \/ \E V : EditVideos(V)
                \/ \E v : IncrementViews(v)
                \/ \E v : UpdateDuration(v, Seconds)
                \/ \E v : MarkExifExtracted(v)
  PROVE  RowsKept /\ \A w \in Existing : FilesOf(videos'[w]) = FilesOf(videos[w])
<1>0. \A w \in Existing : videos[w] \in Rows /\ w \in Videos BY ExistingAre
<1>1. CASE \E V : EditVideos(V)
  <2>1. PICK V : EditVideos(V) BY <1>1
  <2>2. \A w \in Existing : videos'[w] = IF w \in V THEN [videos[w] EXCEPT !.edited = @ + 1] ELSE videos[w]
    BY <1>0, <2>1 DEF EditVideos, UpdateRows
  <2> QED BY <1>0, <2>1, <2>2, EditVideosKeeps, NamesKept
<1>2. CASE \E v : IncrementViews(v)
  <2>1. PICK v : IncrementViews(v) BY <1>2
  <2>2. \A w \in Existing : videos'[w] = IF w = v THEN [videos[w] EXCEPT !.views = @ + 1] ELSE videos[w]
    BY <1>0, <2>1 DEF IncrementViews, UpdateRows
  <2> QED BY <1>0, <2>1, <2>2, IncrementViewsKeeps, NamesKept
<1>3. CASE \E v : UpdateDuration(v, Seconds)
  <2>1. PICK v : UpdateDuration(v, Seconds) BY <1>3
  <2>2. \A w \in Existing : videos'[w] = IF w = v THEN [videos[w] EXCEPT !.length = Seconds] ELSE videos[w]
    BY <1>0, <2>1 DEF UpdateDuration, UpdateRows
  <2>3. Seconds \in Nat BY LibraryAssumption DEF IdAssumption
  <2> QED BY <1>0, <2>1, <2>2, <2>3, UpdateDurationKeeps, NamesKept
<1>4. CASE \E v : MarkExifExtracted(v)
  <2>1. PICK v : MarkExifExtracted(v) BY <1>4
  <2>2. \A w \in Existing : videos'[w] = IF w = v THEN [videos[w] EXCEPT !.exif = TRUE] ELSE videos[w]
    BY <1>0, <2>1 DEF MarkExifExtracted, UpdateRows
  <2> QED BY <1>0, <2>1, <2>2, MarkExifExtractedKeeps, NamesKept
<1> QED BY <1>1, <1>2, <1>3, <1>4

\* so a step that only makes such updates leaves the rows as they are here.
LEMMA SameRows ==
  ASSUME Store, raced' = raced, seq'.video = seq.video,
         \/ videos' = videos
         \/ \E V : EditVideos(V)
         \/ \E v : IncrementViews(v)
         \/ \E v : UpdateDuration(v, Seconds)
         \/ \E v : MarkExifExtracted(v)
  PROVE  RowsSame
<1>1. CASE videos' = videos BY <1>1 DEF RowsSame, Existing
<1>2. CASE \/ \E V : EditVideos(V)
           \/ \E v : IncrementViews(v)
           \/ \E v : UpdateDuration(v, Seconds)
           \/ \E v : MarkExifExtracted(v)
  BY <1>2, UpdatesKeepNames DEF RowsSame, RowsKept
<1> QED BY <1>1, <1>2

\* The steps of a request that move no file and hold none.
Quietly(r) ==
  \/ Refresh(r) \/ DetailStep(r) \/ GetRow(r) \/ Fill(r) \/ ListStep(r) \/ FillList(r) \/ HashStep(r) \/ Saved(r)
  \/ CoversStep(r) \/ NextCover(r) \/ NoExifStep(r) \/ ReadExif(r) \/ UrlsStep(r) \/ Finish(r) \/ BurnRow(r)
  \/ ProgressStep(r) \/ CheckReport(r) \/ AtEnd(r) \/ Upsert(r) \/ ViewStep(r) \/ EditStep(r) \/ SessionStep(r)

\* They start with nothing in hand and end so,
LEMMA QuietlyMoves ==
  ASSUME RequestsOK, NEW r \in Requests, Quietly(r)
  PROVE  /\ \A s \in Others(r) : req'[s] = req[s]
         /\ req'[r].at \notin Special
         /\ req[r].at \notin {"save", "discard", "unlink"}
<1> DEFINE Moved == (\A s \in Others(r) : req'[s] = req[s]) /\ req'[r].at \notin Special
           Plain == {"idle", "getrow", "fill", "filllist", "rename", "thumbnail", "refresh", "nextcover", "covers",
                     "readexif", "noexif", "readdir", "burnrecord", "progress", "atend", "upsert"}
<1>0. req \in [Requests -> RequestSet] /\ req[r] \in RequestSet BY DEF RequestsOK
<1>1. Done(r) => Moved BY <1>0 DEF Go, Others, Done, Idle, Special, Carrying
<1>2. \A s \in Plain : Move(r, s) => Moved BY <1>0 DEF Go, Others, Move, To, RequestSet, Special, Carrying
<1>3. \A s \in Plain : \A z : Go(r, [To(r, s) EXCEPT !.rows = z]) => Moved
  BY <1>0 DEF Go, Others, To, RequestSet, Special, Carrying
<1>4. \A s \in Plain : \A z : Go(r, [To(r, s) EXCEPT !.ids = z]) => Moved
  BY <1>0 DEF Go, Others, To, RequestSet, Special, Carrying
<1>5. \A s \in Plain : \A z : Go(r, [To(r, s) EXCEPT !.todo = z]) => Moved
  BY <1>0 DEF Go, Others, To, RequestSet, Special, Carrying
<1>6. \A s \in Plain : \A y, z : Go(r, [To(r, s) EXCEPT !.todo = y, !.ids = z]) => Moved
  BY <1>0 DEF Go, Others, To, RequestSet, Special, Carrying
<1>7. \A s \in Plain : \A v, y, z : Go(r, [To(r, s) EXCEPT !.video = v, !.last = y, !.todo = z]) => Moved
  BY <1>0 DEF Go, Others, To, RequestSet, Special, Carrying
<1>8. \A s \in Plain : \A z : Go(r, [To(r, s) EXCEPT !.known = z]) => Moved
  BY <1>0 DEF Go, Others, To, RequestSet, Special, Carrying
<1>9. \A s \in Plain : \A z : Go(r, [To(r, s) EXCEPT !.ends = z]) => Moved
  BY <1>0 DEF Go, Others, To, RequestSet, Special, Carrying
<1>10. \A s \in Plain : \A z : Go(r, [To(r, s) EXCEPT !.any = z]) => Moved
  BY <1>0 DEF Go, Others, To, RequestSet, Special, Carrying
<1> HIDE DEF Moved
<1>11. (\/ Refresh(r) \/ DetailStep(r) \/ Fill(r) \/ FillList(r) \/ HashStep(r) \/ Saved(r) \/ Finish(r)) => Moved
  BY <1>1, <1>2 DEF Refresh, DetailStep, Fill, FillList, HashStep, Saved, Finish
<1>12. ProgressStep(r) \/ CheckReport(r) \/ Upsert(r) \/ ViewStep(r) \/ SessionStep(r) => Moved
  BY <1>1, <1>2 DEF ProgressStep, CheckReport, Upsert, ViewStep, SessionStep
<1>13. GetRow(r) => Moved BY <1>1, <1>3 DEF GetRow
<1>14. ListStep(r) => Moved BY <1>1, <1>2, <1>4 DEF ListStep
<1>15. CoversStep(r) => Moved BY <1>2, <1>5 DEF CoversStep
<1>16. NextCover(r) => Moved BY <1>2, <1>7 DEF NextCover
<1>17. NoExifStep(r) => Moved BY <1>2, <1>5 DEF NoExifStep
<1>18. ReadExif(r) => Moved
  <2>1. ReadExif(r) => \E s \in {"noexif", "readexif"} : \E y, z : Go(r, [To(r, s) EXCEPT !.todo = y, !.ids = z])
    BY DEF ReadExif
  <2> QED BY <1>6, <2>1
<1>19. UrlsStep(r) \/ AtEnd(r) \/ EditStep(r) => Moved
  BY <1>1, <1>2, <1>8, <1>9, <1>10 DEF UrlsStep, AtEnd, EditStep
<1>20. BurnRow(r) => Moved BY <1>1, <1>2, <1>3 DEF BurnRow
<1>21. req[r].at \notin {"save", "discard", "unlink"}
  BY DEF Quietly, At, Refresh, DetailStep, GetRow, Fill, ListStep, FillList, HashStep, Saved, CoversStep, NextCover,
     NoExifStep, ReadExif, UrlsStep, Finish, BurnRow, ProgressStep, CheckReport, AtEnd, Upsert, ViewStep, EditStep,
     SessionStep
<1>22. Moved
  BY <1>11, <1>12, <1>13, <1>14, <1>15, <1>16, <1>17, <1>18, <1>19, <1>20 DEF Quietly
<1> QED BY <1>21, <1>22 DEF Moved

\* and leave the files in order.
LEMMA FQuietly ==
  ASSUME Base, Base', FilesInv, OldRows, NEW r \in Requests, Quietly(r)
  PROVE  FilesInv'
<1>0. RequestsOK /\ Store BY DEF Base
<1>1. /\ UNCHANGED <<disk, taken, raced, seq>>
      /\ \/ videos' = videos
         \/ \E V : EditVideos(V)
         \/ \E v : IncrementViews(v)
         \/ \E v : UpdateDuration(v, Seconds)
         \/ \E v : MarkExifExtracted(v)
  <2>1. CASE Quiet BY <2>1 DEF Quiet, history
  <2>2. CASE Refresh(r) \/ Fill(r) \/ FillList(r) \/ Saved(r) \/ Upsert(r) \/ SessionStep(r)
    BY <2>2 DEF Refresh, Fill, FillList, Saved, Upsert, SessionStep, history
  <2>3. CASE ViewStep(r) BY <2>3 DEF ViewStep, history
  <2>4. CASE EditStep(r) BY <2>4 DEF EditStep, history
  <2>5. CASE ReadExif(r) BY <2>5 DEF ReadExif, history
  <2> QED
    BY <2>1, <2>2, <2>3, <2>4, <2>5 DEF Quietly, DetailStep, GetRow, ListStep, HashStep, CoversStep, NextCover,
       NoExifStep, UrlsStep, Finish, BurnRow, ProgressStep, CheckReport, AtEnd
<1>2. RowsSame
  <2>1. raced' = raced /\ seq'.video = seq.video BY <1>1
  <2> QED BY <1>0, <1>1, <2>1, SameRows
<1>3. /\ \A s \in Others(r) : req'[s] = req[s]
      /\ req'[r].at \notin Special /\ req[r].at \notin {"save", "discard", "unlink"}
  BY <1>0, QuietlyMoves
<1>4. UNCHANGED <<disk, taken>> /\ seq'.file = seq.file BY <1>1
<1> QED BY <1>2, <1>3, <1>4, PlainStep

\* A call that asks for a deletion names videos that were given their ids.
LEMMA AskedIsKnown ==
  ASSUME Base, Base', NEW r \in Requests, Arrive(r) \/ Engage(r), req'[r].at = "invalidate"
  PROVE  req'[r].ids \subseteq Known
<1>0. RequestsOK /\ RequestsOK' BY DEF Base
<1> DEFINE Given == req'[r].at = "invalidate" => req'[r].ids \subseteq Known
           Callers == {"upload", "external", "scan", "edit", "category", "cover", "backfill", "exif", "sweep", "get",
                      "list", "view", "burn", "playback", "start", "heartbeat", "stop", "like", "favorite",
                      "comment", "uncomment", "danmaku", "newtag", "deltag", "tag", "untag", "newlist",
                      "dellist", "additem", "removeitem", "reorder", "share", "unshare", "revoke"}
<1> SUFFICES Given OBVIOUS
<1>1. req'[r].at = "invalidate" => req'[r].op \in {"delete", "deletemany"} BY <1>0 DEF RequestsOK, Paths
<1>2. ASSUME NEW op, NEW q, Call(r, op, q), op \notin {"delete", "deletemany"} PROVE Given
  BY <1>0, <1>1, <1>2, CallIs
<1>3. ASSUME NEW op, NEW V, Call(r, op, [Step("invalidate") EXCEPT !.ids = V]), V \subseteq Known PROVE Given
  <2> DEFINE q == [Step("invalidate") EXCEPT !.ids = V]
  <2>1. q.ids = V BY DEF Step, Idle
  <2>2. Call(r, op, q) BY <1>3
  <2> HIDE DEF q
  <2> QED BY <1>0, <1>3, <2>1, <2>2, CallIs
<1> HIDE DEF Given
<1>4. \A op \in Callers : \A q : Call(r, op, q) => Given BY <1>2 DEF Callers
<1>5. \A op \in Callers : \A q : Watcher(r, op, q) => Given BY <1>4 DEF Watcher
<1>6. \A op \in Callers : \A s, q : Guarded(r, op, s, q) => Given BY <1>4 DEF Guarded
<1>7. \A op \in Callers : \A q : OnList(r, op, q) => Given BY <1>4 DEF OnList
<1>8. DeleteVideo(r) \/ DeleteVideos(r) => Given BY <1>3 DEF DeleteVideo, DeleteVideos, Asked
<1>9. CASE Arrive(r)
  BY <1>4, <1>5, <1>8, <1>9 DEF Callers, Arrive, UploadVideo, AddExternalVideo, ScanMedia,
     UpdateVideo, BatchUpdateCategory, UploadCover, BackfillThumbnails, BackfillExif, SweepMissing,
     GetVideo, ListVideos, ViewVideo, BurnVideo, UpdatePlaybackHistory, StartSession, Heartbeat, StopSession
<1>10. CASE Engage(r)
  BY <1>4, <1>5, <1>6, <1>7, <1>10 DEF Callers, Engage, ToggleLike, ToggleFavorite, CreateComment, DeleteComment,
     CreateDanmaku, CreateTag, DeleteTag, AddTags, RemoveTags, CreatePlaylist, DeletePlaylist, BatchAddVideos,
     RemoveVideoFromPlaylist, ReorderPlaylist, CreateShareLink, DeleteShareLink, RevokeMyShare
<1> QED BY <1>9, <1>10

\* A call changes no file.
LEMMA FCall ==
  ASSUME Base, Base', FilesInv, OldRows, NEW r \in Requests, Arrive(r) \/ Engage(r)
  PROVE  FilesInv'
<1>x. PICK x : x = req'[r] OBVIOUS
<1>1. Steady BY CallApart DEF Steady
<1>2. req[r].at = "idle" BY DEF Arrive, Engage, Free, At
<1>3. \A s \in Others(r) : req'[s] = req[s] BY ArriveMoves
<1>4. Fresh(x) BY <1>x, ArriveFresh
<1>5. x.at \in Starts /\ x.files = {} BY <1>4 DEF Fresh
<1>6. \A p : Apart(x, p) /\ Apart(p, x)
  BY <1>5 DEF Starts, Apart, Claims, Carrying
<1>7. x.at = "invalidate" => \A v \in x.ids : v < seq.video
  <2>1. x.at = "invalidate" => x.ids \subseteq Known BY <1>x, AskedIsKnown
  <2>2. seq.video \in Nat BY DEF Base, Store, SeqSet
  <2> QED BY <2>1, <2>2 DEF Known
<1>8. Holds(x)
  <2>1. HeldNames(x) /\ ClaimsOK(x) /\ SavingOK(x) /\ PlacingOK(x) /\ DrawingOK(x)
    BY <1>5 DEF Starts, HeldNames, ClaimsOK, Claims, SavingOK, PlacingOK, DrawingOK, Carrying
  <2>2. DeletingOK(x) BY <1>5, <1>7 DEF Starts, DeletingOK
  <2> QED BY <2>1, <2>2 DEF Holds
<1> QED BY <1>x, <1>1, <1>2, <1>3, <1>6, <1>8, SteadyStep

\* Neither does what viewers attach.
LEMMA FContribute ==
  ASSUME Base, Base', FilesInv, OldRows, NEW r \in Requests, Contribute(r)
  PROVE  FilesInv'
<1>0. RequestsOK /\ RequestsOK' /\ Store BY DEF Base
<1> DEFINE Ops == {"upload", "scan", "delete", "deletemany", "sweep", "burn", "playback", "cover", "backfill"}
<1>1. /\ \A s \in Others(r) : req'[s] = req[s]
      /\ req[r].op \notin Ops /\ req'[r].op \in {req[r].op, "idle"}
  BY <1>0, ContributeMoves
<1>2. req'[r].op \notin Ops BY <1>1
<1>3. Paths(req[r]) /\ Paths(req'[r]) BY <1>0 DEF RequestsOK
<1>4. req[r].at \notin Special BY <1>1, <1>3, PlainOp
<1>5. req'[r].at \notin Special BY <1>2, <1>3, PlainOp
<1>6. /\ UNCHANGED <<disk, taken, raced, videos>> /\ seq'.file = seq.file /\ seq'.video = seq.video
  BY <1>0, ContributeApart, ContributeSeq
<1>7. RowsSame BY <1>6 DEF RowsSame, Existing
<1>8. req[r].at \notin {"save", "discard", "unlink"} BY <1>4 DEF Special, Carrying
<1> QED BY <1>1, <1>5, <1>6, <1>7, <1>8, PlainStep

\* Files that disappear were taken, and those that were taken come back.
LEMMA FNobody ==
  ASSUME Base, Base', FilesInv, OldRows,
         RunTask \/ TimePasses \/ LoseFile \/ RestoreFile \/ CleanupShares \/ UNCHANGED vars
  PROVE  FilesInv'
<1>0. Store /\ Store' /\ seq.video \in Nat /\ seq.file \in Nat BY DEF Base, Store, SeqSet
<1>1. req' = req
  BY DEF RunTask, TimePasses, LoseFile, RestoreFile, CleanupShares, vars, libraryVars
<1>2. UNCHANGED <<seq, raced>>
  BY DEF RunTask, TimePasses, LoseFile, RestoreFile, CleanupShares, vars, libraryVars, history
<1>3. RowsSame
  <2>1. CASE RunTask
    <3>1. \/ videos' = videos
          \/ \E v : UpdateDuration(v, Seconds)
          \/ \E v : MarkExifExtracted(v)
      BY <2>1 DEF RunTask
    <3> QED BY <1>0, <1>2, <3>1, SameRows
  <2>2. CASE ~RunTask
    <3>1. videos' = videos
      BY <2>2 DEF TimePasses, LoseFile, RestoreFile, CleanupShares, vars, libraryVars
    <3> QED BY <1>2, <3>1 DEF RowsSame, Existing
  <2> QED BY <2>1, <2>2
<1>4. CASE LoseFile
  <2>1. PICK f \in disk : f.kind = "media" /\ disk' = disk \ {f} /\ taken' = taken \cup {f} BY <1>4 DEF LoseFile
  <2>2. Grows BY <1>0, <1>2, <2>1 DEF Grows
  <2>3. disk' \ disk = {} /\ disk \ disk' \subseteq taken' /\ taken' \ taken \subseteq {f} BY <2>1
  <2> QED BY <1>1, <1>3, <2>1, <2>2, <2>3, NobodysStep
<1>5. CASE RestoreFile
  <2>1. PICK f \in taken \ disk : disk' = disk \cup {f} BY <1>5 DEF RestoreFile
  <2>2. taken' = taken BY <1>5 DEF RestoreFile, history
  <2>3. Grows BY <1>0, <1>2, <2>2 DEF Grows
  <2>4. disk' \ disk = {f} /\ disk \ disk' = {} /\ taken' \ taken = {} BY <2>1, <2>2
  <2>5. Named(f) /\ f.kind = "media" BY <2>1 DEF FilesInv, NamesGiven
  <2>6. Named(f)' BY <1>2, <2>5 DEF Named
  <2> QED BY <1>1, <1>3, <2>1, <2>3, <2>4, <2>5, <2>6, NobodysStep DEF Kinds
<1>6. CASE UNCHANGED <<disk, taken>>
  <2>1. Grows BY <1>0, <1>2, <1>6 DEF Grows
  <2>2. disk' \ disk = {} /\ disk \ disk' = {} /\ taken' \ taken = {} BY <1>6
  <2> QED BY <1>1, <1>3, <2>1, <2>2, NobodysStep
<1>7. CASE RunTask \/ TimePasses \/ CleanupShares \/ UNCHANGED vars
  <2>1. UNCHANGED <<disk, taken>> BY <1>7 DEF RunTask, TimePasses, CleanupShares, vars, libraryVars, history
  <2> QED BY <1>6, <2>1
<1> QED BY <1>4, <1>5, <1>7

\* What a dropped request leaves is known.
LEMMA FDrop ==
  ASSUME Base, Base', FilesInv, OldRows, NEW r \in Requests, Drop(r)
  PROVE  FilesInv'
<1>b. PICK q : q = req[r] OBVIOUS
<1>0. /\ RequestsOK /\ Store /\ req \in [Requests -> RequestSet] /\ Holds(q)
      /\ UNCHANGED <<videos, seq, disk, raced, taken>>
  BY <1>b DEF Base, RequestsOK, FilesInv, Drop, history
<1>1. RowsSame /\ seq'.file = seq.file BY <1>0 DEF RowsSame, Existing
<1>2. req'[r].at \notin Special /\ \A s \in Others(r) : req'[s] = req[s]
  <2>1. CASE Done(r) BY <1>0, <2>1 DEF Done, Go, Others, Idle, Special, Carrying
  <2>2. CASE Move(r, "thumbnail") BY <1>0, <2>2 DEF Move, To, Go, Others, RequestSet, Special, Carrying
  <2> QED BY <2>1, <2>2 DEF Drop
<1>3. \A y \in {req'[r]} : Holds(y)' /\ \A s \in Others(r) : \A p \in {req[s]} : Apart(y, p)' /\ Apart(p, y)'
  BY <1>2, PlainHolds, PlainApart
<1>4. Loose(r) \subseteq scene'.left
  <2>1. Loose(r) \in SUBSET FileSet BY <1>0, LooseOK
  <2> QED BY <1>0, <2>1, UpsetOK DEF Drop
<1>5. \A f \in disk : f.kind = "media" /\ Pending(req[r], f) => Pending(req'[r], f) \/ f \in scene'.left
  <2>1. q.at = "discard" => q.files = {q.file} BY <1>0 DEF Holds, DrawingOK
  <2>2. \A f : Pending(q, f) => f \in Loose(r)
    <3>1. CASE q.at = "save"
      <4>1. Loose(r) = {q.file} BY <1>b, <3>1 DEF Loose, At
      <4> QED BY <3>1, <4>1 DEF Pending
    <3>2. CASE q.at \in {"discard", "unlink"}
      <4>1. ~At(r, "save") BY <1>b, <3>2 DEF At
      <4>2. Loose(r) = q.files BY <1>b, <3>2, <4>1 DEF Loose
      <4> QED BY <2>1, <3>2, <4>2 DEF Pending
    <3>3. CASE q.at \notin {"save", "discard", "unlink"} BY <3>3 DEF Pending
    <3> QED BY <3>1, <3>2, <3>3
  <2> HIDE DEF Pending
  <2> QED BY <1>b, <1>4, <2>2
<1> QED BY <1>0, <1>1, <1>2, <1>3, <1>5, StillStep

\* Every step of a request leaves the files in order.
LEMMA FServe ==
  ASSUME Base, Base', FilesInv, OldRows, NEW r \in Requests, Serve(r)
  PROVE  FilesInv'
<1>1. CASE Quietly(r) BY <1>1, FQuietly
<1>2. CASE ~Quietly(r)
  BY <1>2, FRenameStep, FDiscard, FSaveStep, FSaveFails, FExternalStep, FAdopt, FCommitDelete, FCoverUrl,
     FThumbUrl, FNewCover, FThumbnailStep, FFfmpegStep, FScaleCover, FTmpCover, FPlaceCover, FReadDir,
     FInvalidateFirst, FDelRow, FBeginDelete, FListMedia, FCheckFiles, FNextMissing, FBurnRecord, FListVariants,
     FDrop
  DEF Serve, Quietly
<1> QED BY <1>1, <1>2

\* And so does every step of the system.
LEMMA FilesInvKept ==
  ASSUME Base, FilesInv, [Next]_vars
  PROVE  FilesInv'
<1>0. Base' /\ OldRows BY BaseKept, OldRowsStay
<1>1. ASSUME NEW r \in Requests, Serve(r) PROVE FilesInv' BY <1>0, <1>1, FServe
<1>2. ASSUME NEW r \in Requests, Arrive(r) \/ Engage(r) PROVE FilesInv' BY <1>0, <1>2, FCall
<1>3. ASSUME NEW r \in Requests, Contribute(r) PROVE FilesInv' BY <1>0, <1>3, FContribute
<1>4. ASSUME RunTask \/ TimePasses \/ LoseFile \/ RestoreFile \/ CleanupShares \/ UNCHANGED vars PROVE FilesInv'
  BY <1>0, <1>4, FNobody
<1> QED BY <1>1, <1>2, <1>3, <1>4 DEF Next, LibraryNext

\* At the start.
LEMMA FilesInit == Init => FilesInv
<1> SUFFICES ASSUME Init PROVE FilesInv OBVIOUS
<1>0. Base /\ Store /\ seq.video \in Nat /\ seq.file \in Nat BY BaseInit DEF Base, Store, SeqSet
<1>1. PICK s \in Scenarios : videos = s.videos /\ disk = s.disk /\ seq = s.seq /\ variants = s.variants
  BY DEF Init
<1>2. LibraryStart(s) BY LibraryAssumption
<1>3. taken = {} /\ raced = {} /\ \A r \in Requests : req[r] = Idle BY DEF Init
<1> DEFINE local == {v \in Existing : IsLocal(videos[v])}
<1>4. /\ \A v \in Existing : videos[v] \in Rows /\ v \in Videos /\ videos[v].id = v /\ v < seq.video
      /\ \A v \in Existing : \A f \in FilesOf(videos[v]) :
           (f.kind = "media" /\ f.n < seq.file) \/ f \in {CoverOf(v), ThumbOf(v)}
      /\ \A v \in local : videos[v].file.kind = "media" /\ videos[v].file \in disk
      /\ \A v \in Existing, w \in local : videos[w].file \in FilesOf(videos[v]) => v = w
      /\ disk \subseteq FileSet
      /\ \A f \in disk :
           /\ f.kind \in Kinds
           /\ f.kind \in {"cover", "thumb", "variant"} => f.n < seq.video
           /\ f.kind \in {"newcover", "tmpcover"} => f.n < seq.file
           /\ f.kind = "media" => \E v \in Existing : videos[v].file = f
  <2>1. \A v \in Existing : videos[v] \in Rows /\ v \in Videos BY <1>0, ExistingAre
  <2> QED BY <1>1, <1>2, <2>1 DEF LibraryStart, Existing
<1>5. Accounted BY <1>4 DEF Accounted
<1>6. \A f \in disk : Named(f) /\ f.kind \in Kinds
  <2> SUFFICES ASSUME NEW f \in disk PROVE Named(f) /\ f.kind \in Kinds OBVIOUS
  <2>1. CASE f.kind = "media"
    <3>1. PICK v \in Existing : videos[v].file = f BY <1>4, <2>1
    <3>2. f \in FilesOf(videos[v]) BY <2>1, <3>1 DEF FilesOf, NoFile, File
    <3>3. f.n < seq.file BY <1>4, <2>1, <3>2 DEF CoverOf, ThumbOf, File
    <3> QED BY <2>1, <3>3 DEF Named, Kinds
  <2>2. CASE f.kind # "media" BY <1>4, <2>2 DEF Named
  <2> QED BY <2>1, <2>2
<1>7. \A v \in Existing : \A f \in FilesOf(videos[v]) : Named(f)
  BY <1>4 DEF Named, CoverOf, ThumbOf, File
<1>8. NamesGiven BY <1>3, <1>6, <1>7 DEF NamesGiven
<1>9. OwnedOK
  <2> SUFFICES ASSUME NEW w \in Mine, NEW f, f = videos[w].file PROVE Own(w, f) BY DEF OwnedOK
  <2>1. w \in local BY DEF Mine
  <2>2. f.kind = "media" /\ f \in disk BY <1>4, <2>1
  <2>3. \A v \in Existing \ {w} : f \notin FilesOf(videos[v]) BY <1>4, <2>1
  <2> QED BY <2>2, <2>3 DEF Own, CoverOf, ThumbOf, File
<1>10. \A r \in Requests : req[r].at \notin Special BY <1>3 DEF Idle, Special, Carrying
<1>11. \A q : q.at \notin Special => Holds(q)
  BY DEF Special, Carrying, Holds, HeldNames, ClaimsOK, Claims, SavingOK, PlacingOK, DrawingOK, DeletingOK
<1>12. \A q, p : q.at \notin Special => Apart(q, p) BY DEF Special, Carrying, Apart
<1> HIDE DEF local
<1> QED BY <1>5, <1>8, <1>9, <1>10, <1>11, <1>12 DEF FilesInv

\* Each video has a file of its own, and it is on the disk, unless it was lost there or
\* a scan adopted it from under another request.
THEOREM FilesCorrect == Spec => []EachHasItsFile
<1>1. Base /\ FilesInv => EachHasItsFile
  <2> SUFFICES ASSUME Base, FilesInv PROVE OneRowPerFile /\ RowHasFile BY DEF EachHasItsFile
  <2>1. OwnedOK BY DEF FilesInv
  <2>2. OneRowPerFile
    <3> SUFFICES ASSUME NEW v \in Existing, NEW w \in Existing, v # w, IsLocal(videos[v]),
                        videos[v].file = videos[w].file, videos[v].file \notin raced
                 PROVE  FALSE
      BY DEF OneRowPerFile
    <3>1. v \in Mine BY DEF Mine
    <3>2. Own(v, videos[v].file) BY <2>1, <3>1 DEF OwnedOK
    <3>3. videos[w].file # NoFile BY <3>2 DEF Own, NoFile, File
    <3> QED BY <3>2, <3>3 DEF Own, FilesOf
  <2>3. RowHasFile BY <2>1 DEF RowHasFile, OwnedOK, Mine, Own
  <2> QED BY <2>2, <2>3
<1>2. Init => Base /\ FilesInv BY BaseInit, FilesInit
<1>3. Base /\ FilesInv /\ [Next]_vars => Base' /\ FilesInv' BY BaseKept, FilesInvKept
<1> QED BY <1>1, <1>2, <1>3, PTL DEF Spec

\* When nothing is under way, every uploaded file on the disk belongs to a video, was
\* lost and came back, or was left by a removal that failed or by a request that was
\* dropped: neither a refused upload nor a deletion leaves one behind otherwise.
THEOREM NothingLeft == Spec => []NoOrphanMedia
<1>1. FilesInv => NoOrphanMedia
  <2> SUFFICES ASSUME FilesInv, \A r \in Requests : At(r, "idle") PROVE \A f \in disk :
                        f.kind = "media" => f \in taken \cup scene.left \/ \E v \in Existing : videos[v].file = f
    BY DEF NoOrphanMedia
  <2>1. \A f : \A r \in Requests : ~Pending(req[r], f) BY DEF At, Pending
  <2>2. Accounted BY DEF FilesInv
  <2> QED BY <2>1, <2>2 DEF Accounted
<1>2. Init => Base /\ FilesInv BY BaseInit, FilesInit
<1>3. Base /\ FilesInv /\ [Next]_vars => Base' /\ FilesInv' BY BaseKept, FilesInvKept
<1> QED BY <1>1, <1>2, <1>3, PTL DEF Spec
==============================================================================
