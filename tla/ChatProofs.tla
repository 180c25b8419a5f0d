----------------------------- MODULE ChatProofs -----------------------------
(***************************************************************************)
(* What TLAPS proves of the chat.  Of the room: the list of members and    *)
(* what the pages show, for every number of tabs, administrators and       *)
(* messages.  The invariant looks ahead: it says of each message what a    *)
(* page will show of it once the tab has taken every event that waits,     *)
(* and that this is what is stored, except while some message is on its    *)
(* way to be posted, or some removal on its way to be announced.           *)
(* Of the uploads: their files, for every number of requests, transcodes   *)
(* and dropped requests.                                                   *)
(***************************************************************************)
EXTENDS ChatRoom, ChatUploads, FiniteSetTheorems, TLAPS

SocketSteps == {"off", "subscribed", "joining", "greeting", "open", "stored", "sent", "leaving", "parting"}
Events == {Message(i) : i \in Ids} \cup {Deleted(i) : i \in Ids} \cup {Cleared} \cup {Online(us) : us \in SUBSET Users}
Socket == [at : SocketSteps, pos : Nat, post : Ids \cup {None}, counted : SUBSET Users]
Page == [at : {"closed", "asked", "loaded"}, shown : SUBSET Ids, answer : SUBSET Ids,
         touched : SUBSET Ids, online : SUBSET Users, kept : {"no", "coming", "yes"}]
Moderation == [at : {"idle", "found", "announce"}, id : Ids \cup {None}, gone : SUBSET Ids]
Excuse == [past : [Tabs -> SUBSET Ids], crossed : SUBSET Ids, gone : SUBSET Ids,
           eclipsed : SUBSET Tabs, raced : BOOLEAN, unaware : SUBSET Tabs]

\* The types of the chat room.
RoomTyped ==
  /\ room \in [open : SUBSET Tabs, joins : [Tabs -> Nat], leavers : SUBSET Tabs,
               senders : SUBSET Tabs, visits : [Tabs -> Nat], stored : Nat, removals : Nat]
  /\ DOMAIN rows \subseteq Ids
  /\ nextMessage \in Nat
  /\ members \subseteq Users
  /\ feed \in Seq(Events)
  /\ socket \in [Tabs -> Socket]
  /\ page \in [Tabs -> Page]
  /\ moderator \in [Moderators -> Moderation]
  /\ excuse \in Excuse

Connected(t) == socket[t].at \in {"subscribed", "joining", "greeting", "open", "stored", "sent"}

\* ---- the members
LastOnline(k) == /\ k \in DOMAIN feed /\ feed[k].type = "online"
                 /\ \A j \in DOMAIN feed : j > k => feed[j].type # "online"

ListRight ==
  /\ \A t \in Tabs : Listed(t) => UserOfTab(t) \in members \/ t \in excuse.eclipsed
  /\ \A u \in members : \E t \in Tabs : UserOfTab(t) = u /\ Listed(t)

\* Unless two changes overlapped, one tab at a time tells of the last one.
ToldRight == ~excuse.raced =>
  /\ \A t \in Tabs : Telling(t) => /\ \A u \in Tabs : Telling(u) => u = t
                                   /\ socket[t].at \in {"greeting", "parting"} => socket[t].counted = members
  /\ (\A t \in Tabs : ~Telling(t)) => \A k \in DOMAIN feed : LastOnline(k) => feed[k].ids = members

\* A tab that is open was told at least once, and shows what it was told last.
HeardRight == \A t \in Tabs : socket[t].at \in {"open", "stored", "sent"} =>
  /\ t \notin room.open => \E k \in DOMAIN feed : LastOnline(k)
  /\ \A k \in DOMAIN feed : LastOnline(k) /\ k <= socket[t].pos => page[t].online = feed[k].ids \/ t \in excuse.unaware

MembersRight == ListRight /\ ToldRight /\ HeardRight

\* ---- the messages
Posting(i) == \E t \in Tabs : socket[t].at = "stored" /\ socket[t].post = i
Announcing(i) == \E m \in Moderators : moderator[m].at = "announce" /\ i \in moderator[m].gone
Removes(e, i) == e = Cleared \/ e = Deleted(i)
RemovedAfter(k, i) == \E j \in DOMAIN feed : j > k /\ Removes(feed[j], i)

PostsRight ==
  /\ \A t \in Tabs : socket[t].at # "off" => socket[t].pos <= Len(feed)
  /\ \A t \in Tabs : socket[t].post # None <=> socket[t].at \in {"stored", "sent"}
  /\ \A t \in Tabs : socket[t].post # None => /\ socket[t].post \in Ids /\ socket[t].post < nextMessage
                                              /\ socket[t].post > room.stored
  /\ \A t, u \in Tabs : socket[t].post # None /\ socket[t].post = socket[u].post => t = u
  /\ \A t \in Tabs : socket[t].at = "sent" =>
       \E k \in DOMAIN feed : k > socket[t].pos /\ feed[k] = Message(socket[t].post)
  /\ \A i \in Ids : Posting(i) => ~Said(i)
  /\ \A k \in DOMAIN feed, i \in Ids : feed[k] = Message(i) => i < nextMessage
  /\ \A i \in Ids, j, k \in DOMAIN feed : feed[j] = Message(i) /\ feed[k] = Message(i) => j = k

RowsRight ==
  /\ room.stored < nextMessage
  /\ \A i \in DOMAIN rows : i < nextMessage /\ (i > room.stored => Posting(i) \/ Said(i))
  /\ \A i \in Ids : i < nextMessage /\ i \notin DOMAIN rows => Announcing(i) \/ i \in excuse.gone
  /\ \A i \in Ids : Announcing(i) \/ i \in excuse.gone => i < nextMessage /\ i \notin DOMAIN rows
  /\ \A m \in Moderators : moderator[m].at = "announce" =>
       IF moderator[m].id = None THEN \A i \in DOMAIN rows : i > room.stored
       ELSE moderator[m].gone = {moderator[m].id}
  /\ \A i \in Ids, k \in DOMAIN feed : feed[k] = Deleted(i) => i \in excuse.gone

\* of those that did not cross
AnnouncedRight ==
  \A i \in Ids \ excuse.crossed :
    /\ i \in DOMAIN rows =>
         \A k \in DOMAIN feed : Removes(feed[k], i) => Posting(i) \/ \E j \in DOMAIN feed : j > k /\ feed[j] = Message(i)
    /\ \A k \in DOMAIN feed : feed[k] = Message(i) => i \in DOMAIN rows \/ Announcing(i) \/ RemovedAfter(k, i)

Will(p, shown, i) ==
  \/ \E k \in DOMAIN feed : k > p /\ feed[k] = Message(i) /\ ~RemovedAfter(k, i)
  \/ i \in shown /\ ~RemovedAfter(p, i)
Older(i) == Cardinality({j \in Ids : j > i}) >= PageSize
Agrees(p, shown, i) ==
  /\ i \in DOMAIN rows => Will(p, shown, i) \/ Posting(i) \/ Older(i)
  /\ Will(p, shown, i) => i \in DOMAIN rows \/ Announcing(i)

\* What is on a page, or in the answer it waits for.  Of the answer the claim is about
\* what no event has touched since, or what the events left as it is in the answer.
PageOf(t) ==
  /\ page[t].at # "asked" => page[t].touched = {}
  /\ \A i \in page[t].answer : i < nextMessage
  /\ Connected(t) => \A i \in Ids \ (excuse.past[t] \cup excuse.crossed) :
       /\ page[t].at = "loaded" => Agrees(socket[t].pos, page[t].shown, i)
       /\ page[t].at = "asked" /\ (i \in page[t].touched => (i \in page[t].shown <=> i \in page[t].answer))
            => Agrees(socket[t].pos, page[t].answer, i)

PagesRight == \A t \in Tabs : PageOf(t)

-----------------------------------------------------------------------------
\* A broadcast adds one event at the end.
LEMMA FeedGrows ==
  ASSUME RoomTyped, NEW e \in Events, Broadcast(e)
  PROVE  /\ feed' \in Seq(Events)
         /\ Len(feed) \in Nat /\ Len(feed') = Len(feed) + 1
         /\ DOMAIN feed = 1..Len(feed) /\ DOMAIN feed' = 1..(Len(feed) + 1)
         /\ \A k \in DOMAIN feed : feed'[k] = feed[k]
         /\ feed'[Len(feed) + 1] = e
BY DEF RoomTyped, Broadcast

\* Records of the right type stay so when the fields that the steps set are set.
LEMMA SocketFields ==
  ASSUME NEW s \in Socket, NEW a \in SocketSteps, NEW p \in Nat, NEW q \in Ids \cup {None}, NEW c \in SUBSET Users
  PROVE  /\ [s EXCEPT !.at = a] \in Socket
         /\ [s EXCEPT !.pos = p] \in Socket
         /\ [s EXCEPT !.at = a, !.pos = p] \in Socket
         /\ [s EXCEPT !.at = a, !.post = q] \in Socket
         /\ [s EXCEPT !.at = a, !.counted = c] \in Socket
BY DEF Socket

LEMMA SocketTyped ==
  ASSUME RoomTyped, NEW t \in Tabs, NEW s \in Socket, socket' = [socket EXCEPT ![t] = s]
  PROVE  socket' \in [Tabs -> Socket]
BY DEF RoomTyped

LEMMA ModerationFields ==
  ASSUME NEW s \in Moderation, NEW a \in {"idle", "found", "announce"}, NEW q \in Ids \cup {None}, NEW g \in SUBSET Ids
  PROVE  /\ [s EXCEPT !.at = a, !.gone = g] \in Moderation
         /\ [s EXCEPT !.at = a, !.id = q] \in Moderation
         /\ [at |-> a, id |-> q, gone |-> g] \in Moderation
BY DEF Moderation

LEMMA ModeratorTyped ==
  ASSUME RoomTyped, NEW t \in Moderators, NEW s \in Moderation, moderator' = [moderator EXCEPT ![t] = s]
  PROVE  moderator' \in [Moderators -> Moderation]
BY DEF RoomTyped

LEMMA PageFields ==
  ASSUME NEW s \in Page, NEW a \in {"closed", "asked", "loaded"}, NEW S \in SUBSET Ids, NEW T \in SUBSET Ids,
         NEW us \in SUBSET Users, NEW k \in {"no", "coming", "yes"}
  PROVE  /\ [s EXCEPT !.at = a] \in Page
         /\ [s EXCEPT !.kept = k] \in Page
         /\ [s EXCEPT !.at = a, !.shown = S] \in Page
         /\ [s EXCEPT !.at = a, !.answer = S, !.kept = k] \in Page
         /\ [s EXCEPT !.at = a, !.shown = S, !.touched = T] \in Page
         /\ [s EXCEPT !.at = a, !.shown = S, !.touched = T, !.kept = k] \in Page
         /\ [s EXCEPT !.online = us, !.shown = S, !.touched = T] \in Page
<1>1. [s EXCEPT !.at = a] \in Page /\ [s EXCEPT !.kept = k] \in Page
  BY DEF Page
<1>3. [s EXCEPT !.at = a, !.shown = S] \in Page
  BY DEF Page
<1>4. [s EXCEPT !.at = a, !.answer = S, !.kept = k] \in Page
  BY DEF Page
<1>5. [s EXCEPT !.at = a, !.shown = S, !.touched = T] \in Page
  BY DEF Page
<1>6. [s EXCEPT !.at = a, !.shown = S, !.touched = T, !.kept = k] \in Page
  BY DEF Page
<1>7. [s EXCEPT !.online = us, !.shown = S, !.touched = T] \in Page
  BY DEF Page
<1> QED
  BY <1>1, <1>3, <1>4, <1>5, <1>6, <1>7

LEMMA PageTyped ==
  ASSUME RoomTyped, NEW t \in Tabs, NEW s \in Page, page' = [page EXCEPT ![t] = s]
  PROVE  page' \in [Tabs -> Page]
BY DEF RoomTyped

LEMMA ExcuseFields ==
  ASSUME NEW S \in SUBSET Ids, NEW T \in SUBSET Ids, NEW U \in SUBSET Tabs, NEW b \in BOOLEAN,
         excuse \in Excuse
  PROVE  /\ [excuse EXCEPT !.crossed = @ \cup S] \in Excuse
         /\ [excuse EXCEPT !.gone = @ \cup S, !.crossed = @ \cup T] \in Excuse
         /\ [excuse EXCEPT !.eclipsed = @ \ U, !.raced = b] \in Excuse
         /\ [excuse EXCEPT !.eclipsed = @ \cup U, !.raced = b] \in Excuse
         /\ [excuse EXCEPT !.unaware = @ \ U] \in Excuse
<1>2. [excuse EXCEPT !.crossed = @ \cup S] \in Excuse
  BY DEF Excuse
<1>3. [excuse EXCEPT !.gone = @ \cup S, !.crossed = @ \cup T] \in Excuse
  BY DEF Excuse
<1>4. [excuse EXCEPT !.eclipsed = @ \ U, !.raced = b] \in Excuse
  BY DEF Excuse
<1>5. [excuse EXCEPT !.eclipsed = @ \cup U, !.raced = b] \in Excuse
  BY DEF Excuse
<1>6. [excuse EXCEPT !.unaware = @ \ U] \in Excuse
  BY DEF Excuse
<1> QED
  BY <1>2, <1>3, <1>4, <1>5, <1>6

LEMMA PastFields ==
  ASSUME NEW t \in Tabs, NEW S \in SUBSET Ids, NEW U \in SUBSET Tabs, excuse \in Excuse
  PROVE  /\ [excuse EXCEPT !.past[t] = @ \cup S] \in Excuse
         /\ [excuse EXCEPT !.past[t] = @ \cup S, !.unaware = @ \cup U] \in Excuse
<1>1. [excuse EXCEPT !.past[t] = @ \cup S] \in Excuse
  BY DEF Excuse
<1>2. [excuse EXCEPT !.past[t] = @ \cup S, !.unaware = @ \cup U] \in Excuse
  <2> DEFINE past == [excuse.past EXCEPT ![t] = @ \cup S]
  <2>1. past \in [Tabs -> SUBSET Ids]
    BY DEF Excuse
  <2>2. [excuse EXCEPT !.past[t] = @ \cup S, !.unaware = @ \cup U]
        = [excuse EXCEPT !.past = past, !.unaware = @ \cup U]
    OBVIOUS
  <2> HIDE DEF past
  <2> QED
    BY <2>1, <2>2 DEF Excuse
<1> QED
  BY <1>1, <1>2

-----------------------------------------------------------------------------
MessagesRight == PostsRight /\ RowsRight /\ AnnouncedRight

\* Events of different kinds, and about different messages, differ.
LEMMA EventsDiffer ==
  ASSUME NEW i \in Ids
  PROVE  /\ \A j \in Ids : Message(i) = Message(j) <=> i = j
         /\ \A j \in Ids : Deleted(i) = Deleted(j) <=> i = j
         /\ \A j \in Ids : Message(i) # Deleted(j)
         /\ Message(i) # Cleared /\ Deleted(i) # Cleared
         /\ \A us \in SUBSET Users : Online(us) # Message(i) /\ Online(us) # Deleted(i) /\ Online(us) # Cleared
BY DEF Message, Deleted, Cleared, Online

LEMMA IdsAreNumbers == Ids \subseteq Nat /\ None \notin Ids /\ MaxMessages \in Nat
BY RoomAssumption DEF Ids

\* Steps that concern no message: at most the online list is broadcast.
LEMMA MessagesUntouched ==
  ASSUME RoomTyped, MessagesRight, UNCHANGED <<rows, nextMessage>>, room'.stored = room.stored,
         \A t \in Tabs : /\ socket'[t].post = socket[t].post
                         /\ \A s \in {"stored", "sent"} : socket'[t].at = s <=> socket[t].at = s
                         /\ socket'[t].at = "sent" => socket'[t].pos = socket[t].pos
                         /\ socket'[t].pos \in Nat
                         /\ socket'[t].at # "off" => socket'[t].pos <= Len(feed),
         \A m \in Moderators : /\ moderator'[m].at = "announce" <=> moderator[m].at = "announce"
                               /\ moderator[m].at = "announce" => moderator'[m] = moderator[m],
         excuse'.crossed = excuse.crossed, excuse'.gone = excuse.gone,
         \/ UNCHANGED feed
         \/ \E us \in SUBSET Users : Broadcast(Online(us))
  PROVE  MessagesRight'
<1>1. /\ Len(feed) \in Nat /\ DOMAIN feed = 1..Len(feed) /\ Len(feed') \in Nat /\ Len(feed) <= Len(feed')
      /\ DOMAIN feed' = 1..Len(feed')
      /\ \A k \in DOMAIN feed : feed'[k] = feed[k]
      /\ \A k \in DOMAIN feed' : k \in DOMAIN feed \/ \E us \in SUBSET Users : feed'[k] = Online(us)
      /\ DOMAIN feed \subseteq DOMAIN feed'
  <2>1. CASE UNCHANGED feed
    BY <2>1 DEF RoomTyped
  <2>2. CASE \E us \in SUBSET Users : Broadcast(Online(us))
    <3>1. PICK us \in SUBSET Users : Broadcast(Online(us))
      BY <2>2
    <3>2. Online(us) \in Events
      BY DEF Events
    <3> QED
      BY <3>1, <3>2, FeedGrows
  <2> QED
    BY <2>1, <2>2
<1>2. /\ \A i \in Ids, k \in DOMAIN feed' : feed'[k] = Message(i) \/ Removes(feed'[k], i) => k \in DOMAIN feed
      /\ \A i \in Ids, k \in DOMAIN feed' : feed'[k] = Deleted(i) => k \in DOMAIN feed
  BY <1>1, EventsDiffer DEF Removes
<1>3. \A i \in Ids : /\ Said(i)' <=> Said(i)
                     /\ Posting(i)' <=> Posting(i)
                     /\ Announcing(i)' <=> Announcing(i)
                     /\ \A k \in DOMAIN feed : RemovedAfter(k, i)' <=> RemovedAfter(k, i)
  BY <1>1, <1>2 DEF Said, Posting, Announcing, RemovedAfter
<1>p. \A t \in Tabs : socket[t].pos \in Nat
  BY DEF RoomTyped, Socket
<1>4. PostsRight'
  <2>1. \A t \in Tabs : socket'[t].at # "off" => socket'[t].pos <= Len(feed')
    <3>1. \A t \in Tabs : socket'[t].at # "off" => socket'[t].pos <= Len(feed) /\ Len(feed) <= Len(feed')
      BY <1>1
    <3> QED
      BY <1>1, <3>1
  <2>2. \A t \in Tabs : socket'[t].at = "sent" =>
          \E k \in DOMAIN feed' : k > socket'[t].pos /\ feed'[k] = Message(socket'[t].post)
    BY <1>1 DEF MessagesRight, PostsRight
  <2>3. \A i \in Ids : Posting(i)' => ~Said(i)'
    BY <1>3 DEF MessagesRight, PostsRight
  <2>4. \A k \in DOMAIN feed', i \in Ids : feed'[k] = Message(i) => i < nextMessage'
    BY <1>1, <1>2 DEF MessagesRight, PostsRight
  <2>5. \A i \in Ids, j, k \in DOMAIN feed' : feed'[j] = Message(i) /\ feed'[k] = Message(i) => j = k
    BY <1>1, <1>2 DEF MessagesRight, PostsRight
  <2> QED
    BY <2>1, <2>2, <2>3, <2>4, <2>5 DEF MessagesRight, PostsRight
<1>5. RowsRight'
  <2>1. DOMAIN rows \subseteq Ids
    BY DEF RoomTyped
  <2>2. \A i \in Ids, k \in DOMAIN feed' : feed'[k] = Deleted(i) => i \in excuse'.gone
    BY <1>1, <1>2 DEF MessagesRight, RowsRight
  <2> QED
    BY <1>3, <2>1, <2>2 DEF MessagesRight, RowsRight
<1>6. AnnouncedRight'
  BY <1>1, <1>2, <1>3 DEF MessagesRight, AnnouncedRight
<1> QED
  BY <1>4, <1>5, <1>6 DEF MessagesRight

\* A message is stored.
LEMMA SendKeepsMessages ==
  ASSUME RoomTyped, MessagesRight, NEW t \in Tabs, SendMessage(t)
  PROVE  MessagesRight'
<1>0. /\ socket \in [Tabs -> Socket] /\ DOMAIN rows \subseteq Ids
      /\ DOMAIN socket[t] = {"at", "pos", "post", "counted"}
      /\ nextMessage \in Nat /\ room.stored \in Nat
  BY DEF RoomTyped, Socket
<1> DEFINE n == nextMessage
<1>1. /\ UNCHANGED <<feed, moderator, excuse, room>> /\ n \in Ids /\ nextMessage' = n + 1
      /\ DOMAIN rows' = DOMAIN rows \cup {n}
  BY DEF SendMessage
<1>2. /\ socket[t].at = "open"
      /\ \A u \in Tabs : IF u = t THEN socket'[u].at = "stored" /\ socket'[u].post = n /\ socket'[u].pos = socket[u].pos
                         ELSE socket'[u] = socket[u]
  BY <1>0 DEF SendMessage
<1> HIDE DEF n
<1>3. n = nextMessage
  BY DEF n
<1>4. \A i \in Ids : /\ Said(i)' <=> Said(i)
                     /\ Posting(i)' <=> Posting(i) \/ i = n
                     /\ Announcing(i)' <=> Announcing(i)
                     /\ \A k \in DOMAIN feed : RemovedAfter(k, i)' <=> RemovedAfter(k, i)
  BY <1>1, <1>2 DEF Said, Posting, Announcing, RemovedAfter
<1>5. \A i \in Ids : i \in Nat /\ i # None
  BY IdsAreNumbers
<1>6. PostsRight'
  <2>1. ~Said(n)
    BY <1>0, <1>1, <1>3, <1>5 DEF MessagesRight, PostsRight, Said
  <2>2. \A i \in Ids : i < nextMessage => i < nextMessage'
    BY <1>0, <1>1, <1>3, <1>5
  <2>3. n < nextMessage' /\ n > room.stored
    BY <1>0, <1>1, <1>3 DEF MessagesRight, RowsRight
  <2>4. \A u \in Tabs \ {t} : socket[u].post # n
    BY <1>0, <1>1, <1>3, <1>5 DEF MessagesRight, PostsRight
  <2>5. \A i \in Ids : Posting(i)' => ~Said(i)'
    BY <1>4, <2>1 DEF MessagesRight, PostsRight
  <2>6. \A u \in Tabs : /\ socket'[u].post # None <=> socket'[u].at \in {"stored", "sent"}
                        /\ socket'[u].at # "off" => socket'[u].pos <= Len(feed)
    BY <1>1, <1>2, <1>5 DEF MessagesRight, PostsRight
  <2>7. \A u \in Tabs : socket'[u].post # None => /\ socket'[u].post \in Ids /\ socket'[u].post < nextMessage'
                                                  /\ socket'[u].post > room.stored
    BY <1>1, <1>2, <2>2, <2>3 DEF MessagesRight, PostsRight
  <2>8. \A u, w \in Tabs : socket'[u].post # None /\ socket'[u].post = socket'[w].post => u = w
    BY <1>1, <1>2, <2>4 DEF MessagesRight, PostsRight
  <2>9. \A u \in Tabs : socket'[u].at = "sent" => socket'[u] = socket[u] /\ socket[u].at = "sent"
    BY <1>2
  <2> QED
    BY <1>1, <2>2, <2>5, <2>6, <2>7, <2>8, <2>9 DEF MessagesRight, PostsRight
<1>7. RowsRight'
  <2>1. room.stored < nextMessage' /\ n > room.stored /\ n < nextMessage'
    BY <1>0, <1>1, <1>3 DEF MessagesRight, RowsRight
  <2>2. \A i \in Ids : i < nextMessage' <=> i < nextMessage \/ i = n
    BY <1>0, <1>1, <1>3, <1>5
  <2>3. ~(n < n)
    BY <1>1, <1>5
  <2> QED
    BY <1>0, <1>1, <1>3, <1>4, <2>1, <2>2, <2>3 DEF MessagesRight, RowsRight
<1>8. AnnouncedRight'
  BY <1>0, <1>1, <1>4 DEF MessagesRight, AnnouncedRight
<1> QED
  BY <1>6, <1>7, <1>8 DEF MessagesRight

\* It is broadcast.
LEMMA BroadcastEffects ==
  ASSUME RoomTyped, MessagesRight, NEW t \in Tabs, BroadcastMessage(t), NEW n, n = socket[t].post
  PROVE  /\ UNCHANGED <<rows, nextMessage, moderator, room, page>> /\ Broadcast(Message(n))
         /\ excuse'.crossed = excuse.crossed \cup ({n} \cap excuse.gone) /\ excuse'.gone = excuse.gone
         /\ excuse'.past = excuse.past
         /\ socket[t].at = "stored"
         /\ \A u \in Tabs : IF u = t THEN socket'[u].at = "sent" /\ socket'[u].post = n /\ socket'[u].pos = socket[u].pos
                            ELSE socket'[u] = socket[u]
         /\ n \in Ids /\ n < nextMessage /\ Posting(n) /\ ~Said(n) /\ \A u \in Tabs : socket[u].post = n => u = t
         /\ Len(feed) \in Nat /\ DOMAIN feed = 1..Len(feed) /\ Len(feed') = Len(feed) + 1
         /\ DOMAIN feed' = 1..(Len(feed) + 1)
         /\ \A k \in DOMAIN feed : feed'[k] = feed[k]
         /\ feed'[Len(feed) + 1] = Message(n)
         /\ \A i \in Ids : /\ Said(i)' <=> Said(i) \/ i = n
                           /\ Posting(i)' <=> Posting(i) /\ i # n
                           /\ Announcing(i)' <=> Announcing(i)
                           /\ \A k \in Nat : RemovedAfter(k, i)' <=> RemovedAfter(k, i)
         /\ \A i \in Ids, k \in DOMAIN feed' :
              /\ feed'[k] = Message(i) => (k \in DOMAIN feed /\ feed[k] = Message(i)) \/ (k = Len(feed) + 1 /\ i = n)
              /\ Removes(feed'[k], i) => k \in DOMAIN feed /\ Removes(feed[k], i)
              /\ feed'[k] = Deleted(i) => k \in DOMAIN feed /\ feed[k] = Deleted(i)
<1>0. /\ socket \in [Tabs -> Socket] /\ DOMAIN rows \subseteq Ids
      /\ DOMAIN socket[t] = {"at", "pos", "post", "counted"} /\ socket[t].pos \in Nat
      /\ DOMAIN excuse = {"past", "crossed", "gone", "eclipsed", "raced", "unaware"}
  BY DEF RoomTyped, Socket, Excuse
<1>1. /\ UNCHANGED <<rows, nextMessage, moderator, room, page>> /\ Broadcast(Message(n))
      /\ excuse'.crossed = excuse.crossed \cup ({n} \cap excuse.gone) /\ excuse'.gone = excuse.gone
      /\ excuse'.past = excuse.past
  BY <1>0 DEF BroadcastMessage
<1>2. /\ socket[t].at = "stored"
      /\ \A u \in Tabs : IF u = t THEN socket'[u].at = "sent" /\ socket'[u].post = n /\ socket'[u].pos = socket[u].pos
                         ELSE socket'[u] = socket[u]
  BY <1>0 DEF BroadcastMessage
<1>3. n \in Ids /\ n < nextMessage /\ Posting(n) /\ ~Said(n) /\ \A u \in Tabs : socket[u].post = n => u = t
  BY <1>2, IdsAreNumbers DEF MessagesRight, PostsRight, Posting
<1>5. /\ Message(n) \in Events
      /\ \A i \in Ids : Message(i) = Message(n) <=> i = n
      /\ \A i \in Ids : ~Removes(Message(n), i) /\ Message(n) # Deleted(i)
  BY <1>3, EventsDiffer DEF Events, Removes
<1>6. /\ Len(feed) \in Nat /\ DOMAIN feed = 1..Len(feed) /\ Len(feed') = Len(feed) + 1
      /\ DOMAIN feed' = 1..(Len(feed) + 1)
      /\ \A k \in DOMAIN feed : feed'[k] = feed[k]
      /\ feed'[Len(feed) + 1] = Message(n)
  BY <1>1, <1>5, FeedGrows
<1>7. \A i \in Ids : /\ Said(i)' <=> Said(i) \/ i = n
                     /\ Posting(i)' <=> Posting(i) /\ i # n
                     /\ Announcing(i)' <=> Announcing(i)
                     /\ \A k \in Nat : RemovedAfter(k, i)' <=> RemovedAfter(k, i)
  <2>1. ASSUME NEW i \in Ids PROVE Said(i)' <=> Said(i) \/ i = n
    BY <1>5, <1>6 DEF Said
  <2>2. ASSUME NEW i \in Ids PROVE Posting(i)' <=> Posting(i) /\ i # n
    BY <1>2, <1>3, <1>2 DEF Posting
  <2>3. ASSUME NEW i \in Ids PROVE Announcing(i)' <=> Announcing(i)
    BY <1>1 DEF Announcing
  <2>4. ASSUME NEW i \in Ids, NEW k \in Nat PROVE RemovedAfter(k, i)' <=> RemovedAfter(k, i)
    BY <1>5, <1>6 DEF RemovedAfter
  <2> QED
    BY <2>1, <2>2, <2>3, <2>4
<1>8. \A i \in Ids, k \in DOMAIN feed' : /\ feed'[k] = Message(i) => (k \in DOMAIN feed /\ feed[k] = Message(i)) \/ (k = Len(feed) + 1 /\ i = n)
                                         /\ Removes(feed'[k], i) => k \in DOMAIN feed /\ Removes(feed[k], i)
                                         /\ feed'[k] = Deleted(i) => k \in DOMAIN feed /\ feed[k] = Deleted(i)
  BY <1>5, <1>6
<1> QED
  BY <1>1, <1>2, <1>3, <1>6, <1>7, <1>8

\* It was stored and not announced, so it may be gone already: then it crossed.
LEMMA BroadcastKeepsMessages ==
  ASSUME RoomTyped, MessagesRight, NEW t \in Tabs, BroadcastMessage(t)
  PROVE  MessagesRight'
<1>0. DOMAIN rows \subseteq Ids /\ DOMAIN feed \subseteq Nat /\ socket[t].pos \in Nat
  BY DEF RoomTyped, Socket
<1>4. PICK n : n = socket[t].post
  OBVIOUS
<1>1. /\ UNCHANGED <<rows, nextMessage, moderator, room>> /\ Broadcast(Message(n))
      /\ excuse'.crossed = excuse.crossed \cup ({n} \cap excuse.gone) /\ excuse'.gone = excuse.gone
  BY <1>0, <1>4, BroadcastEffects
<1>2. /\ socket[t].at = "stored"
      /\ \A u \in Tabs : IF u = t THEN socket'[u].at = "sent" /\ socket'[u].post = n /\ socket'[u].pos = socket[u].pos
                         ELSE socket'[u] = socket[u]
  BY <1>0, <1>4, BroadcastEffects
<1>3. n \in Ids /\ n < nextMessage /\ Posting(n) /\ ~Said(n) /\ \A u \in Tabs : socket[u].post = n => u = t
  BY <1>0, <1>4, BroadcastEffects
<1>6. /\ Len(feed) \in Nat /\ DOMAIN feed = 1..Len(feed) /\ Len(feed') = Len(feed) + 1
      /\ DOMAIN feed' = 1..(Len(feed) + 1)
      /\ \A k \in DOMAIN feed : feed'[k] = feed[k]
      /\ feed'[Len(feed) + 1] = Message(n)
  BY <1>0, <1>4, BroadcastEffects
<1>7. \A i \in Ids : /\ Said(i)' <=> Said(i) \/ i = n
                     /\ Posting(i)' <=> Posting(i) /\ i # n
                     /\ Announcing(i)' <=> Announcing(i)
                     /\ \A k \in DOMAIN feed : RemovedAfter(k, i)' <=> RemovedAfter(k, i)
  BY <1>0, <1>4, BroadcastEffects
<1>8. \A i \in Ids, k \in DOMAIN feed' : /\ feed'[k] = Message(i) => (k \in DOMAIN feed /\ feed[k] = Message(i)) \/ (k = Len(feed) + 1 /\ i = n)
                                         /\ Removes(feed'[k], i) => k \in DOMAIN feed /\ Removes(feed[k], i)
                                         /\ feed'[k] = Deleted(i) => k \in DOMAIN feed /\ feed[k] = Deleted(i)
  BY <1>0, <1>4, BroadcastEffects
<1>9. PostsRight'
  <2>1. \A u \in Tabs : socket'[u].at # "off" => socket'[u].pos <= Len(feed')
    <3>1. \A u \in Tabs : socket[u].pos \in Nat
      BY DEF RoomTyped, Socket
    <3>2. \A u \in Tabs : socket'[u].at # "off" => socket'[u].pos = socket[u].pos /\ socket[u].pos <= Len(feed)
      BY <1>2 DEF MessagesRight, PostsRight
    <3> QED
      BY <1>6, <3>1, <3>2
  <2>2. ASSUME NEW u \in Tabs, socket'[u].at = "sent"
        PROVE  \E k \in DOMAIN feed' : k > socket'[u].pos /\ feed'[k] = Message(socket'[u].post)
    <3>1. CASE u = t
      <4>1. socket[t].pos <= Len(feed)
        BY <1>2 DEF MessagesRight, PostsRight
      <4> QED
        BY <1>0, <1>2, <1>6, <3>1, <4>1
    <3>2. CASE u # t
      BY <1>2, <1>6, <2>2, <3>2 DEF MessagesRight, PostsRight
    <3> QED
      BY <3>1, <3>2
  <2>3. \A i \in Ids : Posting(i)' => ~Said(i)'
    BY <1>7 DEF MessagesRight, PostsRight
  <2>4. \A k \in DOMAIN feed', i \in Ids : feed'[k] = Message(i) => i < nextMessage'
    BY <1>1, <1>3, <1>8 DEF MessagesRight, PostsRight
  <2>5. ASSUME NEW i \in Ids, NEW j \in DOMAIN feed', NEW k \in DOMAIN feed', feed'[j] = Message(i), feed'[k] = Message(i)
        PROVE  j = k
    <3>1. CASE i = n
      BY <1>3, <1>8, <2>5, <3>1 DEF Said
    <3>2. CASE i # n
      BY <1>8, <2>5, <3>2 DEF MessagesRight, PostsRight
    <3> QED
      BY <3>1, <3>2
  <2>6. \A u, w \in Tabs : socket'[u].post # None /\ socket'[u].post = socket'[w].post => u = w
    BY <1>2, <1>4 DEF MessagesRight, PostsRight
  <2>7. \A u \in Tabs : socket'[u].post # None <=> socket'[u].at \in {"stored", "sent"}
    BY <1>2, <1>4 DEF MessagesRight, PostsRight
  <2>8. \A u \in Tabs : socket'[u].post # None => /\ socket'[u].post \in Ids /\ socket'[u].post < nextMessage'
                                                  /\ socket'[u].post > room'.stored
    BY <1>1, <1>2, <1>4 DEF MessagesRight, PostsRight
  <2> QED
    BY <2>1, <2>2, <2>3, <2>4, <2>5, <2>6, <2>7, <2>8 DEF PostsRight
<1>10. RowsRight'
  BY <1>0, <1>1, <1>7, <1>8 DEF MessagesRight, RowsRight
<1>11. AnnouncedRight'
  <2>1. ASSUME NEW i \in Ids \ excuse'.crossed, i \in DOMAIN rows, NEW k \in DOMAIN feed', Removes(feed'[k], i)
        PROVE  Posting(i)' \/ \E j \in DOMAIN feed' : j > k /\ feed'[j] = Message(i)
    <3>1. k \in DOMAIN feed /\ Removes(feed[k], i)
      BY <1>8, <2>1
    <3>2. Posting(i) \/ \E j \in DOMAIN feed : j > k /\ feed[j] = Message(i)
      BY <1>1, <2>1, <3>1 DEF MessagesRight, AnnouncedRight
    <3> QED
      BY <1>6, <1>7, <3>1, <3>2
  <2>2. ASSUME NEW i \in Ids \ excuse'.crossed, NEW k \in DOMAIN feed', feed'[k] = Message(i)
        PROVE  i \in DOMAIN rows \/ Announcing(i)' \/ RemovedAfter(k, i)'
    <3>1. CASE k \in DOMAIN feed /\ feed[k] = Message(i)
      BY <1>1, <1>7, <2>2, <3>1 DEF MessagesRight, AnnouncedRight
    <3>2. CASE i = n
      BY <1>1, <1>3, <1>7, <2>2, <3>2 DEF MessagesRight, RowsRight
    <3> QED
      BY <1>8, <2>2, <3>1, <3>2
  <2> QED
    BY <1>1, <2>1, <2>2 DEF AnnouncedRight
<1> QED
  BY <1>9, <1>10, <1>11 DEF MessagesRight

\* What the page makes of an event has the right type.
LEMMA DeliverTyped ==
  ASSUME RoomTyped, NEW t \in Tabs, NEW e \in Events, Deliver(t, e)
  PROVE  page' \in [Tabs -> Page]
<1>1. page[t] \in Page
  BY DEF RoomTyped
<1>2. /\ e.type \in {"message", "deleted"} => e.ids \in SUBSET Ids
      /\ e.type = "online" => e.ids \in SUBSET Users
      /\ e.type \in {"message", "deleted", "cleared", "online"}
  BY DEF Events, Message, Deleted, Cleared, Online
<1> DEFINE shown == IF page[t].at = "closed" THEN page[t].shown ELSE Applied(page[t].shown, e)
           online == IF e.type = "online" THEN e.ids ELSE page[t].online
           touched == IF page[t].at # "asked" THEN {} ELSE IF e.type = "cleared" THEN Ids
                      ELSE page[t].touched \cup IF e.type = "online" THEN {} ELSE e.ids
<1>3. shown \in SUBSET Ids
  BY <1>1, <1>2 DEF Applied, Page
<1>4. touched \in SUBSET Ids
  BY <1>1, <1>2 DEF Page
<1>5. online \in SUBSET Users
  BY <1>1, <1>2 DEF Page
<1>6. page' = [page EXCEPT ![t] = [page[t] EXCEPT !.online = online, !.shown = shown, !.touched = touched]]
  BY DEF Deliver
<1> HIDE DEF shown, online, touched
<1>7. [page[t] EXCEPT !.online = online, !.shown = shown, !.touched = touched] \in Page
  BY <1>1, <1>3, <1>4, <1>5, PageFields
<1> QED
  BY <1>6, <1>7, PageTyped

History(t) == \/ FetchHistory(t) \/ Reopen(t) \/ ShowHistory(t)
              \/ KeepHistory(t) \/ ClosePage(t) \/ Expire(t)

\* What a tab does about its history concerns its own page, and what went past it.
LEMMA HistoryOnly ==
  ASSUME RoomTyped, NEW t \in Tabs, History(t)
  PROVE  /\ UNCHANGED <<rows, nextMessage, feed, members, socket, moderator>>
         /\ room'.open = room.open /\ room'.stored = room.stored
         /\ excuse'.crossed = excuse.crossed /\ excuse'.gone = excuse.gone
         /\ excuse'.eclipsed = excuse.eclipsed /\ excuse'.raced = excuse.raced /\ excuse'.unaware = excuse.unaware
         /\ \A u \in Tabs : excuse.past[u] \subseteq excuse'.past[u]
         /\ \A u \in Tabs \ {t} : page'[u] = page[u]
         /\ \A u \in Tabs : page'[u].online = page[u].online
<1>0. /\ DOMAIN page = Tabs /\ DOMAIN page[t] = {"at", "shown", "answer", "touched", "online", "kept"}
      /\ DOMAIN excuse = {"past", "crossed", "gone", "eclipsed", "raced", "unaware"}
      /\ excuse.past \in [Tabs -> SUBSET Ids]
      /\ DOMAIN room = {"open", "joins", "leavers", "senders", "visits", "stored", "removals"}
  BY DEF RoomTyped, Page, Excuse
<1>1. UNCHANGED <<rows, nextMessage, feed, members, socket, moderator>>
  BY DEF History, FetchHistory, Reopen, ShowHistory, KeepHistory, ClosePage, Expire
<1>2. room'.open = room.open /\ room'.stored = room.stored
  BY <1>0 DEF History, FetchHistory, Reopen, ShowHistory, KeepHistory, ClosePage, Expire, Visit
<1>3. UNCHANGED excuse \/ \E S : excuse' = [excuse EXCEPT !.past[t] = @ \cup S]
  BY DEF History, FetchHistory, Reopen, ShowHistory, KeepHistory, ClosePage, Expire
<1>4. /\ excuse'.crossed = excuse.crossed /\ excuse'.gone = excuse.gone
      /\ excuse'.eclipsed = excuse.eclipsed /\ excuse'.raced = excuse.raced /\ excuse'.unaware = excuse.unaware
      /\ \A u \in Tabs : excuse.past[u] \subseteq excuse'.past[u]
  <2>1. ASSUME NEW S, excuse' = [excuse EXCEPT !.past[t] = @ \cup S]
        PROVE  /\ excuse'.past = [excuse.past EXCEPT ![t] = @ \cup S]
               /\ excuse'.crossed = excuse.crossed /\ excuse'.gone = excuse.gone
               /\ excuse'.eclipsed = excuse.eclipsed /\ excuse'.raced = excuse.raced /\ excuse'.unaware = excuse.unaware
    BY <1>0, <2>1
  <2>2. CASE UNCHANGED excuse
    BY <2>2
  <2>3. CASE \E S : excuse' = [excuse EXCEPT !.past[t] = @ \cup S]
    <3>1. PICK S : excuse' = [excuse EXCEPT !.past[t] = @ \cup S]
      BY <2>3
    <3>2. \A u \in Tabs : excuse.past[u] \subseteq excuse'.past[u]
      BY <1>0, <2>1, <3>1
    <3> QED
      BY <2>1, <3>1, <3>2
  <2> QED
    BY <1>3, <2>2, <2>3
<1>5. /\ \A u \in Tabs \ {t} : page'[u] = page[u]
      /\ page'[t].online = page[t].online
  <2>1. CASE FetchHistory(t)
    BY <1>0, <2>1 DEF FetchHistory
  <2>2. CASE Reopen(t)
    BY <1>0, <2>2 DEF Reopen
  <2>3. CASE ShowHistory(t)
    <3>1. page' = [page EXCEPT ![t] = [page[t] EXCEPT !.at = "loaded", !.shown = page[t].answer, !.touched = {}, !.kept = "yes"]]
      BY <2>3 DEF ShowHistory
    <3> QED
      BY <1>0, <3>1
  <2>4. CASE KeepHistory(t) \/ Expire(t)
    BY <1>0, <2>4 DEF KeepHistory, Expire
  <2>5. CASE ClosePage(t)
    BY <1>0, <2>5 DEF ClosePage
  <2> QED
    BY <2>1, <2>2, <2>3, <2>4, <2>5 DEF History
<1> QED
  BY <1>1, <1>2, <1>4, <1>5

\* Every step keeps the types.
LEMMA TypesKept ==
  ASSUME RoomTyped, PostsRight, [ChatNext]_chatVars
  PROVE  RoomTyped'
<1>0. /\ room \in [open : SUBSET Tabs, joins : [Tabs -> Nat], leavers : SUBSET Tabs,
                   senders : SUBSET Tabs, visits : [Tabs -> Nat], stored : Nat, removals : Nat]
      /\ DOMAIN rows \subseteq Ids /\ nextMessage \in Nat /\ members \subseteq Users
      /\ feed \in Seq(Events) /\ Len(feed) \in Nat
      /\ socket \in [Tabs -> Socket] /\ page \in [Tabs -> Page]
      /\ moderator \in [Moderators -> Moderation] /\ excuse \in Excuse
  BY DEF RoomTyped
<1>s. /\ \A t \in Tabs : /\ socket[t] \in Socket /\ socket[t].counted \in SUBSET Users
                         /\ page[t] \in Page /\ page[t].shown \in SUBSET Ids /\ page[t].answer \in SUBSET Ids
                         /\ page[t].touched \in SUBSET Ids
      /\ \A m \in Moderators : moderator[m] \in Moderation
  BY <1>0 DEF Socket, Page
<1>n. {"off", "subscribed", "joining", "greeting", "open", "stored", "sent", "leaving", "parting"} = SocketSteps
  BY DEF SocketSteps
<1>1. CASE UNCHANGED chatVars
  BY <1>1 DEF chatVars, RoomTyped
<1>2. ASSUME NEW t \in Tabs, Subscribe(t) PROVE RoomTyped'
  <2> DEFINE basis == CASE page[t].at = "closed" -> DOMAIN rows
                        [] page[t].at = "asked" -> page[t].answer
                        [] OTHER -> page[t].shown
             joins == [room.joins EXCEPT ![t] = @ - 1]
  <2>1. basis \in SUBSET Ids
    BY <1>0, <1>s
  <2>2. Differ(basis, DOMAIN rows) \in SUBSET Ids
    BY <1>0, <2>1 DEF Differ
  <2>3. excuse' = [excuse EXCEPT !.past[t] = @ \cup Differ(basis, DOMAIN rows)]
    BY <1>2 DEF Subscribe
  <2>4. joins \in [Tabs -> Nat]
    BY <1>0, <1>2 DEF Subscribe
  <2>5. room' = [room EXCEPT !.joins = joins]
    BY <1>2 DEF Subscribe
  <2> HIDE DEF basis, joins
  <2>6. excuse' \in Excuse
    BY <1>0, <2>2, <2>3, PastFields
  <2>7. room' \in [open : SUBSET Tabs, joins : [Tabs -> Nat], leavers : SUBSET Tabs,
                   senders : SUBSET Tabs, visits : [Tabs -> Nat], stored : Nat, removals : Nat]
    BY <1>0, <2>4, <2>5
  <2>8. [socket[t] EXCEPT !.at = "subscribed", !.pos = Len(feed)] \in Socket
    BY <1>0, <1>s, <1>n, SocketFields
  <2>9. socket' \in [Tabs -> Socket]
    BY <1>2, <2>8, SocketTyped DEF Subscribe
  <2> QED
    BY <1>0, <1>2, <2>6, <2>7, <2>9 DEF Subscribe, RoomTyped
<1>3. ASSUME NEW t \in Tabs, Register(t) \/ Leave(t) PROVE RoomTyped'
  <2>1. UserOfTab(t) \in Users /\ members \ {UserOfTab(t)} \subseteq Users
    BY <1>0 DEF Users
  <2>2. \E a \in SocketSteps : socket' = [socket EXCEPT ![t].at = a]
    BY <1>3, <1>n DEF Register, Leave
  <2>3. socket' \in [Tabs -> Socket]
    BY <1>s, <2>2, SocketFields, SocketTyped
  <2>4. Overlap(t) \in BOOLEAN /\ excuse.raced \in BOOLEAN
    BY <1>0 DEF Overlap, Excuse
  <2>5. excuse' \in Excuse
    <3>1. CASE Register(t)
      <4> DEFINE U == {u \in Tabs : UserOfTab(u) = UserOfTab(t)}
                 b == Overlap(t)
      <4>1. excuse' = [excuse EXCEPT !.eclipsed = @ \ U, !.raced = b]
        BY <3>1 DEF Register
      <4>2. U \in SUBSET Tabs /\ b \in BOOLEAN
        BY <2>4
      <4> HIDE DEF U, b
      <4> QED
        BY <1>0, <4>1, <4>2, ExcuseFields
    <3>2. CASE Leave(t)
      <4> DEFINE U == {u \in Tabs \ {t} : Listed(u) /\ UserOfTab(u) = UserOfTab(t)}
                 b == IF UserOfTab(t) \in members THEN Overlap(t) ELSE excuse.raced
      <4>1. excuse' = [excuse EXCEPT !.eclipsed = @ \cup U, !.raced = b]
        BY <3>2 DEF Leave
      <4>2. U \in SUBSET Tabs /\ b \in BOOLEAN
        BY <2>4
      <4> HIDE DEF U, b
      <4> QED
        BY <1>0, <4>1, <4>2, ExcuseFields
    <3> QED
      BY <1>3, <3>1, <3>2
  <2> QED
    BY <1>0, <1>3, <2>1, <2>3, <2>5 DEF Register, Leave, Remain, RoomTyped
<1>4. ASSUME NEW t \in Tabs, ReadMembers(t) PROVE RoomTyped'
  <2>1. \E a \in SocketSteps : socket' = [socket EXCEPT ![t] = [@ EXCEPT !.at = a, !.counted = members]]
    BY <1>4, <1>n DEF ReadMembers
  <2>2. socket' \in [Tabs -> Socket]
    BY <1>0, <1>s, <2>1, SocketFields, SocketTyped
  <2> QED
    BY <1>0, <1>4, <2>2 DEF ReadMembers, RoomTyped
<1>5. ASSUME NEW t \in Tabs, SendOnline(t) PROVE RoomTyped'
  <2>1. Online(socket[t].counted) \in Events
    BY <1>s DEF Events
  <2>2. \E a \in SocketSteps : socket' = [socket EXCEPT ![t] = [@ EXCEPT !.at = a, !.counted = {}]]
    BY <1>5, <1>n DEF SendOnline
  <2>3. {} \in SUBSET Users
    OBVIOUS
  <2>4. socket' \in [Tabs -> Socket]
    BY <1>s, <2>2, <2>3, SocketFields, SocketTyped
  <2>5. feed' \in Seq(Events)
    BY <1>5, <2>1, FeedGrows DEF SendOnline
  <2> QED
    BY <1>0, <1>5, <2>4, <2>5 DEF SendOnline, RoomTyped
<1>6. ASSUME NEW t \in Tabs, SendMessage(t) PROVE RoomTyped'
  <2>1. [socket[t] EXCEPT !.at = "stored", !.post = nextMessage] \in Socket
    BY <1>6, <1>s, <1>n, SocketFields DEF SendMessage
  <2>2. socket' \in [Tabs -> Socket]
    BY <1>6, <2>1, SocketTyped DEF SendMessage
  <2>3. DOMAIN rows' \subseteq Ids
    BY <1>0, <1>6 DEF SendMessage
  <2> QED
    BY <1>0, <1>6, <2>2, <2>3 DEF SendMessage, RoomTyped
<1>7. ASSUME NEW t \in Tabs, BroadcastMessage(t) PROVE RoomTyped'
  <2>1. socket[t].post \in Ids
    BY <1>7 DEF BroadcastMessage, PostsRight
  <2>2. Message(socket[t].post) \in Events
    BY <2>1 DEF Events
  <2>3. [socket[t] EXCEPT !.at = "sent"] \in Socket
    BY <1>s, <1>n, SocketFields
  <2>4. socket' \in [Tabs -> Socket]
    BY <1>7, <2>3, SocketTyped DEF BroadcastMessage
  <2>5. feed' \in Seq(Events)
    BY <1>7, <2>2, FeedGrows DEF BroadcastMessage
  <2>6. excuse' \in Excuse
    <3> DEFINE S == {socket[t].post} \cap excuse.gone
    <3>1. excuse' = [excuse EXCEPT !.crossed = @ \cup S]
      BY <1>7 DEF BroadcastMessage
    <3>2. S \in SUBSET Ids
      BY <2>1
    <3> HIDE DEF S
    <3> QED
      BY <1>0, <1>7, <3>1, <3>2, ExcuseFields
  <2> QED
    BY <1>0, <1>7, <2>4, <2>5, <2>6 DEF BroadcastMessage, RoomTyped
<1>8. ASSUME NEW t \in Tabs, Reply(t) PROVE RoomTyped'
  <2>1. socket[t].post \in Ids
    BY <1>8 DEF Reply, PostsRight
  <2>2. Message(socket[t].post) \in Events
    BY <2>1 DEF Events
  <2>3. None \in Ids \cup {None} /\ "open" \in SocketSteps
    BY <1>n
  <2>4. [socket[t] EXCEPT !.at = "open", !.post = None] \in Socket
    BY <1>s, <2>3, SocketFields
  <2>5. socket' \in [Tabs -> Socket]
    BY <1>8, <2>4, SocketTyped DEF Reply
  <2>6. page' \in [Tabs -> Page]
    BY <1>8, <2>2, DeliverTyped DEF Reply
  <2> QED
    BY <1>0, <1>8, <2>5, <2>6 DEF Reply, RoomTyped
<1>9. ASSUME NEW t \in Tabs, Lagged(t) PROVE RoomTyped'
  <2> DEFINE skipped == {feed[k] : k \in socket[t].pos + 1 .. Len(feed) - Capacity}
             S == (UNION {e.ids : e \in {x \in skipped : x.type # "online"}})
                    \cup IF Cleared \in skipped THEN excuse.gone \cup page[t].shown ELSE {}
             U == {u \in {t} : \E e \in skipped : e.type = "online"}
  <2>1. /\ Resume(t) \in Nat /\ socket[t].pos \in Nat /\ Capacity \in Nat
        /\ Len(feed) - socket[t].pos > Capacity
    BY <1>0, <1>s, <1>9, RoomAssumption DEF Lagged, Behind, Resume, Socket
  <2>2. skipped \subseteq Events
    BY <1>0, <2>1
  <2>3. \A e \in Events : e.type # "online" => e.ids \subseteq Ids
    BY DEF Events, Message, Deleted, Cleared, Online
  <2>4. S \in SUBSET Ids
    <3>1. excuse.gone \in SUBSET Ids
      BY <1>0 DEF Excuse
    <3>2. (IF Cleared \in skipped THEN excuse.gone \cup page[t].shown ELSE {}) \in SUBSET Ids
      BY <1>s, <3>1
    <3> HIDE DEF skipped
    <3>3. UNION {e.ids : e \in {x \in skipped : x.type # "online"}} \in SUBSET Ids
      BY <2>2, <2>3
    <3> QED
      BY <3>2, <3>3
  <2>5. U \in SUBSET Tabs
    OBVIOUS
  <2> HIDE DEF skipped
  <2>6. excuse' = [excuse EXCEPT !.past[t] = @ \cup S, !.unaware = @ \cup U]
    <3> DEFINE lost == UNION {e.ids : e \in {x \in skipped : x.type # "online"}}
               more == IF Cleared \in skipped THEN excuse.gone \cup page[t].shown ELSE {}
    <3>1. excuse' = [excuse EXCEPT !.past[t] = @ \cup lost \cup more, !.unaware = @ \cup U]
      BY <1>9 DEF Lagged, skipped
    <3>s. S = lost \cup more
      OBVIOUS
    <3> HIDE DEF lost, more, S, U
    <3>2. excuse.past[t] \cup lost \cup more = excuse.past[t] \cup S
      BY <3>s
    <3> QED
      BY <3>1, <3>2
  <2> HIDE DEF S, U
  <2>7. excuse' \in Excuse
    BY <1>0, <2>4, <2>5, <2>6, PastFields
  <2>8. [socket[t] EXCEPT !.pos = Resume(t)] \in Socket
    BY <1>s, <1>n, <2>1, SocketFields
  <2>9. socket' \in [Tabs -> Socket]
    BY <1>9, <1>s, <2>8, SocketTyped DEF Lagged
  <2> QED
    BY <1>0, <1>9, <2>7, <2>9 DEF Lagged, RoomTyped
<1>10. ASSUME NEW t \in Tabs, Receive(t) PROVE RoomTyped'
  <2>1. /\ socket[t].pos + 1 \in Nat
        /\ feed[socket[t].pos + 1] \in Events
    BY <1>0, <1>s, <1>10 DEF Receive, Socket
  <2>2. page' \in [Tabs -> Page]
    BY <1>10, <2>1, DeliverTyped DEF Receive
  <2>3. [socket[t] EXCEPT !.pos = socket[t].pos + 1] \in Socket
    BY <1>s, <2>1 DEF Socket
  <2>4. socket' \in [Tabs -> Socket]
    BY <1>10, <1>s, <2>3, SocketTyped DEF Receive
  <2>5. excuse' \in Excuse
    <3>1. {t} \in SUBSET Tabs
      OBVIOUS
    <3> QED
      BY <1>0, <1>10, <3>1, ExcuseFields DEF Receive
  <2> QED
    BY <1>0, <1>10, <2>2, <2>4, <2>5 DEF Receive, RoomTyped
<1>11. ASSUME NEW t \in Tabs, History(t) PROVE RoomTyped'
  <2>1. Newest(DOMAIN rows) \in SUBSET Ids /\ {} \in SUBSET Ids
    BY <1>0 DEF Newest
  <2>2. \E g \in Page : page' = [page EXCEPT ![t] = g]
    <3>1. CASE FetchHistory(t)
      <4>1. [page[t] EXCEPT !.at = "asked", !.answer = Newest(DOMAIN rows), !.kept = "coming"] \in Page
        BY <1>s, <2>1, PageFields
      <4> QED
        BY <3>1, <4>1 DEF FetchHistory
    <3>2. CASE Reopen(t)
      <4>1. [page[t] EXCEPT !.at = "loaded", !.shown = page[t].answer] \in Page /\ [page[t] EXCEPT !.at = "asked"] \in Page
        BY <1>s, PageFields
      <4> QED
        BY <3>2, <4>1 DEF Reopen
    <3>3. CASE ShowHistory(t)
      <4>1. [page[t] EXCEPT !.at = "loaded", !.shown = page[t].answer, !.touched = {}, !.kept = "yes"] \in Page
        BY <1>s, <2>1, PageFields
      <4> QED
        BY <3>3, <4>1 DEF ShowHistory
    <3>4. CASE KeepHistory(t)
      <4>1. [page[t] EXCEPT !.kept = "yes"] \in Page
        BY <1>s, PageFields
      <4> QED
        BY <3>4, <4>1 DEF KeepHistory
    <3>5. CASE ClosePage(t)
      <4>1. [page[t] EXCEPT !.at = "closed", !.shown = {}, !.touched = {}] \in Page
        BY <1>s, <2>1, PageFields
      <4> QED
        BY <3>5, <4>1 DEF ClosePage
    <3>6. CASE Expire(t)
      <4>1. [page[t] EXCEPT !.kept = "no"] \in Page
        BY <1>s, PageFields
      <4> QED
        BY <3>6, <4>1 DEF Expire
    <3> QED
      BY <1>11, <3>1, <3>2, <3>3, <3>4, <3>5, <3>6 DEF History
  <2>3. page' \in [Tabs -> Page]
    BY <2>2, PageTyped
  <2>4. excuse' \in Excuse
    <3>1. PICK S \in SUBSET Ids : S = page[t].touched \cap Differ(page[t].shown, page[t].answer)
      BY <1>s
    <3>2. PICK T \in SUBSET Ids : T = Differ(page[t].answer, DOMAIN rows)
      BY <1>0, <1>s DEF Differ
    <3>3. \/ UNCHANGED excuse
          \/ excuse' = [excuse EXCEPT !.past[t] = @ \cup S]
          \/ excuse' = [excuse EXCEPT !.past[t] = @ \cup T]
      BY <1>11, <3>1, <3>2 DEF History, FetchHistory, Reopen, ShowHistory, KeepHistory, ClosePage, Expire
    <3> QED
      BY <1>0, <3>3, PastFields
  <2>5. room' \in [open : SUBSET Tabs, joins : [Tabs -> Nat], leavers : SUBSET Tabs,
                   senders : SUBSET Tabs, visits : [Tabs -> Nat], stored : Nat, removals : Nat]
    <3>1. CASE Visit(t)
      <4> DEFINE visits == [room.visits EXCEPT ![t] = @ - 1]
      <4>1. visits \in [Tabs -> Nat]
        BY <1>0, <3>1 DEF Visit
      <4>2. room' = [room EXCEPT !.visits = visits]
        BY <3>1 DEF Visit
      <4> HIDE DEF visits
      <4> QED
        BY <1>0, <4>1, <4>2
    <3>2. CASE UNCHANGED room
      BY <1>0, <3>2
    <3> QED
      BY <1>11, <3>1, <3>2 DEF History, FetchHistory, Reopen, ShowHistory, KeepHistory, ClosePage, Expire
  <2>6. UNCHANGED <<rows, nextMessage, feed, members, socket, moderator>>
    BY <1>11 DEF History, FetchHistory, Reopen, ShowHistory, KeepHistory, ClosePage, Expire
  <2> QED
    BY <1>0, <2>3, <2>4, <2>5, <2>6 DEF RoomTyped
<1>13. ASSUME NEW m \in Moderators, FindForDeletion(m) \/ ClearMessages(m) PROVE RoomTyped'
  <2>1. {} \in SUBSET Ids /\ None \in Ids \cup {None} /\ DOMAIN rows \in SUBSET Ids
    BY <1>0
  <2>2. \E s \in Moderation : moderator' = [moderator EXCEPT ![m] = s]
    <3>1. CASE FindForDeletion(m)
      <4>1. PICK i \in DOMAIN rows : moderator' = [moderator EXCEPT ![m] = [at |-> "found", id |-> i, gone |-> {}]]
        BY <3>1 DEF FindForDeletion
      <4>2. [at |-> "found", id |-> i, gone |-> {}] \in Moderation
        BY <1>0, <2>1 DEF Moderation
      <4> QED
        BY <4>1, <4>2
    <3>2. CASE ClearMessages(m)
      <4>1. [at |-> "announce", id |-> None, gone |-> DOMAIN rows] \in Moderation
        BY <2>1 DEF Moderation
      <4> QED
        BY <3>2, <4>1 DEF ClearMessages
    <3> QED
      BY <1>13, <3>1, <3>2
  <2>3. moderator' \in [Moderators -> Moderation]
    BY <2>2, ModeratorTyped
  <2>4. room' \in [open : SUBSET Tabs, joins : [Tabs -> Nat], leavers : SUBSET Tabs,
                   senders : SUBSET Tabs, visits : [Tabs -> Nat], stored : Nat, removals : Nat]
    <3>1. room.removals - 1 \in Nat /\ room' = [room EXCEPT !.removals = room.removals - 1]
      BY <1>0, <1>13 DEF FindForDeletion, ClearMessages
    <3> QED
      BY <1>0, <3>1
  <2>5. DOMAIN rows' \subseteq Ids
    BY <1>0, <1>13 DEF FindForDeletion, ClearMessages
  <2> QED
    BY <1>0, <1>13, <2>3, <2>4, <2>5 DEF FindForDeletion, ClearMessages, RoomTyped
<1>14. ASSUME NEW m \in Moderators, DeleteMessage(m) PROVE RoomTyped'
  <2>1. {} \in SUBSET Ids /\ None \in Ids \cup {None}
    OBVIOUS
  <2>2. \E s \in Moderation : moderator' = [moderator EXCEPT ![m] = s]
    <3> DEFINE i == moderator[m].id
    <3>1. CASE i \in DOMAIN rows
      <4>1. {i} \in SUBSET Ids
        BY <1>0, <3>1
      <4>2. [moderator[m] EXCEPT !.at = "announce", !.gone = {i}] \in Moderation
        BY <1>s, <4>1 DEF Moderation
      <4> QED
        BY <1>14, <3>1, <4>2 DEF DeleteMessage
    <3>2. CASE i \notin DOMAIN rows
      <4>2. [moderator[m] EXCEPT !.at = "idle", !.id = None] \in Moderation
        BY <1>s, <2>1 DEF Moderation
      <4> QED
        BY <1>14, <3>2, <4>2 DEF DeleteMessage
    <3> QED
      BY <3>1, <3>2
  <2>3. moderator' \in [Moderators -> Moderation]
    BY <2>2, ModeratorTyped
  <2>5. DOMAIN rows' \subseteq Ids
    BY <1>0, <1>14 DEF DeleteMessage, Without
  <2> QED
    BY <1>0, <1>14, <2>3, <2>5 DEF DeleteMessage, RoomTyped
<1>15. ASSUME NEW m \in Moderators, Announce(m) PROVE RoomTyped'
  <2> DEFINE e == IF moderator[m].id = None THEN Cleared ELSE Deleted(moderator[m].id)
             S == moderator[m].gone
             T == IF moderator[m].id = None THEN {i \in DOMAIN rows : Said(i)} ELSE {}
  <2>1. {} \in SUBSET Ids /\ None \in Ids \cup {None}
    OBVIOUS
  <2>2. moderator[m] \in Moderation /\ moderator[m].id \in Ids \cup {None} /\ S \in SUBSET Ids
    BY <1>s DEF Moderation
  <2>3. T \in SUBSET Ids
    BY <1>0
  <2>4. e \in Events
    BY <2>2 DEF Events
  <2>5. Broadcast(e)
    BY <1>15 DEF Announce
  <2>6. excuse' = [excuse EXCEPT !.gone = @ \cup S, !.crossed = @ \cup T]
    BY <1>15 DEF Announce
  <2> HIDE DEF e, S, T
  <2>7. feed' \in Seq(Events)
    BY <2>4, <2>5, FeedGrows
  <2>8. excuse' \in Excuse
    BY <1>0, <2>2, <2>3, <2>6, ExcuseFields
  <2>9. [at |-> "idle", id |-> None, gone |-> {}] \in Moderation
    BY <2>1 DEF Moderation
  <2>10. moderator' \in [Moderators -> Moderation]
    BY <1>15, <2>9, ModeratorTyped DEF Announce
  <2> QED
    BY <1>0, <1>15, <2>7, <2>8, <2>10 DEF Announce, RoomTyped
<1> QED
  BY <1>1, <1>2, <1>3, <1>4, <1>5, <1>6, <1>7, <1>8, <1>9, <1>10, <1>11, <1>13, <1>14, <1>15 DEF ChatNext, History

-----------------------------------------------------------------------------
\* What a broadcast of the list, or of anything else, makes of the last such broadcast.
LEMMA FeedOnline ==
  ASSUME RoomTyped, NEW us \in SUBSET Users, Broadcast(Online(us))
  PROVE  \A k \in DOMAIN feed' : LastOnline(k)' => k = Len(feed) + 1 /\ feed'[k].ids = us
<1>1. Online(us) \in Events /\ Online(us).type = "online" /\ Online(us).ids = us
  BY DEF Events, Online
<1> QED
  BY <1>1, FeedGrows DEF LastOnline

LEMMA FeedOnlineLast ==
  ASSUME RoomTyped, NEW us \in SUBSET Users, Broadcast(Online(us))
  PROVE  \E k \in DOMAIN feed' : LastOnline(k)'
<1>1. Online(us) \in Events /\ Online(us).type = "online"
  BY DEF Events, Online
<1>2. PICK n \in DOMAIN feed' : n = Len(feed) + 1
  BY <1>1, FeedGrows
<1>3. LastOnline(n)'
  BY <1>1, <1>2, FeedGrows DEF LastOnline
<1> QED
  BY <1>2, <1>3

LEMMA FeedOther ==
  ASSUME RoomTyped, NEW e \in Events, e.type # "online", Broadcast(e)
  PROVE  /\ \A k \in DOMAIN feed : LastOnline(k) => LastOnline(k)'
         /\ \A k \in DOMAIN feed' : LastOnline(k)' => k \in DOMAIN feed /\ LastOnline(k) /\ feed'[k] = feed[k]
         /\ DOMAIN feed \subseteq DOMAIN feed'
BY FeedGrows DEF LastOnline

\* Steps that concern neither the members nor who is told of them.
LEMMA MembersUntouched ==
  ASSUME RoomTyped, MembersRight, UNCHANGED members, room'.open = room.open,
         \A t \in Tabs : /\ Listed(t)' <=> Listed(t)
                         /\ Telling(t)' <=> Telling(t)
                         /\ socket'[t].at \in {"greeting", "parting"} =>
                              socket[t].at \in {"greeting", "parting"} /\ socket'[t].counted = socket[t].counted
                         /\ socket'[t].at \in {"open", "stored", "sent"} =>
                              /\ socket[t].at \in {"open", "stored", "sent"} /\ socket'[t].pos = socket[t].pos
                              /\ page'[t].online = page[t].online,
         excuse'.eclipsed = excuse.eclipsed, excuse'.raced = excuse.raced, excuse'.unaware = excuse.unaware,
         \/ UNCHANGED feed
         \/ \E e \in Events : e.type # "online" /\ Broadcast(e)
  PROVE  MembersRight'
<1>1. /\ \A k \in DOMAIN feed : LastOnline(k) => LastOnline(k)'
      /\ \A k \in DOMAIN feed' : LastOnline(k)' => k \in DOMAIN feed /\ LastOnline(k) /\ feed'[k] = feed[k]
      /\ DOMAIN feed \subseteq DOMAIN feed'
  <2>1. CASE UNCHANGED feed
    BY <2>1 DEF LastOnline
  <2>2. CASE \E e \in Events : e.type # "online" /\ Broadcast(e)
    BY <2>2, FeedOther
  <2> QED
    BY <2>1, <2>2
<1>2. ListRight'
  BY DEF MembersRight, ListRight
<1>3. ToldRight'
  BY <1>1 DEF MembersRight, ToldRight
<1>4. HeardRight'
  BY <1>1 DEF MembersRight, HeardRight
<1> QED
  BY <1>2, <1>3, <1>4 DEF MembersRight

\* Every step keeps what is said of the members.
LEMMA MembersKept ==
  ASSUME RoomTyped, PostsRight, MembersRight, [ChatNext]_chatVars
  PROVE  MembersRight'
<1>0. /\ socket \in [Tabs -> Socket] /\ page \in [Tabs -> Page] /\ excuse \in Excuse
      /\ feed \in Seq(Events) /\ Len(feed) \in Nat /\ DOMAIN feed = 1..Len(feed)
      /\ members \subseteq Users
      /\ DOMAIN room = {"open", "joins", "leavers", "senders", "visits", "stored", "removals"}
  BY DEF RoomTyped
<1>d. /\ DOMAIN excuse = {"past", "crossed", "gone", "eclipsed", "raced", "unaware"}
      /\ \A t \in Tabs : /\ DOMAIN socket[t] = {"at", "pos", "post", "counted"}
                         /\ DOMAIN page[t] = {"at", "shown", "answer", "touched", "online", "kept"}
                         /\ socket[t].pos \in Nat /\ socket[t].counted \in SUBSET Users
  BY <1>0 DEF Excuse, Socket, Page
<1>1. CASE UNCHANGED chatVars
  BY <1>1, MembersUntouched DEF chatVars, Listed, Telling
<1>2. ASSUME NEW t \in Tabs, Subscribe(t) PROVE MembersRight'
  <2>1. /\ UNCHANGED <<feed, members, page>> /\ room'.open = room.open
        /\ excuse'.eclipsed = excuse.eclipsed /\ excuse'.raced = excuse.raced /\ excuse'.unaware = excuse.unaware
    BY <1>0, <1>d, <1>2 DEF Subscribe
  <2>2. \A u \in Tabs : IF u = t THEN socket[u].at = "off" /\ socket'[u].at = "subscribed" ELSE socket'[u] = socket[u]
    BY <1>0, <1>d, <1>2 DEF Subscribe
  <2> QED
    BY <2>1, <2>2, MembersUntouched DEF Listed, Telling
<1>3. ASSUME NEW t \in Tabs, Register(t) PROVE MembersRight'
  <2>1. /\ UNCHANGED <<feed, page, room>> /\ members' = members \cup {UserOfTab(t)}
        /\ excuse'.eclipsed = excuse.eclipsed \ {u \in Tabs : UserOfTab(u) = UserOfTab(t)}
        /\ excuse'.raced = Overlap(t) /\ excuse'.unaware = excuse.unaware
    BY <1>0, <1>d, <1>3 DEF Register
  <2>2. \A u \in Tabs : IF u = t THEN socket[u].at = "subscribed" /\ socket'[u].at = "joining" ELSE socket'[u] = socket[u]
    BY <1>0, <1>d, <1>3 DEF Register
  <2>3. ListRight'
    BY <2>1, <2>2 DEF MembersRight, ListRight, Listed
  <2>4. ToldRight'
    BY <2>1, <2>2 DEF MembersRight, ToldRight, Telling, Overlap
  <2>5. HeardRight'
    BY <2>1, <2>2 DEF MembersRight, HeardRight, LastOnline
  <2> QED
    BY <2>3, <2>4, <2>5 DEF MembersRight
<1>4. ASSUME NEW t \in Tabs, ReadMembers(t) PROVE MembersRight'
  <2>1. UNCHANGED <<feed, page, room, members, excuse>>
    BY <1>4 DEF ReadMembers
  <2>2. \A u \in Tabs : IF u = t THEN /\ socket'[u].counted = members
                                      /\ \/ socket[u].at = "joining" /\ socket'[u].at = "greeting"
                                         \/ socket[u].at = "leaving" /\ socket'[u].at = "parting"
                        ELSE socket'[u] = socket[u]
    BY <1>0, <1>d, <1>4 DEF ReadMembers
  <2>3. ListRight'
    BY <2>1, <2>2 DEF MembersRight, ListRight, Listed
  <2>4. ToldRight'
    BY <2>1, <2>2 DEF MembersRight, ToldRight, Telling, LastOnline
  <2>5. HeardRight'
    BY <2>1, <2>2 DEF MembersRight, HeardRight, LastOnline
  <2> QED
    BY <2>3, <2>4, <2>5 DEF MembersRight
<1>5. ASSUME NEW t \in Tabs, SendOnline(t) PROVE MembersRight'
  <2>1. UNCHANGED <<page, room, members, excuse>> /\ Broadcast(Online(socket[t].counted))
    BY <1>5 DEF SendOnline
  <2>2. \A u \in Tabs : IF u = t THEN /\ \/ socket[u].at = "greeting" /\ socket'[u].at = "open"
                                         \/ socket[u].at = "parting" /\ socket'[u].at = "off"
                                      /\ socket'[u].pos = socket[u].pos
                        ELSE socket'[u] = socket[u]
    BY <1>0, <1>d, <1>5 DEF SendOnline
  <2>3. ListRight'
    BY <2>1, <2>2 DEF MembersRight, ListRight, Listed
  <2>4. ToldRight'
    <3>1. ~excuse.raced => socket[t].counted = members
      BY <2>2 DEF MembersRight, ToldRight, Telling
    <3>2. \A k \in DOMAIN feed' : LastOnline(k)' => feed'[k].ids = socket[t].counted
      BY <1>d, <2>1, FeedOnline
    <3>3. ~excuse.raced => \A u \in Tabs : ~Telling(u)'
      BY <2>2 DEF MembersRight, ToldRight, Telling
    <3> QED
      BY <2>1, <3>1, <3>2, <3>3 DEF ToldRight
  <2>5. HeardRight'
    <3>1. \E k \in DOMAIN feed' : LastOnline(k)'
      BY <1>d, <2>1, FeedOnlineLast
    <3>2. \A k \in DOMAIN feed' : LastOnline(k)' => k = Len(feed) + 1
      BY <1>d, <2>1, FeedOnline
    <3>3. \A u \in Tabs : socket'[u].at \in {"open", "stored", "sent"} => socket'[u].pos <= Len(feed)
      BY <2>2 DEF PostsRight
    <3> QED
      BY <1>0, <1>d, <2>2, <3>1, <3>2, <3>3 DEF HeardRight
  <2> QED
    BY <2>3, <2>4, <2>5 DEF MembersRight
<1>6. ASSUME NEW t \in Tabs, Leave(t) PROVE MembersRight'
  <2>1. /\ UNCHANGED <<feed, page, room>> /\ members' = members \ {UserOfTab(t)}
        /\ excuse'.eclipsed = excuse.eclipsed \cup {u \in Tabs \ {t} : Listed(u) /\ UserOfTab(u) = UserOfTab(t)}
        /\ excuse'.raced = IF UserOfTab(t) \in members THEN Overlap(t) ELSE excuse.raced
        /\ excuse'.unaware = excuse.unaware
    BY <1>0, <1>d, <1>6 DEF Leave, Remain
  <2>2. \A u \in Tabs : IF u = t THEN /\ socket[u].at = "open"
                                      /\ socket'[u].at = IF UserOfTab(t) \in members THEN "leaving" ELSE "off"
                        ELSE socket'[u] = socket[u]
    BY <1>0, <1>d, <1>6 DEF Leave
  <2>3. ListRight'
    BY <2>1, <2>2 DEF MembersRight, ListRight, Listed
  <2>4. ToldRight'
    <3>1. CASE UserOfTab(t) \in members
      BY <2>1, <2>2, <3>1 DEF MembersRight, ToldRight, Telling, Overlap
    <3>2. CASE UserOfTab(t) \notin members
      <4>1. members' = members /\ excuse'.raced = excuse.raced
        BY <2>1, <3>2
      <4> QED
        BY <2>1, <2>2, <3>2, <4>1 DEF MembersRight, ToldRight, Telling, LastOnline
    <3> QED
      BY <3>1, <3>2
  <2>5. HeardRight'
    BY <2>1, <2>2 DEF MembersRight, HeardRight, LastOnline
  <2> QED
    BY <2>3, <2>4, <2>5 DEF MembersRight
<1>7. ASSUME NEW t \in Tabs, SendMessage(t) PROVE MembersRight'
  <2>1. UNCHANGED <<feed, members, page, room, excuse>>
    BY <1>7 DEF SendMessage
  <2>2. \A u \in Tabs : IF u = t THEN socket[u].at = "open" /\ socket'[u].at = "stored" /\ socket'[u].pos = socket[u].pos
                        ELSE socket'[u] = socket[u]
    BY <1>0, <1>d, <1>7 DEF SendMessage
  <2> QED
    BY <2>1, <2>2, MembersUntouched DEF Listed, Telling
<1>8. ASSUME NEW t \in Tabs, BroadcastMessage(t) PROVE MembersRight'
  <2>1. /\ UNCHANGED <<members, page, room>> /\ Broadcast(Message(socket[t].post))
        /\ excuse'.eclipsed = excuse.eclipsed /\ excuse'.raced = excuse.raced /\ excuse'.unaware = excuse.unaware
    BY <1>0, <1>d, <1>8 DEF BroadcastMessage
  <2>2. \A u \in Tabs : IF u = t THEN socket[u].at = "stored" /\ socket'[u].at = "sent" /\ socket'[u].pos = socket[u].pos
                        ELSE socket'[u] = socket[u]
    BY <1>0, <1>d, <1>8 DEF BroadcastMessage
  <2>3. socket[t].post \in Ids
    BY <1>8 DEF BroadcastMessage, PostsRight
  <2>4. Message(socket[t].post) \in Events /\ Message(socket[t].post).type # "online"
    BY <2>3 DEF Events, Message
  <2> QED
    BY <2>1, <2>2, <2>4, MembersUntouched DEF Listed, Telling
<1>9. ASSUME NEW t \in Tabs, Reply(t) PROVE MembersRight'
  <2>1. UNCHANGED <<members, feed, room, excuse>>
    BY <1>9 DEF Reply
  <2>2. \A u \in Tabs : IF u = t THEN socket[u].at = "sent" /\ socket'[u].at = "open" /\ socket'[u].pos = socket[u].pos
                        ELSE socket'[u] = socket[u]
    BY <1>0, <1>d, <1>9 DEF Reply
  <2>3. \A u \in Tabs : page'[u].online = page[u].online
    BY <1>0, <1>d, <1>9 DEF Reply, Deliver, Message
  <2> QED
    BY <2>1, <2>2, <2>3, MembersUntouched DEF Listed, Telling
<1>10. ASSUME NEW t \in Tabs, Lagged(t) PROVE MembersRight'
  <2> DEFINE skipped == {feed[k] : k \in socket[t].pos + 1 .. Len(feed) - Capacity}
             U == {u \in {t} : \E e \in skipped : e.type = "online"}
  <2>1. UNCHANGED <<members, feed, room, page, moderator>>
    BY <1>10 DEF Lagged
  <2>2. \A u \in Tabs : IF u = t THEN socket[u].at = "open" /\ socket'[u].at = "open" /\ socket'[u].pos = Len(feed) - Capacity
                        ELSE socket'[u] = socket[u]
    BY <1>0, <1>d, <1>10 DEF Lagged, Resume
  <2>3. /\ excuse'.eclipsed = excuse.eclipsed /\ excuse'.raced = excuse.raced
        /\ excuse'.unaware = excuse.unaware \cup U
    BY <1>0, <1>d, <1>10 DEF Lagged
  <2>4. ListRight'
    BY <2>1, <2>2, <2>3 DEF MembersRight, ListRight, Listed
  <2>5. ToldRight'
    BY <2>1, <2>2, <2>3 DEF MembersRight, ToldRight, Telling, LastOnline
  <2>6. \A k \in DOMAIN feed : feed[k].type = "online" /\ k > socket[t].pos /\ k <= Len(feed) - Capacity => t \in U
    BY <1>0, <1>d
  <2> HIDE DEF skipped, U
  <2>7. HeardRight'
    BY <1>0, <1>d, <2>1, <2>2, <2>3, <2>6 DEF MembersRight, HeardRight, LastOnline
  <2> QED
    BY <2>4, <2>5, <2>7 DEF MembersRight
<1>11. ASSUME NEW t \in Tabs, Receive(t) PROVE MembersRight'
  <2> DEFINE e == feed[socket[t].pos + 1]
  <2>1. UNCHANGED <<members, feed, room, moderator>>
    BY <1>11 DEF Receive
  <2>2. \A u \in Tabs : IF u = t THEN socket[u].at = "open" /\ socket'[u].at = "open" /\ socket'[u].pos = socket[u].pos + 1
                        ELSE socket'[u] = socket[u]
    BY <1>0, <1>d, <1>11 DEF Receive
  <2>3. /\ excuse'.eclipsed = excuse.eclipsed /\ excuse'.raced = excuse.raced
        /\ excuse'.unaware = IF e.type = "online" THEN excuse.unaware \ {t} ELSE excuse.unaware
    BY <1>0, <1>d, <1>11 DEF Receive
  <2>4. /\ \A u \in Tabs \ {t} : page'[u] = page[u]
        /\ page'[t].online = IF e.type = "online" THEN e.ids ELSE page[t].online
    BY <1>0, <1>d, <1>11 DEF Receive, Deliver
  <2>5. ListRight'
    BY <2>1, <2>2, <2>3 DEF MembersRight, ListRight, Listed
  <2>6. ToldRight'
    BY <2>1, <2>2, <2>3 DEF MembersRight, ToldRight, Telling, LastOnline
  <2>7. HeardRight'
    <3>1. ASSUME NEW u \in Tabs, socket'[u].at \in {"open", "stored", "sent"}, NEW k \in DOMAIN feed,
                 LastOnline(k), k <= socket'[u].pos
          PROVE  page'[u].online = feed[k].ids \/ u \in excuse'.unaware
      <4>1. CASE u # t
        BY <2>2, <2>3, <2>4, <3>1, <4>1 DEF MembersRight, HeardRight
      <4>2. CASE u = t /\ k = socket[t].pos + 1
        BY <2>4, <3>1, <4>2 DEF LastOnline
      <4>3. CASE u = t /\ k # socket[t].pos + 1
        <5>1. k <= socket[t].pos /\ socket[t].pos + 1 \in DOMAIN feed
          BY <1>0, <1>d, <1>11, <2>2, <3>1, <4>3 DEF Receive
        <5>2. e.type # "online"
          BY <1>0, <1>d, <3>1, <5>1 DEF LastOnline
        <5> QED
          BY <2>2, <2>3, <2>4, <3>1, <4>3, <5>1, <5>2 DEF MembersRight, HeardRight
      <4> QED
        BY <4>1, <4>2, <4>3
    <3>2. \A u \in Tabs : socket'[u].at \in {"open", "stored", "sent"} /\ u \notin room.open => \E k \in DOMAIN feed : LastOnline(k)
      BY <2>2 DEF MembersRight, HeardRight
    <3> QED
      BY <2>1, <3>1, <3>2 DEF HeardRight, LastOnline
  <2> QED
    BY <2>5, <2>6, <2>7 DEF MembersRight
<1>12. ASSUME NEW t \in Tabs, History(t) PROVE MembersRight'
  <2>1. /\ UNCHANGED <<members, feed, socket>> /\ room'.open = room.open
        /\ excuse'.eclipsed = excuse.eclipsed /\ excuse'.raced = excuse.raced /\ excuse'.unaware = excuse.unaware
        /\ \A u \in Tabs : page'[u].online = page[u].online
    BY <1>12, HistoryOnly
  <2> QED
    BY <2>1, MembersUntouched DEF Listed, Telling
<1>13. ASSUME NEW m \in Moderators, FindForDeletion(m) \/ ClearMessages(m) \/ DeleteMessage(m) PROVE MembersRight'
  <2>1. UNCHANGED <<members, feed, page, socket, excuse>> /\ room'.open = room.open
    BY <1>0, <1>13 DEF FindForDeletion, ClearMessages, DeleteMessage
  <2> QED
    BY <2>1, MembersUntouched DEF Listed, Telling
<1>14. ASSUME NEW m \in Moderators, Announce(m) PROVE MembersRight'
  <2> DEFINE e == IF moderator[m].id = None THEN Cleared ELSE Deleted(moderator[m].id)
  <2>1. /\ UNCHANGED <<members, page, room, socket>> /\ Broadcast(e)
        /\ excuse'.eclipsed = excuse.eclipsed /\ excuse'.raced = excuse.raced /\ excuse'.unaware = excuse.unaware
    BY <1>0, <1>d, <1>14 DEF Announce
  <2>2. moderator[m].id \in Ids \cup {None}
    BY DEF RoomTyped, Moderation
  <2>3. e \in Events /\ e.type # "online"
    BY <2>2 DEF Events, Cleared, Deleted
  <2> HIDE DEF e
  <2> QED
    BY <2>1, <2>3, MembersUntouched DEF Listed, Telling
<1> QED
  BY <1>1, <1>2, <1>3, <1>4, <1>5, <1>6, <1>7, <1>8, <1>9, <1>10, <1>11, <1>12, <1>13, <1>14 DEF ChatNext, History

\* The reply ends a posting that the broadcast had ended for everybody else.
LEMMA ReplyKeepsMessages ==
  ASSUME RoomTyped, MessagesRight, NEW t \in Tabs, Reply(t)
  PROVE  MessagesRight'
<1>0. /\ socket \in [Tabs -> Socket] /\ DOMAIN rows \subseteq Ids
      /\ DOMAIN socket[t] = {"at", "pos", "post", "counted"}
  BY DEF RoomTyped, Socket
<1>1. UNCHANGED <<rows, nextMessage, moderator, room, feed, excuse>>
  BY DEF Reply
<1>2. /\ socket[t].at = "sent"
      /\ \A u \in Tabs : IF u = t THEN socket'[u].at = "open" /\ socket'[u].post = None /\ socket'[u].pos = socket[u].pos
                         ELSE socket'[u] = socket[u]
  BY <1>0 DEF Reply
<1>3. \A i \in Ids : i # None
  BY IdsAreNumbers
<1>4. \A i \in Ids : /\ Said(i)' <=> Said(i)
                     /\ Posting(i)' <=> Posting(i)
                     /\ Announcing(i)' <=> Announcing(i)
                     /\ \A k \in DOMAIN feed : RemovedAfter(k, i)' <=> RemovedAfter(k, i)
  BY <1>1, <1>2, <1>3 DEF Said, Posting, Announcing, RemovedAfter
<1>5. PostsRight'
  <2>1. \A u \in Tabs : socket'[u].at # "off" => socket'[u].pos <= Len(feed)
    BY <1>2 DEF MessagesRight, PostsRight
  <2>2. \A u \in Tabs : socket'[u].post # None <=> socket'[u].at \in {"stored", "sent"}
    BY <1>2 DEF MessagesRight, PostsRight
  <2>3. \A u \in Tabs : socket'[u].post # None => socket'[u] = socket[u]
    BY <1>2
  <2>4. \A u \in Tabs : socket'[u].at = "sent" => socket'[u] = socket[u]
    BY <1>2
  <2>5. \A u, w \in Tabs : socket'[u].post # None /\ socket'[u].post = socket'[w].post => u = w
    BY <2>3 DEF MessagesRight, PostsRight
  <2> QED
    BY <1>1, <1>4, <2>1, <2>2, <2>3, <2>4, <2>5 DEF MessagesRight, PostsRight
<1>6. RowsRight'
  BY <1>0, <1>1, <1>4 DEF MessagesRight, RowsRight
<1>7. AnnouncedRight'
  BY <1>1, <1>4 DEF MessagesRight, AnnouncedRight
<1> QED
  BY <1>5, <1>6, <1>7 DEF MessagesRight

\* Rows are deleted, to be announced.
LEMMA RemovalKeepsMessages ==
  ASSUME RoomTyped, MessagesRight, UNCHANGED <<nextMessage, feed, socket, excuse>>, room'.stored = room.stored,
         NEW m \in Moderators, moderator[m].at # "announce",
         moderator' = [moderator EXCEPT ![m] = moderator'[m]],
         moderator'[m].at = "announce", moderator'[m].gone = DOMAIN rows \ DOMAIN rows',
         DOMAIN rows' \subseteq DOMAIN rows,
         IF moderator'[m].id = None THEN DOMAIN rows' = {} ELSE moderator'[m].gone = {moderator'[m].id}
  PROVE  MessagesRight'
<1>0. DOMAIN rows \subseteq Ids /\ moderator \in [Moderators -> Moderation]
  BY DEF RoomTyped
<1>1. \A n \in Moderators \ {m} : moderator'[n] = moderator[n]
  BY <1>0
<1>2. \A i \in Ids : /\ Said(i)' <=> Said(i)
                     /\ Posting(i)' <=> Posting(i)
                     /\ \A k \in DOMAIN feed : RemovedAfter(k, i)' <=> RemovedAfter(k, i)
  BY DEF Said, Posting, RemovedAfter
<1>3. \A i \in Ids : Announcing(i)' <=> Announcing(i) \/ i \in DOMAIN rows \ DOMAIN rows'
  BY <1>1 DEF Announcing
<1>4. PostsRight'
  BY <1>2 DEF MessagesRight, PostsRight
<1>5. RowsRight'
  BY <1>0, <1>1, <1>2, <1>3 DEF MessagesRight, RowsRight
<1>6. AnnouncedRight'
  BY <1>0, <1>2, <1>3 DEF MessagesRight, AnnouncedRight
<1> QED
  BY <1>4, <1>5, <1>6 DEF MessagesRight

\* What was taken back and announced again crossed.
LEMMA AnnounceCrosses ==
  ASSUME RoomTyped, NEW m \in Moderators, Announce(m), moderator[m].id = None,
         NEW i \in DOMAIN rows, Said(i)
  PROVE  i \in excuse'.crossed
<1>1. DOMAIN excuse = {"past", "crossed", "gone", "eclipsed", "raced", "unaware"}
  BY DEF RoomTyped, Excuse
<1>2. excuse'.crossed = excuse.crossed \cup {j \in DOMAIN rows : Said(j)}
  BY <1>1 DEF Announce
<1> QED
  BY <1>2

\* What the announcement of a removal changes, and what it leaves alone.
LEMMA AnnounceEffects ==
  ASSUME RoomTyped, MessagesRight, NEW m \in Moderators, Announce(m),
         NEW id, id = moderator[m].id, NEW gone, gone = moderator[m].gone
  PROVE  /\ UNCHANGED <<rows, nextMessage, socket, room, page>>
         /\ excuse'.past = excuse.past
         /\ excuse'.gone = excuse.gone \cup gone /\ excuse.crossed \subseteq excuse'.crossed
         /\ \A n \in Moderators : moderator'[n].at = "announce" => n # m /\ moderator'[n] = moderator[n]
         /\ IF id = None THEN \A i \in DOMAIN rows : i > room.stored ELSE gone = {id}
         /\ \A i \in gone : i \in Ids => Announcing(i)
         /\ Len(feed) \in Nat /\ DOMAIN feed = 1..Len(feed) /\ Len(feed') = Len(feed) + 1
         /\ DOMAIN feed' = 1..(Len(feed) + 1)
         /\ \A k \in DOMAIN feed : feed'[k] = feed[k]
         /\ \A i \in Ids : Removes(feed'[Len(feed) + 1], i) <=> id = None \/ id = i
         /\ \A i \in Ids : feed'[Len(feed) + 1] = Deleted(i) => id = i /\ id # None
         /\ \A i \in Ids : feed'[Len(feed) + 1] # Message(i)
         /\ \A i \in Ids : /\ Said(i)' <=> Said(i)
                           /\ Posting(i)' <=> Posting(i)
                           /\ Announcing(i)' => Announcing(i)
                           /\ Announcing(i) => Announcing(i)' \/ i \in gone
                           /\ \A k \in Nat : RemovedAfter(k, i) => RemovedAfter(k, i)'
                           /\ \A k \in Nat : RemovedAfter(k, i)' => RemovedAfter(k, i) \/ id = None \/ id = i
                           /\ \A k \in Nat : k <= Len(feed) /\ (id = None \/ id = i) => RemovedAfter(k, i)'
<1>0. /\ DOMAIN rows \subseteq Ids /\ moderator \in [Moderators -> Moderation]
      /\ moderator[m].id \in Ids \cup {None}
      /\ DOMAIN excuse = {"past", "crossed", "gone", "eclipsed", "raced", "unaware"}
  BY DEF RoomTyped, Moderation, Excuse
<1> DEFINE e == IF id = None THEN Cleared ELSE Deleted(id)
           crossing == IF id = None THEN {i \in DOMAIN rows : Said(i)} ELSE {}
<1>1. /\ UNCHANGED <<rows, nextMessage, socket, room, page>> /\ Broadcast(e)
      /\ excuse'.gone = excuse.gone \cup gone /\ excuse'.crossed = excuse.crossed \cup crossing
      /\ excuse'.past = excuse.past
  BY <1>0 DEF Announce
<1>2. /\ moderator[m].at = "announce" /\ moderator'[m].at = "idle"
      /\ \A n \in Moderators \ {m} : moderator'[n] = moderator[n]
  BY <1>0 DEF Announce
<1>3. \A i \in Ids : Removes(e, i) <=> id = None \/ id = i
  BY <1>0, EventsDiffer DEF Removes
<1>4. e \in Events /\ \A i \in Ids : Message(i) # e
  BY <1>0, EventsDiffer DEF Events
<1>5. IF id = None THEN \A i \in DOMAIN rows : i > room.stored ELSE gone = {id}
  BY <1>2 DEF MessagesRight, RowsRight
<1>6. \A i \in Ids : e = Deleted(i) => id = i /\ id # None
  BY <1>0, EventsDiffer
<1>g. \A i \in gone : i \in Ids => Announcing(i)
  BY <1>2 DEF Announcing
<1> HIDE DEF e, crossing
<1>7. /\ Len(feed) \in Nat /\ DOMAIN feed = 1..Len(feed) /\ Len(feed') = Len(feed) + 1
      /\ DOMAIN feed' = 1..(Len(feed) + 1)
      /\ \A k \in DOMAIN feed : feed'[k] = feed[k]
      /\ feed'[Len(feed) + 1] = e
  BY <1>1, <1>4, FeedGrows
<1>8. ASSUME NEW i \in Ids
      PROVE  /\ Said(i)' <=> Said(i)
             /\ Posting(i)' <=> Posting(i)
             /\ Announcing(i)' => Announcing(i)
             /\ Announcing(i) => Announcing(i)' \/ i \in gone
  <2>1. Said(i)' <=> Said(i)
    BY <1>4, <1>7 DEF Said
  <2>2. Posting(i)' <=> Posting(i)
    BY <1>1 DEF Posting
  <2>3. Announcing(i)' => Announcing(i)
    BY <1>2 DEF Announcing
  <2>4. Announcing(i) => Announcing(i)' \/ i \in gone
    BY <1>2 DEF Announcing
  <2> QED
    BY <2>1, <2>2, <2>3, <2>4
<1>9. ASSUME NEW i \in Ids, NEW k \in Nat
      PROVE  /\ RemovedAfter(k, i) => RemovedAfter(k, i)'
             /\ RemovedAfter(k, i)' => RemovedAfter(k, i) \/ id = None \/ id = i
             /\ k <= Len(feed) /\ (id = None \/ id = i) => RemovedAfter(k, i)'
  <2>1. RemovedAfter(k, i) => RemovedAfter(k, i)'
    BY <1>7 DEF RemovedAfter
  <2>2. RemovedAfter(k, i)' => RemovedAfter(k, i) \/ id = None \/ id = i
    BY <1>3, <1>7 DEF RemovedAfter
  <2>3. k <= Len(feed) /\ (id = None \/ id = i) => RemovedAfter(k, i)'
    BY <1>3, <1>7 DEF RemovedAfter
  <2> QED
    BY <2>1, <2>2, <2>3
<1>10. \A n \in Moderators : moderator'[n].at = "announce" => n # m /\ moderator'[n] = moderator[n]
  BY <1>2
<1> QED
  BY <1>1, <1>3, <1>4, <1>5, <1>6, <1>7, <1>8, <1>9, <1>10, <1>g

\* It removes what is gone; "cleared" also what was sent since, which crossed.
LEMMA AnnounceKeepsMessages ==
  ASSUME RoomTyped, MessagesRight, NEW m \in Moderators, Announce(m)
  PROVE  MessagesRight'
<1>0. /\ DOMAIN rows \subseteq Ids /\ DOMAIN feed \subseteq Nat
      /\ \A u \in Tabs : socket[u].pos \in Nat
  BY DEF RoomTyped, Socket
<1>p. PICK id : id = moderator[m].id
  OBVIOUS
<1>q. PICK gone : gone = moderator[m].gone
  OBVIOUS
<1>1. /\ UNCHANGED <<rows, nextMessage, socket, room>>
      /\ excuse'.gone = excuse.gone \cup gone /\ excuse.crossed \subseteq excuse'.crossed
  BY <1>p, <1>q, AnnounceEffects
<1>c. id = None => \A i \in DOMAIN rows : Said(i) => i \in excuse'.crossed
  BY <1>p, AnnounceCrosses
<1>2. \A n \in Moderators : moderator'[n].at = "announce" => n # m /\ moderator'[n] = moderator[n]
  BY <1>p, <1>q, AnnounceEffects
<1>5. IF id = None THEN \A i \in DOMAIN rows : i > room.stored ELSE gone = {id}
  BY <1>p, <1>q, AnnounceEffects
<1>g. \A i \in gone : i \in Ids => Announcing(i)
  BY <1>p, <1>q, AnnounceEffects
<1>7. /\ Len(feed) \in Nat /\ DOMAIN feed = 1..Len(feed) /\ Len(feed') = Len(feed) + 1
      /\ DOMAIN feed' = 1..(Len(feed) + 1)
      /\ \A k \in DOMAIN feed : feed'[k] = feed[k]
  BY <1>p, <1>q, AnnounceEffects
<1>3. \A i \in Ids : Removes(feed'[Len(feed) + 1], i) <=> id = None \/ id = i
  BY <1>p, <1>q, AnnounceEffects
<1>6. \A i \in Ids : feed'[Len(feed) + 1] = Deleted(i) => id = i /\ id # None
  BY <1>p, <1>q, AnnounceEffects
<1>4. \A i \in Ids : feed'[Len(feed) + 1] # Message(i)
  BY <1>p, <1>q, AnnounceEffects
<1>8. \A i \in Ids : /\ Said(i)' <=> Said(i)
                     /\ Posting(i)' <=> Posting(i)
                     /\ Announcing(i)' => Announcing(i)
                     /\ Announcing(i) => Announcing(i)' \/ i \in gone
                     /\ \A k \in DOMAIN feed : RemovedAfter(k, i) => RemovedAfter(k, i)'
                     /\ \A k \in DOMAIN feed : id = None \/ id = i => RemovedAfter(k, i)'
  <2>1. \A k \in DOMAIN feed : k \in Nat /\ k <= Len(feed)
    BY <1>7
  <2> QED
    BY <1>p, <1>q, <2>1, AnnounceEffects
<1>9. PostsRight'
  <2>1. \A u \in Tabs : socket[u].at # "off" => socket[u].pos <= Len(feed')
    <3>1. \A u \in Tabs : socket[u].pos \in Nat
      BY DEF RoomTyped, Socket
    <3> QED
      BY <1>7, <3>1 DEF MessagesRight, PostsRight
  <2>2. \A u \in Tabs : socket[u].at = "sent" =>
          \E k \in DOMAIN feed' : k > socket[u].pos /\ feed'[k] = Message(socket[u].post)
    BY <1>7 DEF MessagesRight, PostsRight
  <2>3. \A i \in Ids, k \in DOMAIN feed' : feed'[k] = Message(i) => k \in DOMAIN feed /\ feed[k] = Message(i)
    BY <1>4, <1>7
  <2> QED
    BY <1>1, <1>8, <2>1, <2>2, <2>3 DEF MessagesRight, PostsRight
<1>10. RowsRight'
  <2>1. \A i \in Ids, k \in DOMAIN feed' : feed'[k] = Deleted(i) => i \in excuse'.gone
    BY <1>1, <1>5, <1>6, <1>7 DEF MessagesRight, RowsRight
  <2>2. \A i \in Ids : Announcing(i)' \/ i \in excuse'.gone => Announcing(i) \/ i \in excuse.gone
    BY <1>1, <1>8, <1>g
  <2> QED
    BY <1>0, <1>1, <1>8, <1>2, <2>1, <2>2 DEF MessagesRight, RowsRight
<1>11. AnnouncedRight'
  <2>1. ASSUME NEW i \in Ids \ excuse'.crossed, i \in DOMAIN rows, NEW k \in DOMAIN feed', Removes(feed'[k], i)
        PROVE  Posting(i)' \/ \E j \in DOMAIN feed' : j > k /\ feed'[j] = Message(i)
    <3>1. CASE k \in DOMAIN feed
      <4>1. Posting(i) \/ \E j \in DOMAIN feed : j > k /\ feed[j] = Message(i)
        BY <1>1, <1>7, <2>1, <3>1 DEF MessagesRight, AnnouncedRight
      <4> QED
        BY <1>7, <1>8, <3>1, <4>1
    <3>2. CASE k = Len(feed) + 1
      <4>1. id = None \/ id = i
        BY <1>3, <1>7, <2>1, <3>2
      <4>2. ~Announcing(i)
        BY <2>1 DEF MessagesRight, RowsRight
      <4>3. id = None
        BY <1>5, <1>g, <2>1, <4>1, <4>2
      <4>4. ~Said(i)
        BY <1>1, <1>c, <2>1, <4>3
      <4>5. Posting(i)
        BY <1>5, <2>1, <4>3, <4>4 DEF MessagesRight, RowsRight
      <4> QED
        BY <1>8, <4>5
    <3> QED
      BY <1>7, <3>1, <3>2
  <2>2. ASSUME NEW i \in Ids \ excuse'.crossed, NEW k \in DOMAIN feed', feed'[k] = Message(i)
        PROVE  i \in DOMAIN rows \/ Announcing(i)' \/ RemovedAfter(k, i)'
    <3>1. k \in DOMAIN feed /\ feed[k] = Message(i)
      BY <1>4, <1>7, <2>2
    <3>2. i \in DOMAIN rows \/ Announcing(i) \/ RemovedAfter(k, i)
      BY <1>1, <2>2, <3>1 DEF MessagesRight, AnnouncedRight
    <3>3. i \in gone => id = None \/ id = i
      BY <1>5
    <3> QED
      BY <1>8, <3>1, <3>2, <3>3
  <2> QED
    BY <1>1, <2>1, <2>2 DEF AnnouncedRight
<1> QED
  BY <1>9, <1>10, <1>11 DEF MessagesRight

\* Every step keeps what is said of the messages.
LEMMA MessagesKept ==
  ASSUME RoomTyped, RoomTyped', MessagesRight, [ChatNext]_chatVars
  PROVE  MessagesRight'
<1>0. /\ socket \in [Tabs -> Socket] /\ excuse \in Excuse /\ moderator \in [Moderators -> Moderation]
      /\ DOMAIN rows \subseteq Ids /\ Len(feed) \in Nat
      /\ DOMAIN room = {"open", "joins", "leavers", "senders", "visits", "stored", "removals"}
  BY DEF RoomTyped
<1>d. /\ DOMAIN excuse = {"past", "crossed", "gone", "eclipsed", "raced", "unaware"}
      /\ \A t \in Tabs : /\ DOMAIN socket[t] = {"at", "pos", "post", "counted"}
                         /\ socket[t].pos \in Nat
                         /\ socket[t].counted \in SUBSET Users
  BY <1>0 DEF Excuse, Socket
<1>n. \A t \in Tabs : socket'[t].pos \in Nat
  BY DEF RoomTyped, Socket
<1>p. \A t \in Tabs : socket[t].at # "off" => socket[t].pos <= Len(feed)
  BY DEF MessagesRight, PostsRight
<1>1. CASE UNCHANGED chatVars
  BY <1>1, <1>n, <1>p, MessagesUntouched DEF chatVars
<1>2. ASSUME NEW t \in Tabs,
             Subscribe(t) \/ Register(t) \/ ReadMembers(t) \/ Leave(t) \/ Lagged(t) \/ Receive(t)
      PROVE  MessagesRight'
  <2>1. UNCHANGED <<rows, nextMessage, feed, moderator>> /\ room'.stored = room.stored
    BY <1>0, <1>2 DEF Subscribe, Register, ReadMembers, Leave, Lagged, Receive
  <2>2. excuse'.crossed = excuse.crossed /\ excuse'.gone = excuse.gone
    <3>1. CASE Subscribe(t) \/ Register(t) \/ ReadMembers(t) \/ Leave(t)
      BY <1>0, <1>d, <3>1 DEF Subscribe, Register, ReadMembers, Leave
    <3>2. CASE Lagged(t) \/ Receive(t)
      BY <1>0, <1>d, <3>2 DEF Lagged, Receive
    <3> QED
      BY <1>2, <3>1, <3>2
  <2>3. /\ \A u \in Tabs \ {t} : socket'[u] = socket[u]
        /\ socket'[t].post = socket[t].post
        /\ socket[t].at \notin {"stored", "sent"} /\ socket'[t].at \notin {"stored", "sent"}
        /\ socket'[t].at # "off" => socket'[t].pos <= Len(feed)
    <3>1. CASE Subscribe(t)
      BY <1>0, <1>d, <3>1 DEF Subscribe
    <3>2. CASE Register(t) \/ Leave(t)
      BY <1>0, <1>d, <1>p, <3>2 DEF Register, Leave
    <3>3. CASE ReadMembers(t)
      BY <1>0, <1>d, <1>p, <3>3 DEF ReadMembers
    <3>4. CASE Lagged(t)
      BY <1>0, <1>d, <3>4, RoomAssumption DEF Lagged, Resume
    <3>5. CASE Receive(t)
      BY <1>0, <1>d, <3>5 DEF Receive
    <3> QED
      BY <1>2, <3>1, <3>2, <3>3, <3>4, <3>5
  <2> QED
    BY <1>n, <1>p, <2>1, <2>2, <2>3, MessagesUntouched
<1>3. ASSUME NEW t \in Tabs, SendOnline(t) PROVE MessagesRight'
  <2>1. UNCHANGED <<rows, nextMessage, room, moderator, excuse>> /\ Broadcast(Online(socket[t].counted))
    BY <1>3 DEF SendOnline
  <2>2. /\ \A u \in Tabs \ {t} : socket'[u] = socket[u]
        /\ socket'[t].post = socket[t].post /\ socket'[t].pos = socket[t].pos
        /\ socket[t].at \notin {"stored", "sent", "off"} /\ socket'[t].at \notin {"stored", "sent"}
    BY <1>0, <1>d, <1>3 DEF SendOnline
  <2> QED
    BY <1>d, <1>n, <1>p, <2>1, <2>2, MessagesUntouched
<1>4. ASSUME NEW t \in Tabs, History(t) PROVE MessagesRight'
  <2>1. /\ UNCHANGED <<rows, nextMessage, feed, socket, moderator>> /\ room'.stored = room.stored
        /\ excuse'.crossed = excuse.crossed /\ excuse'.gone = excuse.gone
    BY <1>4, HistoryOnly
  <2> QED
    BY <1>n, <1>p, <2>1, MessagesUntouched
<1>5. ASSUME NEW m \in Moderators, FindForDeletion(m) PROVE MessagesRight'
  <2>1. UNCHANGED <<rows, nextMessage, feed, socket, excuse>> /\ room'.stored = room.stored
    BY <1>0, <1>5 DEF FindForDeletion
  <2>2. /\ \A n \in Moderators \ {m} : moderator'[n] = moderator[n]
        /\ moderator[m].at # "announce" /\ moderator'[m].at # "announce"
    BY <1>0, <1>5 DEF FindForDeletion
  <2> QED
    BY <1>n, <1>p, <2>1, <2>2, MessagesUntouched
<1>6. ASSUME NEW m \in Moderators, DeleteMessage(m) PROVE MessagesRight'
  <2> DEFINE i == moderator[m].id
  <2>0. UNCHANGED <<nextMessage, feed, socket, excuse, room>> /\ moderator[m].at # "announce"
        /\ DOMAIN moderator[m] = {"at", "id", "gone"}
    BY <1>0, <1>6 DEF DeleteMessage, Moderation
  <2>1. CASE i \in DOMAIN rows
    <3>1. /\ DOMAIN rows' = DOMAIN rows \ {i}
          /\ moderator' = [moderator EXCEPT ![m] = [moderator[m] EXCEPT !.at = "announce", !.gone = {i}]]
      BY <1>6, <2>1 DEF DeleteMessage, Without
    <3>2. moderator'[m].at = "announce" /\ moderator'[m].gone = {i} /\ moderator'[m].id = i
      BY <1>0, <2>0, <3>1
    <3>3. moderator' = [moderator EXCEPT ![m] = moderator'[m]]
      BY <1>0, <3>1
    <3>4. i # None /\ DOMAIN rows \ DOMAIN rows' = {i}
      BY <1>0, <2>1, <3>1, IdsAreNumbers
    <3> HIDE DEF i
    <3> QED
      BY <2>0, <3>1, <3>2, <3>3, <3>4, RemovalKeepsMessages
  <2>2. CASE i \notin DOMAIN rows
    <3>1. UNCHANGED rows
      BY <1>6, <2>2 DEF DeleteMessage
    <3>2. /\ \A n \in Moderators \ {m} : moderator'[n] = moderator[n]
          /\ moderator'[m].at = "idle"
      BY <1>0, <1>6, <2>0, <2>2 DEF DeleteMessage
    <3> QED
      BY <1>n, <1>p, <2>0, <3>1, <3>2, MessagesUntouched
  <2> QED
    BY <2>1, <2>2
<1>7. ASSUME NEW m \in Moderators, ClearMessages(m) PROVE MessagesRight'
  <2>0. UNCHANGED <<nextMessage, feed, socket, excuse>> /\ moderator[m].at # "announce" /\ room'.stored = room.stored
    BY <1>0, <1>7 DEF ClearMessages
  <2>1. /\ DOMAIN rows' = {}
        /\ moderator' = [moderator EXCEPT ![m] = [at |-> "announce", id |-> None, gone |-> DOMAIN rows]]
    BY <1>7 DEF ClearMessages
  <2>2. moderator'[m].at = "announce" /\ moderator'[m].gone = DOMAIN rows /\ moderator'[m].id = None
    BY <1>0, <2>1
  <2>3. moderator' = [moderator EXCEPT ![m] = moderator'[m]]
    BY <1>0, <2>1
  <2> QED
    BY <2>0, <2>1, <2>2, <2>3, RemovalKeepsMessages
<1> QED
  BY <1>1, <1>2, <1>3, <1>4, <1>5, <1>6, <1>7, SendKeepsMessages, BroadcastKeepsMessages, ReplyKeepsMessages,
     AnnounceKeepsMessages DEF ChatNext, History

-----------------------------------------------------------------------------
\* A tab whose page stays as it is, when what the others do keeps what it agrees on.
LEMMA PageCarried ==
  ASSUME RoomTyped, NEW t \in Tabs, PageOf(t), page'[t] = page[t], Connected(t)' => Connected(t),
         socket'[t].pos = socket[t].pos,
         excuse.past[t] \subseteq excuse'.past[t], excuse.crossed \subseteq excuse'.crossed,
         \A i \in Ids : i < nextMessage => i < nextMessage',
         \A i \in Ids \ excuse'.crossed, p \in Nat, S \in SUBSET Ids :
           Connected(t) /\ p = socket[t].pos /\ Agrees(p, S, i) => Agrees(p, S, i)'
  PROVE  PageOf(t)'
<1>0. page[t].shown \in SUBSET Ids /\ page[t].answer \in SUBSET Ids /\ socket[t].pos \in Nat
  BY DEF RoomTyped, Page, Socket
<1>1. PICK p \in Nat : p = socket[t].pos /\ p = socket'[t].pos
  BY <1>0
<1>2. PICK S \in SUBSET Ids : S = page[t].shown /\ S = page'[t].shown
  BY <1>0
<1>3. PICK T \in SUBSET Ids : T = page[t].answer /\ T = page'[t].answer
  BY <1>0
<1>4. ASSUME Connected(t)', NEW i \in Ids \ (excuse'.past[t] \cup excuse'.crossed), page'[t].at = "loaded"
      PROVE  Agrees(p, S, i)'
  BY <1>1, <1>2, <1>4 DEF PageOf
<1>5. ASSUME Connected(t)', NEW i \in Ids \ (excuse'.past[t] \cup excuse'.crossed), page'[t].at = "asked",
             i \in page'[t].touched => (i \in page'[t].shown <=> i \in page'[t].answer)
      PROVE  Agrees(p, T, i)'
  BY <1>1, <1>3, <1>5 DEF PageOf
<1>6. /\ page'[t].at # "asked" => page'[t].touched = {}
      /\ \A i \in page'[t].answer : i < nextMessage'
  BY <1>0 DEF PageOf
<1> QED
  BY <1>1, <1>2, <1>3, <1>4, <1>5, <1>6 DEF PageOf

\* A message that was announced, and whose removal is not pending after that, stays.
LEMMA AnnouncedStays ==
  ASSUME RoomTyped, MessagesRight, NEW i \in Ids \ excuse.crossed, i \in DOMAIN rows,
         NEW k \in DOMAIN feed, feed[k] = Message(i)
  PROVE  ~RemovedAfter(k, i)
<1> SUFFICES ASSUME NEW j \in DOMAIN feed, j > k, Removes(feed[j], i) PROVE FALSE
  BY DEF RemovedAfter
<1>0. DOMAIN feed \subseteq Nat
  BY DEF RoomTyped
<1>1. ~Posting(i)
  BY DEF MessagesRight, PostsRight, Said
<1>2. PICK l \in DOMAIN feed : l > j /\ feed[l] = Message(i)
  BY <1>1 DEF MessagesRight, AnnouncedRight
<1>3. l = k
  BY <1>2 DEF MessagesRight, PostsRight
<1> QED
  BY <1>0, <1>2, <1>3

\* What is stored will be shown if it is shown now, or some removal is still to come.
LEMMA StoredWillShow ==
  ASSUME RoomTyped, MessagesRight, NEW i \in Ids \ excuse.crossed, i \in DOMAIN rows,
         NEW p \in Nat, NEW S \in SUBSET Ids,
         i \in S \/ RemovedAfter(p, i)
  PROVE  Will(p, S, i) \/ Posting(i)
<1>0. DOMAIN feed \subseteq Nat
  BY DEF RoomTyped
<1>1. CASE RemovedAfter(p, i)
  <2>1. PICK k \in DOMAIN feed : k > p /\ Removes(feed[k], i)
    BY <1>1 DEF RemovedAfter
  <2>2. CASE Posting(i)
    BY <2>2
  <2>3. CASE ~Posting(i)
    <3>1. PICK j \in DOMAIN feed : j > k /\ feed[j] = Message(i)
      BY <2>1, <2>3 DEF MessagesRight, AnnouncedRight
    <3>2. ~RemovedAfter(j, i)
      BY <3>1, AnnouncedStays
    <3>3. j > p
      BY <1>0, <2>1, <3>1
    <3> QED
      BY <3>1, <3>2, <3>3 DEF Will
  <2> QED
    BY <2>2, <2>3
<1>2. CASE ~RemovedAfter(p, i)
  BY <1>2 DEF Will
<1> QED
  BY <1>1, <1>2

\* What is announced and not taken back after that is stored, or its removal is still to come.
LEMMA ComingIsStored ==
  ASSUME MessagesRight, NEW i \in Ids \ excuse.crossed,
         NEW k \in DOMAIN feed, feed[k] = Message(i), ~RemovedAfter(k, i)
  PROVE  i \in DOMAIN rows \/ Announcing(i)
BY DEF MessagesRight, AnnouncedRight

\* While an event about a message waits for the tab, or was the last it took, its page agrees.
LEMMA AgreesBefore ==
  ASSUME RoomTyped, MessagesRight, NEW i \in Ids \ excuse.crossed, NEW p \in Nat, NEW S \in SUBSET Ids,
         NEW k \in DOMAIN feed, k > p, feed[k] = Message(i)
  PROVE  Agrees(p, S, i)
<1>0. DOMAIN feed \subseteq Nat
  BY DEF RoomTyped
<1>1. i \in DOMAIN rows => Will(p, S, i)
  BY AnnouncedStays DEF Will
<1>2. ASSUME Will(p, S, i) PROVE i \in DOMAIN rows \/ Announcing(i)
  <2>1. CASE \E j \in DOMAIN feed : feed[j] = Message(i) /\ ~RemovedAfter(j, i)
    BY <2>1, ComingIsStored
  <2>2. CASE ~RemovedAfter(p, i)
    <3>1. ~RemovedAfter(k, i)
      BY <1>0, <2>2 DEF RemovedAfter
    <3> QED
      BY <3>1, ComingIsStored
  <2> QED
    BY <1>2, <2>1, <2>2 DEF Will
<1> QED
  BY <1>1, <1>2 DEF Agrees

\* The page that took the event about a message last, and did what it says, agrees.
LEMMA AgreesAfter ==
  ASSUME RoomTyped, MessagesRight, NEW i \in Ids \ excuse.crossed, NEW p \in Nat, NEW S \in SUBSET Ids,
         p \in DOMAIN feed,
         \/ feed[p] = Message(i) /\ i \in S
         \/ Removes(feed[p], i) /\ i \notin S
  PROVE  Agrees(p, S, i)
<1>0. DOMAIN feed \subseteq Nat
  BY DEF RoomTyped
<1>2. CASE feed[p] = Message(i) /\ i \in S
  <2>1. i \in DOMAIN rows => Will(p, S, i)
    BY <1>2, AnnouncedStays DEF Will
  <2>2. ASSUME NEW j \in DOMAIN feed, j > p PROVE feed[j] # Message(i)
    BY <1>0, <1>2, <2>2 DEF MessagesRight, PostsRight
  <2>3. Will(p, S, i) => ~RemovedAfter(p, i)
    BY <2>2 DEF Will
  <2>4. Will(p, S, i) => i \in DOMAIN rows \/ Announcing(i)
    BY <1>2, <2>3, ComingIsStored
  <2> QED
    BY <2>1, <2>4 DEF Agrees
<1>3. CASE Removes(feed[p], i) /\ i \notin S
  <2>1. ASSUME i \in DOMAIN rows, ~Posting(i) PROVE Will(p, S, i)
    <3>1. PICK j \in DOMAIN feed : j > p /\ feed[j] = Message(i)
      BY <1>3, <2>1 DEF MessagesRight, AnnouncedRight
    <3>2. ~RemovedAfter(j, i)
      BY <2>1, <3>1, AnnouncedStays
    <3> QED
      BY <3>1, <3>2 DEF Will
  <2>2. Will(p, S, i) => i \in DOMAIN rows \/ Announcing(i)
    BY <1>3, ComingIsStored DEF Will
  <2> QED
    BY <2>1, <2>2 DEF Agrees
<1> QED
  BY <1>2, <1>3

\* A stored message that is not among the newest has a page of newer ones.
LEMMA NewestOrOlder ==
  ASSUME RoomTyped, NEW i \in DOMAIN rows, i \notin Newest(DOMAIN rows)
  PROVE  Older(i)
<1> DEFINE above == {j \in DOMAIN rows : j > i}
           all == {j \in Ids : j > i}
<1>1. above \subseteq all /\ all \subseteq Ids
  BY DEF RoomTyped
<1>2. IsFiniteSet(Ids)
  BY FS_Interval, IdsAreNumbers DEF Ids
<1>3. IsFiniteSet(all)
  BY <1>1, <1>2, FS_Subset
<1>4. IsFiniteSet(above) /\ Cardinality(above) <= Cardinality(all)
  BY <1>1, <1>3, FS_Subset
<1>5. Cardinality(above) \in Nat /\ Cardinality(all) \in Nat
  BY <1>3, <1>4, FS_CardinalityType
<1>6. ~(Cardinality(above) < PageSize)
  BY DEF Newest
<1> HIDE DEF above
<1>7. Cardinality(all) >= PageSize
  BY <1>4, <1>5, <1>6, RoomAssumption
<1> QED
  BY <1>7 DEF Older

-----------------------------------------------------------------------------
\* What steps that concern no message leave as it is.
LEMMA AgreesUntouched ==
  ASSUME RoomTyped, DOMAIN rows' = DOMAIN rows, NEW i \in Ids, NEW p \in Nat, NEW S \in SUBSET Ids,
         Posting(i)' <=> Posting(i), Announcing(i)' <=> Announcing(i),
         UNCHANGED feed \/ \E us \in SUBSET Users : Broadcast(Online(us))
  PROVE  Agrees(p, S, i)' <=> Agrees(p, S, i)
<1>1. Will(p, S, i)' <=> Will(p, S, i)
  <2>1. CASE UNCHANGED feed
    BY <2>1 DEF Will, RemovedAfter
  <2>2. ASSUME NEW us \in SUBSET Users, Broadcast(Online(us)) PROVE Will(p, S, i)' <=> Will(p, S, i)
    <3>1. Online(us) \in Events
      BY DEF Events
    <3>2. /\ Len(feed) \in Nat /\ DOMAIN feed = 1..Len(feed) /\ DOMAIN feed' = 1..(Len(feed) + 1)
          /\ \A k \in DOMAIN feed : feed'[k] = feed[k]
          /\ feed'[Len(feed) + 1] = Online(us)
      BY <2>2, <3>1, FeedGrows
    <3>3. Message(i) # Online(us) /\ ~Removes(Online(us), i)
      BY EventsDiffer DEF Removes
    <3>4. \A k : RemovedAfter(k, i)' <=> RemovedAfter(k, i)
      BY <3>2, <3>3 DEF RemovedAfter
    <3>5. \A k \in DOMAIN feed' : feed'[k] = Message(i) => k \in DOMAIN feed /\ feed[k] = Message(i)
      BY <3>2, <3>3
    <3> QED
      BY <3>2, <3>4, <3>5 DEF Will
  <2> QED
    BY <2>1, <2>2
<1>2. Older(i)' <=> Older(i)
  BY DEF Older
<1> QED
  BY <1>1, <1>2 DEF Agrees

\* What is stored anew is being posted.
LEMMA AgreesAfterSend ==
  ASSUME RoomTyped, MessagesRight, NEW t \in Tabs, SendMessage(t),
         NEW i \in Ids, NEW p \in Nat, NEW S \in SUBSET Ids, Agrees(p, S, i)
  PROVE  Agrees(p, S, i)'
<1>0. socket \in [Tabs -> Socket] /\ DOMAIN socket[t] = {"at", "pos", "post", "counted"}
  BY DEF RoomTyped, Socket
<1>1. /\ UNCHANGED <<feed, moderator>> /\ DOMAIN rows' = DOMAIN rows \cup {nextMessage}
      /\ socket[t].at = "open"
  BY DEF SendMessage
<1>2. \A u \in Tabs : IF u = t THEN socket'[u].at = "stored" /\ socket'[u].post = nextMessage
                      ELSE socket'[u] = socket[u]
  BY <1>0 DEF SendMessage
<1>3. /\ Posting(i) => Posting(i)'
      /\ i = nextMessage => Posting(i)'
  BY <1>1, <1>2 DEF Posting
<1>4. Announcing(i)' <=> Announcing(i)
  BY <1>1 DEF Announcing
<1>5. (Will(p, S, i)' <=> Will(p, S, i)) /\ (Older(i)' <=> Older(i))
  BY <1>1 DEF Will, RemovedAfter, Older
<1> QED
  BY <1>1, <1>3, <1>4, <1>5 DEF Agrees

\* The new event waits for every tab.
LEMMA AgreesAfterBroadcast ==
  ASSUME RoomTyped, MessagesRight, NEW t \in Tabs, BroadcastMessage(t),
         NEW i \in Ids \ excuse'.crossed, NEW p \in Nat, NEW S \in SUBSET Ids, p <= Len(feed), Agrees(p, S, i)
  PROVE  Agrees(p, S, i)'
<1>4. PICK n : n = socket[t].post
  OBVIOUS
<1>1. /\ UNCHANGED <<rows, nextMessage, moderator>>
      /\ excuse'.crossed = excuse.crossed \cup ({n} \cap excuse.gone)
  BY <1>4, BroadcastEffects
<1>2. n \in Ids /\ n < nextMessage
  BY <1>4, BroadcastEffects
<1>3. /\ Len(feed) \in Nat /\ DOMAIN feed = 1..Len(feed) /\ DOMAIN feed' = 1..(Len(feed) + 1)
      /\ \A k \in DOMAIN feed : feed'[k] = feed[k]
      /\ feed'[Len(feed) + 1] = Message(n)
  BY <1>4, BroadcastEffects
<1>5. Posting(i)' <=> Posting(i) /\ i # n
  BY <1>4, BroadcastEffects
<1>6. Announcing(i)' <=> Announcing(i)
  BY <1>1 DEF Announcing
<1>7. Older(i)' <=> Older(i)
  BY DEF Older
<1>8. ~Removes(Message(n), i) /\ (Message(n) = Message(i) <=> i = n)
  BY <1>2, EventsDiffer DEF Removes
<1>9. \A k : RemovedAfter(k, i)' <=> RemovedAfter(k, i)
  BY <1>3, <1>8 DEF RemovedAfter
<1>10. CASE i = n
  <2>1. ~RemovedAfter(Len(feed) + 1, i)
    BY <1>3 DEF RemovedAfter
  <2>2. Will(p, S, i)'
    BY <1>3, <1>9, <1>10, <2>1 DEF Will
  <2>3. i \in DOMAIN rows \/ Announcing(i)
    BY <1>1, <1>2, <1>10 DEF MessagesRight, RowsRight
  <2> QED
    BY <1>1, <1>6, <2>2, <2>3 DEF Agrees
<1>11. CASE i # n
  <2>1. \A k \in DOMAIN feed' : feed'[k] = Message(i) => k \in DOMAIN feed /\ feed[k] = Message(i)
    BY <1>3, <1>8, <1>11
  <2>2. Will(p, S, i)' <=> Will(p, S, i)
    BY <1>3, <1>9, <2>1 DEF Will
  <2> QED
    BY <1>1, <1>5, <1>6, <1>7, <1>11, <2>2 DEF Agrees
<1> QED
  BY <1>10, <1>11

\* What is deleted is waiting to be announced.
LEMMA AgreesAfterRemoval ==
  ASSUME DOMAIN rows' \subseteq DOMAIN rows, UNCHANGED <<feed, socket>>,
         NEW i \in Ids, NEW p \in Nat, NEW S \in SUBSET Ids, Agrees(p, S, i),
         Announcing(i) \/ i \in DOMAIN rows \ DOMAIN rows' => Announcing(i)'
  PROVE  Agrees(p, S, i)'
<1>1. /\ Will(p, S, i)' <=> Will(p, S, i)
      /\ Posting(i)' <=> Posting(i)
      /\ Older(i)' <=> Older(i)
  BY DEF Will, RemovedAfter, Posting, Older
<1> QED
  BY <1>1 DEF Agrees

\* What is removed will not be shown, whatever the tab shows now.
LEMMA AgreesAfterAnnounce ==
  ASSUME RoomTyped, MessagesRight, NEW m \in Moderators, Announce(m),
         NEW i \in Ids \ excuse'.crossed, NEW p \in Nat, NEW S \in SUBSET Ids, p <= Len(feed), Agrees(p, S, i)
  PROVE  Agrees(p, S, i)'
<1>p. PICK id : id = moderator[m].id
  OBVIOUS
<1>q. PICK gone : gone = moderator[m].gone
  OBVIOUS
<1>1. UNCHANGED <<rows, nextMessage, socket>>
  BY <1>p, <1>q, AnnounceEffects
<1>2. /\ Len(feed) \in Nat /\ DOMAIN feed = 1..Len(feed) /\ DOMAIN feed' = 1..(Len(feed) + 1)
      /\ \A k \in DOMAIN feed : feed'[k] = feed[k]
  BY <1>p, <1>q, AnnounceEffects
<1>3. feed'[Len(feed) + 1] # Message(i)
  BY <1>p, <1>q, AnnounceEffects
<1>4. IF id = None THEN \A j \in DOMAIN rows : j > room.stored ELSE gone = {id}
  BY <1>p, <1>q, AnnounceEffects
<1>5. i \in gone => Announcing(i)
  BY <1>p, <1>q, AnnounceEffects
<1>6. /\ Posting(i)' <=> Posting(i)
      /\ Announcing(i)' => Announcing(i)
      /\ Announcing(i) => Announcing(i)' \/ i \in gone
  BY <1>p, <1>q, AnnounceEffects
<1>7. \A k \in Nat : /\ RemovedAfter(k, i) => RemovedAfter(k, i)'
                     /\ RemovedAfter(k, i)' => RemovedAfter(k, i) \/ id = None \/ id = i
                     /\ k <= Len(feed) /\ (id = None \/ id = i) => RemovedAfter(k, i)'
  BY <1>p, <1>q, AnnounceEffects
<1>8. \A k \in DOMAIN feed' : feed'[k] = Message(i) => k \in DOMAIN feed /\ feed[k] = Message(i)
  BY <1>2, <1>3
<1>9. \A k \in DOMAIN feed : k \in Nat /\ k <= Len(feed)
  BY <1>2
<1>10. Older(i)' <=> Older(i)
  BY DEF Older
<1>11. CASE id = None \/ id = i
  <2>1. ~Will(p, S, i)'
    BY <1>7, <1>8, <1>9, <1>11 DEF Will
  <2>2. ASSUME i \in DOMAIN rows PROVE Posting(i)
    <3>1. ~Announcing(i)
      BY <2>2 DEF MessagesRight, RowsRight
    <3>2. id = None /\ i > room.stored
      BY <1>4, <1>5, <1>11, <2>2, <3>1
    <3>3. ~Said(i)
      BY <1>p, <2>2, <3>2, AnnounceCrosses
    <3> QED
      BY <2>2, <3>2, <3>3 DEF MessagesRight, RowsRight
  <2> QED
    BY <1>1, <1>6, <2>1, <2>2 DEF Agrees
<1>12. CASE ~(id = None \/ id = i)
  <2>1. \A k \in Nat : RemovedAfter(k, i)' <=> RemovedAfter(k, i)
    BY <1>7, <1>12
  <2>2. Will(p, S, i)' <=> Will(p, S, i)
    BY <1>2, <1>8, <1>9, <2>1 DEF Will
  <2>3. Announcing(i)' <=> Announcing(i)
    BY <1>4, <1>6, <1>12
  <2> QED
    BY <1>1, <1>6, <1>10, <2>2, <2>3 DEF Agrees
<1> QED
  BY <1>11, <1>12

-----------------------------------------------------------------------------
\* What a step has to show of the tab whose page or position it changes.
LEMMA PageFrom ==
  ASSUME NEW t \in Tabs, NEW p \in Nat, NEW S \in SUBSET Ids, NEW T \in SUBSET Ids,
         p = socket'[t].pos, S = page'[t].shown, T = page'[t].answer,
         page'[t].at # "asked" => page'[t].touched = {},
         \A i \in T : i < nextMessage',
         \A i \in Ids \ (excuse'.past[t] \cup excuse'.crossed) : Connected(t)' =>
           /\ page'[t].at = "loaded" => Agrees(p, S, i)'
           /\ page'[t].at = "asked" /\ (i \in page'[t].touched => (i \in S <=> i \in T)) => Agrees(p, T, i)'
  PROVE  PageOf(t)'
<1>1. ASSUME Connected(t)', NEW i \in Ids \ (excuse'.past[t] \cup excuse'.crossed)
      PROVE  /\ page'[t].at = "loaded" => Agrees(socket[t].pos, page[t].shown, i)'
             /\ page'[t].at = "asked" /\ (i \in page'[t].touched => (i \in page'[t].shown <=> i \in page'[t].answer))
                  => Agrees(socket[t].pos, page[t].answer, i)'
  BY <1>1
<1> QED
  BY <1>1 DEF PageOf

\* Nothing waits for a new subscriber: only what its page has right already counts.
LEMMA SubscribeKeepsPage ==
  ASSUME RoomTyped, MessagesRight, NEW t \in Tabs, PageOf(t), Subscribe(t)
  PROVE  PageOf(t)'
<1>0. /\ socket \in [Tabs -> Socket] /\ page[t].shown \in SUBSET Ids /\ page[t].answer \in SUBSET Ids
      /\ page[t].at \in {"closed", "asked", "loaded"}
      /\ DOMAIN socket[t] = {"at", "pos", "post", "counted"} /\ Len(feed) \in Nat /\ DOMAIN feed = 1..Len(feed)
      /\ excuse.past \in [Tabs -> SUBSET Ids] /\ DOMAIN rows \subseteq Ids
      /\ DOMAIN excuse = {"past", "crossed", "gone", "eclipsed", "raced", "unaware"}
  BY DEF RoomTyped, Socket, Page, Excuse
<1>1. /\ UNCHANGED <<rows, nextMessage, feed, page>> /\ socket'[t].pos = Len(feed)
  BY <1>0 DEF Subscribe
<1>2. PICK p \in Nat : p = Len(feed)
  BY <1>0
<1>3. PICK S \in SUBSET Ids : S = page[t].shown
  BY <1>0
<1>4. PICK T \in SUBSET Ids : T = page[t].answer
  BY <1>0
<1>5. ASSUME NEW i \in Ids, NEW X \in SUBSET Ids, i \in X <=> i \in DOMAIN rows PROVE Agrees(p, X, i)'
  <2>1. ~RemovedAfter(p, i)' /\ \A k \in DOMAIN feed' : ~(k > p)
    BY <1>0, <1>1, <1>2 DEF RemovedAfter
  <2>2. Will(p, X, i)' <=> i \in X
    BY <2>1 DEF Will
  <2> QED
    BY <1>1, <1>5, <2>2 DEF Agrees
<1>6. /\ page[t].at = "loaded" => excuse'.past[t] = excuse.past[t] \cup Differ(S, DOMAIN rows)
      /\ page[t].at = "asked" => excuse'.past[t] = excuse.past[t] \cup Differ(T, DOMAIN rows)
  BY <1>0, <1>3, <1>4 DEF Subscribe
<1>7. ASSUME NEW i \in Ids \ (excuse'.past[t] \cup excuse'.crossed)
      PROVE  /\ page[t].at = "loaded" => Agrees(p, S, i)'
             /\ page[t].at = "asked" => Agrees(p, T, i)'
  BY <1>5, <1>6 DEF Differ
<1> QED
  BY <1>1, <1>2, <1>3, <1>4, <1>7, PageFrom DEF PageOf

\* The events a lag skips are about the messages that went past the tab.
LEMMA LaggedKeepsPage ==
  ASSUME RoomTyped, MessagesRight, NEW t \in Tabs, PageOf(t), Lagged(t)
  PROVE  PageOf(t)'
<1>0. /\ socket \in [Tabs -> Socket] /\ page[t].shown \in SUBSET Ids /\ page[t].answer \in SUBSET Ids
      /\ page[t].at \in {"closed", "asked", "loaded"} /\ socket[t].pos \in Nat
      /\ DOMAIN socket[t] = {"at", "pos", "post", "counted"} /\ Len(feed) \in Nat /\ DOMAIN feed = 1..Len(feed)
      /\ excuse.past \in [Tabs -> SUBSET Ids] /\ DOMAIN rows \subseteq Ids
      /\ DOMAIN excuse = {"past", "crossed", "gone", "eclipsed", "raced", "unaware"}
  BY DEF RoomTyped, Socket, Page, Excuse
<1>1. /\ UNCHANGED <<rows, nextMessage, feed, page, moderator>> /\ socket'[t].pos = Len(feed) - Capacity
      /\ socket[t].at = "open" /\ Len(feed) - socket[t].pos > Capacity
      /\ \A u \in Tabs : socket'[u].at = socket[u].at /\ socket'[u].post = socket[u].post
  BY <1>0 DEF Lagged, Resume, Behind
<1>2. PICK p \in Nat : p = socket[t].pos
  BY <1>0
<1>3. PICK q \in Nat : q = Len(feed) - Capacity /\ p < q /\ q <= Len(feed)
  <2>1. Capacity \in Nat /\ Len(feed) \in Nat /\ Len(feed) - p > Capacity
    BY <1>0, <1>1, <1>2, RoomAssumption
  <2>2. Len(feed) - Capacity \in Nat /\ p < Len(feed) - Capacity /\ Len(feed) - Capacity <= Len(feed)
    BY <2>1
  <2> QED
    BY <2>2
<1>4. PICK S \in SUBSET Ids : S = page[t].shown
  BY <1>0
<1>5. PICK T \in SUBSET Ids : T = page[t].answer
  BY <1>0
<1> DEFINE skipped == {feed[k] : k \in p + 1 .. q}
           lost == UNION {e.ids : e \in {x \in skipped : x.type # "online"}}
<1>6. /\ excuse'.past[t] = excuse.past[t] \cup lost \cup IF Cleared \in skipped THEN excuse.gone \cup S ELSE {}
      /\ excuse'.crossed = excuse.crossed
  BY <1>0, <1>2, <1>3, <1>4 DEF Lagged
<1>7. ASSUME NEW i \in Ids, i \notin excuse'.past[t], NEW k \in p + 1 .. q
      PROVE  /\ feed[k] # Message(i) /\ feed[k] # Deleted(i)
             /\ feed[k] = Cleared => i \notin excuse.gone /\ i \notin S
  <2>1. feed[k] \in skipped
    OBVIOUS
  <2>2. feed[k].type # "online" => feed[k].ids \subseteq lost
    BY <2>1
  <2>3. feed[k].type # "online" => i \notin feed[k].ids
    BY <1>6, <1>7, <2>2
  <2> HIDE DEF skipped, lost
  <2>4. feed[k] # Message(i) /\ feed[k] # Deleted(i)
    BY <2>3 DEF Message, Deleted
  <2>5. feed[k] = Cleared => i \notin excuse.gone /\ i \notin S
    BY <1>6, <1>7, <2>1
  <2> QED
    BY <2>4, <2>5
<1> HIDE DEF skipped, lost
<1>8. ASSUME NEW i \in Ids, i \notin excuse'.past[t], NEW X \in SUBSET Ids, Agrees(p, X, i),
             i \in X => i < nextMessage \/ i \in S
      PROVE  Agrees(q, X, i)'
  <2>1. /\ Posting(i)' <=> Posting(i)
        /\ Announcing(i)' <=> Announcing(i)
        /\ Older(i)' <=> Older(i)
        /\ Will(q, X, i)' <=> Will(q, X, i)
    BY <1>1 DEF Posting, Announcing, Older, Will, RemovedAfter
  <2>2. \A k \in DOMAIN feed : k > p /\ feed[k] = Message(i) => k > q
    BY <1>0, <1>3, <1>7, <1>8
  <2>3. \A k \in DOMAIN feed : k > q => k > p
    BY <1>0, <1>3
  <2>4. RemovedAfter(q, i) => RemovedAfter(p, i)
    BY <2>3 DEF RemovedAfter
  <2>5. Will(p, X, i) => Will(q, X, i)
    BY <2>2, <2>4 DEF Will
  <2>6. ASSUME Will(q, X, i), ~Will(p, X, i) PROVE i \in DOMAIN rows \/ Announcing(i)
    <3>1. i \in X /\ ~RemovedAfter(q, i) /\ RemovedAfter(p, i)
      BY <2>3, <2>6 DEF Will
    <3>2. PICK k \in DOMAIN feed : k > p /\ Removes(feed[k], i) /\ ~(k > q)
      BY <3>1 DEF RemovedAfter
    <3>3. k \in p + 1 .. q
      BY <1>0, <1>3, <3>2
    <3>4. i \notin excuse.gone /\ i \notin S
      BY <1>7, <1>8, <3>2, <3>3 DEF Removes
    <3>5. i < nextMessage
      BY <1>8, <3>1, <3>4
    <3> QED
      BY <3>4, <3>5 DEF MessagesRight, RowsRight
  <2> QED
    BY <1>1, <1>8, <2>1, <2>5, <2>6 DEF Agrees
<1>9. Connected(t)
  BY <1>1 DEF Connected
<1>10. ASSUME NEW i \in Ids \ (excuse'.past[t] \cup excuse'.crossed)
       PROVE  /\ page[t].at = "loaded" => Agrees(q, S, i)'
              /\ page[t].at = "asked" /\ (i \in page[t].touched => (i \in S <=> i \in T)) => Agrees(q, T, i)'
  <2>1. i \notin excuse.past[t] \cup excuse.crossed
    BY <1>6
  <2>2. ASSUME page[t].at = "loaded" PROVE Agrees(q, S, i)'
    <3>1. Agrees(p, S, i)
      BY <1>2, <1>4, <1>9, <2>1, <2>2 DEF PageOf
    <3> QED
      BY <1>8, <3>1
  <2>3. ASSUME page[t].at = "asked", i \in page[t].touched => (i \in S <=> i \in T) PROVE Agrees(q, T, i)'
    <3>1. Agrees(p, T, i)
      BY <1>2, <1>4, <1>5, <1>9, <2>1, <2>3 DEF PageOf
    <3>2. i \in T => i < nextMessage
      BY <1>5 DEF PageOf
    <3> QED
      BY <1>8, <3>1, <3>2
  <2> QED
    BY <2>2, <2>3
<1> QED
  BY <1>1, <1>3, <1>4, <1>5, <1>10, PageFrom DEF PageOf

\* An event that is not about a message leaves what the page says of it.
LEMMA AgreesOver ==
  ASSUME RoomTyped, NEW i \in Ids, NEW p \in Nat, NEW S \in SUBSET Ids, NEW T \in SUBSET Ids,
         i \in S <=> i \in T, feed[p + 1] # Message(i), ~Removes(feed[p + 1], i)
  PROVE  Agrees(p, S, i) <=> Agrees(p + 1, T, i)
<1>0. DOMAIN feed \subseteq Nat
  BY DEF RoomTyped
<1>1. \A k \in DOMAIN feed : k > p <=> k > p + 1 \/ k = p + 1
  BY <1>0
<1>2. RemovedAfter(p, i) <=> RemovedAfter(p + 1, i)
  BY <1>1 DEF RemovedAfter
<1>3. Will(p, S, i) <=> Will(p + 1, T, i)
  BY <1>1, <1>2 DEF Will
<1> QED
  BY <1>3 DEF Agrees

\* What the page of a tab makes of an event.
LEMMA Delivered ==
  ASSUME RoomTyped, NEW t \in Tabs, NEW e \in Events, Deliver(t, e), NEW S, S = page[t].shown
  PROVE  /\ page'[t].at = page[t].at /\ page'[t].answer = page[t].answer
         /\ page[t].at # "closed" => page'[t].shown = Applied(S, e)
         /\ page[t].at # "asked" => page'[t].touched = {}
         /\ \A i \in Ids : page[t].at = "asked" =>
              (i \in page'[t].touched <=> i \in page[t].touched \/ e = Message(i) \/ Removes(e, i))
         /\ \A i \in Ids : /\ e = Message(i) => i \in Applied(S, e)
                           /\ Removes(e, i) => i \notin Applied(S, e)
                           /\ e # Message(i) /\ ~Removes(e, i) => (i \in Applied(S, e) <=> i \in S)
<1>0. /\ DOMAIN page = Tabs /\ DOMAIN page[t] = {"at", "shown", "answer", "touched", "online", "kept"}
      /\ page[t].touched \in SUBSET Ids
  BY DEF RoomTyped, Page
<1>1. /\ page'[t].at = page[t].at /\ page'[t].answer = page[t].answer
      /\ page[t].at # "closed" => page'[t].shown = Applied(S, e)
      /\ page'[t].touched = IF page[t].at # "asked" THEN {}
                            ELSE IF e.type = "cleared" THEN Ids
                            ELSE page[t].touched \cup IF e.type = "online" THEN {} ELSE e.ids
  BY <1>0 DEF Deliver
<1>2. ASSUME NEW i \in Ids
      PROVE  /\ e.type = "cleared" \/ (e.type # "online" /\ i \in e.ids) <=> e = Message(i) \/ Removes(e, i)
             /\ e = Message(i) => i \in Applied(S, e)
             /\ Removes(e, i) => i \notin Applied(S, e)
             /\ e # Message(i) /\ ~Removes(e, i) => (i \in Applied(S, e) <=> i \in S)
  <2>1. CASE \E j \in Ids : e = Message(j)
    <3>1. PICK j \in Ids : e = Message(j)
      BY <2>1
    <3>2. e = Message(i) <=> i = j
      BY <3>1, EventsDiffer
    <3>3. ~Removes(e, i)
      BY <3>1, EventsDiffer DEF Removes
    <3>4. e.type = "message" /\ e.ids = {j}
      BY <3>1 DEF Message
    <3> QED
      BY <3>2, <3>3, <3>4 DEF Applied
  <2>2. CASE \E j \in Ids : e = Deleted(j)
    <3>1. PICK j \in Ids : e = Deleted(j)
      BY <2>2
    <3>2. e # Message(i) /\ (Removes(e, i) <=> i = j)
      BY <3>1, EventsDiffer DEF Removes
    <3>3. e.type = "deleted" /\ e.ids = {j}
      BY <3>1 DEF Deleted
    <3> QED
      BY <3>2, <3>3 DEF Applied
  <2>3. CASE e = Cleared
    <3>1. e # Message(i) /\ Removes(e, i)
      BY <2>3, EventsDiffer DEF Removes
    <3>2. e.type = "cleared"
      BY <2>3 DEF Cleared
    <3> QED
      BY <3>1, <3>2 DEF Applied
  <2>4. CASE \E us \in SUBSET Users : e = Online(us)
    <3>1. e # Message(i) /\ ~Removes(e, i)
      BY <2>4, EventsDiffer DEF Removes
    <3>2. e.type = "online"
      BY <2>4 DEF Online
    <3> QED
      BY <3>1, <3>2 DEF Applied
  <2> QED
    BY <2>1, <2>2, <2>3, <2>4 DEF Events
<1>3. ASSUME NEW i \in Ids, page[t].at = "asked"
      PROVE  i \in page'[t].touched <=> i \in page[t].touched \/ e = Message(i) \/ Removes(e, i)
  <2>1. CASE e.type = "cleared"
    BY <1>1, <1>2, <1>3, <2>1
  <2>2. CASE e.type # "cleared"
    BY <1>1, <1>2, <1>3, <2>2
  <2> QED
    BY <2>1, <2>2
<1>4. page[t].at # "asked" => page'[t].touched = {}
  BY <1>1
<1> QED
  BY <1>1, <1>2, <1>3, <1>4

\* Applying an event to what is shown gives message ids.
LEMMA AppliedIds ==
  ASSUME NEW e \in Events, NEW S \in SUBSET Ids
  PROVE  Applied(S, e) \in SUBSET Ids
<1>1. CASE \E i \in Ids : e = Message(i)
  BY <1>1 DEF Applied, Message
<1>2. CASE e.type \in {"deleted", "cleared", "online"}
  BY <1>2 DEF Applied
<1>3. (\E i \in Ids : e = Message(i)) \/ e.type \in {"deleted", "cleared", "online"}
  BY DEF Events, Deleted, Cleared, Online
<1> QED
  BY <1>1, <1>2, <1>3

\* An event is taken, and the page does what it says.
LEMMA ReceiveKeepsPage ==
  ASSUME RoomTyped, MessagesRight, NEW t \in Tabs, PageOf(t), Receive(t)
  PROVE  PageOf(t)'
<1>0. /\ socket \in [Tabs -> Socket] /\ page[t].shown \in SUBSET Ids /\ page[t].answer \in SUBSET Ids
      /\ page[t].at \in {"closed", "asked", "loaded"} /\ socket[t].pos \in Nat
      /\ DOMAIN socket[t] = {"at", "pos", "post", "counted"} /\ Len(feed) \in Nat /\ DOMAIN feed = 1..Len(feed)
      /\ DOMAIN excuse = {"past", "crossed", "gone", "eclipsed", "raced", "unaware"}
  BY DEF RoomTyped, Socket, Page, Excuse
<1>2. PICK p \in Nat : p = socket[t].pos
  BY <1>0
<1>3. PICK e \in Events : e = feed[p + 1]
  BY <1>2 DEF Receive, RoomTyped
<1>4. PICK S \in SUBSET Ids : S = page[t].shown
  BY <1>0
<1>5. PICK T \in SUBSET Ids : T = page[t].answer
  BY <1>0
<1>1. /\ UNCHANGED <<rows, nextMessage, feed, moderator>> /\ socket'[t].pos = p + 1
      /\ Deliver(t, e) /\ p < Len(feed) /\ Connected(t)
      /\ excuse'.past = excuse.past /\ excuse'.crossed = excuse.crossed
      /\ \A u \in Tabs : socket'[u].at = socket[u].at /\ socket'[u].post = socket[u].post
  BY <1>0, <1>2, <1>3 DEF Receive, Connected
<1>6. PICK N : N = Applied(S, e)
  OBVIOUS
<1>7. /\ page'[t].at = page[t].at /\ page'[t].answer = T
      /\ page[t].at # "closed" => page'[t].shown = N
      /\ page[t].at # "asked" => page'[t].touched = {}
      /\ \A i \in Ids : page[t].at = "asked" =>
           (i \in page'[t].touched <=> i \in page[t].touched \/ e = Message(i) \/ Removes(e, i))
  BY <1>1, <1>4, <1>5, <1>6, Delivered
<1>8. \A i \in Ids : /\ e = Message(i) => i \in N
                     /\ Removes(e, i) => i \notin N
                     /\ e # Message(i) /\ ~Removes(e, i) => (i \in N <=> i \in S)
  BY <1>1, <1>4, <1>6, Delivered
<1>9. N \in SUBSET Ids
  BY <1>3, <1>4, <1>6, AppliedIds
<1>10. p + 1 \in Nat /\ p + 1 \in DOMAIN feed
  BY <1>0, <1>1
<1>11. ASSUME NEW i \in Ids, NEW X \in SUBSET Ids PROVE Agrees(p + 1, X, i)' <=> Agrees(p + 1, X, i)
  <2>1. Posting(i)' <=> Posting(i)
    BY <1>1 DEF Posting
  <2>2. Announcing(i)' <=> Announcing(i)
    BY <1>1 DEF Announcing
  <2> QED
    BY <1>1, <1>10, <2>1, <2>2, AgreesUntouched
<1>12. ASSUME NEW i \in Ids \ (excuse.past[t] \cup excuse.crossed)
       PROVE  /\ page[t].at = "loaded" => Agrees(p + 1, N, i)
              /\ page[t].at = "asked" /\ (i \in page'[t].touched => (i \in N <=> i \in T)) => Agrees(p + 1, T, i)
  <2>1. ASSUME e = Message(i) \/ Removes(e, i), NEW X \in SUBSET Ids, i \in X <=> i \in N PROVE Agrees(p + 1, X, i)
    BY <1>3, <1>8, <1>10, <2>1, AgreesAfter
  <2>2. ASSUME e # Message(i), ~Removes(e, i), page[t].at = "loaded" PROVE Agrees(p + 1, N, i)
    <3>1. Agrees(p, S, i)
      BY <1>1, <1>2, <1>4, <2>2 DEF PageOf
    <3>2. i \in S <=> i \in N
      BY <1>8, <2>2
    <3> QED
      BY <1>3, <1>9, <2>2, <3>1, <3>2, AgreesOver
  <2>3. ASSUME e # Message(i), ~Removes(e, i), page[t].at = "asked", i \in page'[t].touched => (i \in N <=> i \in T)
        PROVE  Agrees(p + 1, T, i)
    <3>1. i \in page[t].touched => (i \in S <=> i \in T)
      BY <1>7, <1>8, <2>3
    <3>2. Agrees(p, T, i)
      BY <1>1, <1>2, <1>4, <1>5, <2>3, <3>1 DEF PageOf
    <3> QED
      BY <1>3, <2>3, <3>2, AgreesOver
  <2>4. ASSUME e = Message(i) \/ Removes(e, i), page[t].at = "asked" PROVE i \in page'[t].touched
    BY <1>7, <2>4
  <2> QED
    BY <1>9, <2>1, <2>2, <2>3, <2>4
<1>13. PICK M \in SUBSET Ids : M = page'[t].shown /\ (page[t].at # "closed" => M = N)
  <2>1. page'[t].shown \in SUBSET Ids
    <3>1. CASE page[t].at = "closed"
      BY <1>1, <3>1 DEF Deliver, RoomTyped, Page
    <3>2. CASE page[t].at # "closed"
      BY <1>7, <1>9, <3>2
    <3> QED
      BY <3>1, <3>2
  <2> QED
    BY <1>7, <2>1
<1>14. \A i \in T : i < nextMessage'
  BY <1>1, <1>5 DEF PageOf
<1>15. ASSUME NEW i \in Ids \ (excuse'.past[t] \cup excuse'.crossed)
       PROVE  /\ page[t].at = "loaded" => Agrees(p + 1, M, i)'
              /\ page[t].at = "asked" /\ (i \in page'[t].touched => (i \in M <=> i \in T)) => Agrees(p + 1, T, i)'
  BY <1>1, <1>11, <1>12, <1>13
<1>16. page'[t].at # "asked" => page'[t].touched = {}
  BY <1>7
<1> QED
  BY <1>1, <1>7, <1>10, <1>13, <1>14, <1>15, <1>16, PageFrom

\* The reply shows the message before its event reaches the tab.
LEMMA ReplyKeepsPage ==
  ASSUME RoomTyped, MessagesRight, NEW t \in Tabs, PageOf(t), Reply(t)
  PROVE  PageOf(t)'
<1>0. /\ socket \in [Tabs -> Socket] /\ page[t].shown \in SUBSET Ids /\ page[t].answer \in SUBSET Ids
      /\ page[t].at \in {"closed", "asked", "loaded"} /\ socket[t].pos \in Nat
      /\ DOMAIN socket[t] = {"at", "pos", "post", "counted"} /\ DOMAIN feed \subseteq Nat
  BY DEF RoomTyped, Socket, Page
<1>2. PICK p \in Nat : p = socket[t].pos
  BY <1>0
<1>3. PICK n \in Ids : n = socket[t].post
  BY DEF Reply, MessagesRight, PostsRight
<1>e. PICK e \in Events : e = Message(n)
  BY DEF Events
<1>4. PICK S \in SUBSET Ids : S = page[t].shown
  BY <1>0
<1>5. PICK T \in SUBSET Ids : T = page[t].answer
  BY <1>0
<1>1. /\ UNCHANGED <<rows, nextMessage, feed, moderator, excuse>> /\ socket'[t].pos = p
      /\ Deliver(t, e) /\ Connected(t)
      /\ \A u \in Tabs : socket'[u].at = "stored" <=> socket[u].at = "stored"
      /\ \A u \in Tabs : socket'[u].at = "stored" => socket'[u] = socket[u]
  BY <1>0, <1>2, <1>3, <1>e DEF Reply, Connected
<1>k. PICK k \in DOMAIN feed : k > p /\ feed[k] = Message(n)
  BY <1>2, <1>3 DEF Reply, MessagesRight, PostsRight
<1>6. PICK N : N = Applied(S, e)
  OBVIOUS
<1>7. /\ page'[t].at = page[t].at /\ page'[t].answer = T
      /\ page[t].at # "closed" => page'[t].shown = N
      /\ page[t].at # "asked" => page'[t].touched = {}
      /\ \A i \in Ids : page[t].at = "asked" =>
           (i \in page'[t].touched <=> i \in page[t].touched \/ e = Message(i) \/ Removes(e, i))
  BY <1>1, <1>4, <1>5, <1>6, Delivered
<1>8. \A i \in Ids : e # Message(i) /\ ~Removes(e, i) => (i \in N <=> i \in S)
  BY <1>1, <1>4, <1>6, Delivered
<1>9. N \in SUBSET Ids
  BY <1>4, <1>6, AppliedIds
<1>10. \A i \in Ids : i # n => e # Message(i) /\ ~Removes(e, i)
  BY <1>3, <1>e, EventsDiffer DEF Removes
<1>11. ASSUME NEW i \in Ids, NEW X \in SUBSET Ids PROVE Agrees(p, X, i)' <=> Agrees(p, X, i)
  <2>1. Posting(i)' <=> Posting(i)
    BY <1>1 DEF Posting
  <2>2. Announcing(i)' <=> Announcing(i)
    BY <1>1 DEF Announcing
  <2> QED
    BY <1>1, <2>1, <2>2, AgreesUntouched
<1>12. ASSUME NEW i \in Ids \ (excuse.past[t] \cup excuse.crossed)
       PROVE  /\ page[t].at = "loaded" => Agrees(p, N, i)
              /\ page[t].at = "asked" /\ (i \in page'[t].touched => (i \in N <=> i \in T)) => Agrees(p, T, i)
  <2>1. ASSUME i = n, NEW X \in SUBSET Ids PROVE Agrees(p, X, i)
    BY <1>k, <2>1, AgreesBefore
  <2>2. ASSUME i # n, page[t].at = "loaded" PROVE Agrees(p, N, i)
    <3>1. Agrees(p, S, i)
      BY <1>1, <1>2, <1>4, <2>2 DEF PageOf
    <3>2. i \in S <=> i \in N
      BY <1>8, <1>10, <2>2
    <3> QED
      BY <3>1, <3>2 DEF Agrees, Will
  <2>3. ASSUME i # n, page[t].at = "asked", i \in page'[t].touched => (i \in N <=> i \in T)
        PROVE  Agrees(p, T, i)
    <3>1. i \in page[t].touched => (i \in S <=> i \in T)
      BY <1>7, <1>8, <1>10, <2>3
    <3> QED
      BY <1>1, <1>2, <1>4, <1>5, <2>3, <3>1 DEF PageOf
  <2> QED
    BY <1>9, <2>1, <2>2, <2>3
<1>13. PICK M \in SUBSET Ids : M = page'[t].shown /\ (page[t].at # "closed" => M = N)
  <2>1. page'[t].shown \in SUBSET Ids
    <3>1. CASE page[t].at = "closed"
      BY <1>1, <3>1 DEF Deliver, RoomTyped, Page
    <3>2. CASE page[t].at # "closed"
      BY <1>7, <1>9, <3>2
    <3> QED
      BY <3>1, <3>2
  <2> QED
    BY <1>7, <2>1
<1>14. \A i \in T : i < nextMessage'
  BY <1>1, <1>5 DEF PageOf
<1>15. ASSUME NEW i \in Ids \ (excuse'.past[t] \cup excuse'.crossed)
       PROVE  /\ page[t].at = "loaded" => Agrees(p, M, i)'
              /\ page[t].at = "asked" /\ (i \in page'[t].touched => (i \in M <=> i \in T)) => Agrees(p, T, i)'
  BY <1>1, <1>11, <1>12, <1>13
<1>16. page'[t].at # "asked" => page'[t].touched = {}
  BY <1>7
<1> QED
  BY <1>1, <1>7, <1>13, <1>14, <1>15, <1>16, PageFrom

\* The newest stored messages are what the waiting events still miss or take back.
LEMMA FetchKeepsPage ==
  ASSUME RoomTyped, MessagesRight, NEW t \in Tabs, PageOf(t), FetchHistory(t)
  PROVE  PageOf(t)'
<1>0. /\ page[t].shown \in SUBSET Ids /\ socket[t].pos \in Nat /\ DOMAIN rows \in SUBSET Ids
      /\ DOMAIN page = Tabs /\ DOMAIN page[t] = {"at", "shown", "answer", "touched", "online", "kept"}
  BY DEF RoomTyped, Socket, Page
<1>1. /\ UNCHANGED <<rows, nextMessage, feed, moderator, socket, excuse>>
      /\ page'[t].at = "asked" /\ page'[t].shown = page[t].shown /\ page'[t].answer = Newest(DOMAIN rows)
      /\ page'[t].touched = {}
  BY <1>0 DEF FetchHistory, Visit, PageOf
<1>2. PICK p \in Nat : p = socket[t].pos
  BY <1>0
<1>3. PICK S \in SUBSET Ids : S = page[t].shown
  BY <1>0
<1>4. PICK T \in SUBSET Ids : T = Newest(DOMAIN rows) /\ T \subseteq DOMAIN rows
  BY <1>0 DEF Newest
<1>5. ASSUME NEW i \in Ids \ excuse.crossed PROVE Agrees(p, T, i)
  <2>1. ASSUME i \in DOMAIN rows PROVE Will(p, T, i) \/ Posting(i) \/ Older(i)
    BY <1>4, <2>1, StoredWillShow, NewestOrOlder
  <2>2. ASSUME Will(p, T, i) PROVE i \in DOMAIN rows \/ Announcing(i)
    BY <1>4, <2>2, ComingIsStored DEF Will
  <2> QED
    BY <2>1, <2>2 DEF Agrees
<1>6. ASSUME NEW i \in Ids \ excuse.crossed PROVE Agrees(p, T, i)'
  <2>1. Posting(i)' <=> Posting(i)
    BY <1>1 DEF Posting
  <2>2. Announcing(i)' <=> Announcing(i)
    BY <1>1 DEF Announcing
  <2> QED
    BY <1>1, <1>5, <2>1, <2>2, AgreesUntouched
<1>7. \A i \in T : i < nextMessage'
  BY <1>1, <1>4 DEF MessagesRight, RowsRight
<1> QED
  BY <1>1, <1>2, <1>3, <1>4, <1>6, <1>7, PageFrom

\* The answer replaces the page; what an event changed meanwhile went past the tab.
LEMMA ShowKeepsPage ==
  ASSUME RoomTyped, MessagesRight, NEW t \in Tabs, PageOf(t), ShowHistory(t)
  PROVE  PageOf(t)'
<1>0. /\ page[t].shown \in SUBSET Ids /\ page[t].answer \in SUBSET Ids /\ socket[t].pos \in Nat
      /\ DOMAIN page = Tabs /\ DOMAIN page[t] = {"at", "shown", "answer", "touched", "online", "kept"}
      /\ excuse.past \in [Tabs -> SUBSET Ids]
      /\ DOMAIN excuse = {"past", "crossed", "gone", "eclipsed", "raced", "unaware"}
  BY DEF RoomTyped, Socket, Page, Excuse
<1>1. /\ UNCHANGED <<rows, nextMessage, feed, moderator, socket>>
      /\ page[t].at = "asked" /\ page'[t].at = "loaded" /\ page'[t].shown = page[t].answer
      /\ page'[t].touched = {} /\ page'[t].answer = page[t].answer /\ excuse'.crossed = excuse.crossed
      /\ excuse'.past[t] = excuse.past[t] \cup (page[t].touched \cap Differ(page[t].shown, page[t].answer))
  BY <1>0 DEF ShowHistory
<1>2. PICK p \in Nat : p = socket[t].pos
  BY <1>0
<1>3. PICK T \in SUBSET Ids : T = page[t].answer
  BY <1>0
<1>4. ASSUME NEW i \in Ids \ (excuse'.past[t] \cup excuse'.crossed), Connected(t) PROVE Agrees(p, T, i)'
  <2>1. i \in page[t].touched => (i \in page[t].shown <=> i \in page[t].answer)
    BY <1>1, <1>4 DEF Differ
  <2>2. i \in Ids \ (excuse.past[t] \cup excuse.crossed)
    BY <1>1, <1>4
  <2>3. Agrees(p, T, i)
    BY <1>1, <1>2, <1>3, <1>4, <2>1, <2>2 DEF PageOf
  <2>4. Posting(i)' <=> Posting(i)
    BY <1>1 DEF Posting
  <2>5. Announcing(i)' <=> Announcing(i)
    BY <1>1 DEF Announcing
  <2> QED
    BY <1>1, <2>3, <2>4, <2>5, AgreesUntouched
<1>5. Connected(t)' <=> Connected(t)
  BY <1>1 DEF Connected
<1>6. \A i \in T : i < nextMessage'
  BY <1>1, <1>3 DEF PageOf
<1>7. ASSUME NEW i \in Ids \ (excuse'.past[t] \cup excuse'.crossed), Connected(t)' PROVE Agrees(p, T, i)'
  BY <1>4, <1>5, <1>7
<1> QED
  BY <1>1, <1>2, <1>3, <1>6, <1>7, PageFrom

\* A kept answer is right about all that is as it was when it was read.
LEMMA ReopenKeepsPage ==
  ASSUME RoomTyped, MessagesRight, NEW t \in Tabs, PageOf(t), Reopen(t)
  PROVE  PageOf(t)'
<1>0. /\ page[t].shown \in SUBSET Ids /\ page[t].answer \in SUBSET Ids /\ socket[t].pos \in Nat
      /\ DOMAIN rows \subseteq Ids
      /\ DOMAIN page = Tabs /\ DOMAIN page[t] = {"at", "shown", "answer", "touched", "online", "kept"}
      /\ excuse.past \in [Tabs -> SUBSET Ids]
      /\ DOMAIN excuse = {"past", "crossed", "gone", "eclipsed", "raced", "unaware"}
  BY DEF RoomTyped, Socket, Page, Excuse
<1>1. /\ UNCHANGED <<rows, nextMessage, feed, moderator, socket>>
      /\ page'[t].touched = {} /\ page'[t].answer = page[t].answer /\ excuse'.crossed = excuse.crossed
      /\ page'[t].shown \in {page[t].shown, page[t].answer}
      /\ page'[t].at = "loaded" => page'[t].shown = page[t].answer
      /\ excuse'.past[t] = excuse.past[t] \cup Differ(page[t].answer, DOMAIN rows)
  BY <1>0 DEF Reopen, Visit, PageOf
<1>2. PICK p \in Nat : p = socket[t].pos
  BY <1>0
<1>3. PICK T \in SUBSET Ids : T = page[t].answer
  BY <1>0
<1>4. PICK S \in SUBSET Ids : S = page'[t].shown
  BY <1>0, <1>1
<1>5. ASSUME NEW i \in Ids \ excuse.crossed, i \in T <=> i \in DOMAIN rows PROVE Agrees(p, T, i)
  <2>1. ASSUME i \in DOMAIN rows PROVE Will(p, T, i) \/ Posting(i)
    BY <1>5, <2>1, StoredWillShow
  <2>2. ASSUME Will(p, T, i) PROVE i \in DOMAIN rows \/ Announcing(i)
    BY <1>5, <2>2, ComingIsStored DEF Will
  <2> QED
    BY <2>1, <2>2 DEF Agrees
<1>6. ASSUME NEW i \in Ids \ (excuse'.past[t] \cup excuse'.crossed) PROVE Agrees(p, T, i)'
  <2>1. Agrees(p, T, i)
    BY <1>1, <1>3, <1>5, <1>6 DEF Differ
  <2>2. Posting(i)' <=> Posting(i)
    BY <1>1 DEF Posting
  <2>3. Announcing(i)' <=> Announcing(i)
    BY <1>1 DEF Announcing
  <2> QED
    BY <1>1, <2>1, <2>2, <2>3, AgreesUntouched
<1>7. \A i \in T : i < nextMessage'
  BY <1>1, <1>3 DEF PageOf
<1>8. page'[t].at = "loaded" => S = T
  BY <1>1, <1>3, <1>4
<1>9. page'[t].at = "loaded" => \A i \in Ids \ (excuse'.past[t] \cup excuse'.crossed) : Agrees(p, S, i)'
  BY <1>6, <1>8
<1> QED
  BY <1>1, <1>2, <1>3, <1>4, <1>6, <1>7, <1>9, PageFrom

\* Of a page that is closed, or whose cache is filled or empties, nothing new is said.
LEMMA ShutKeepsPage ==
  ASSUME RoomTyped, NEW t \in Tabs, PageOf(t), KeepHistory(t) \/ ClosePage(t) \/ Expire(t)
  PROVE  PageOf(t)'
<1>0. /\ page[t].shown \in SUBSET Ids /\ page[t].answer \in SUBSET Ids /\ page[t].touched \in SUBSET Ids
      /\ socket[t].pos \in Nat
      /\ DOMAIN page = Tabs /\ DOMAIN page[t] = {"at", "shown", "answer", "touched", "online", "kept"}
  BY DEF RoomTyped, Socket, Page
<1>1. UNCHANGED <<rows, nextMessage, feed, moderator, socket, excuse>>
  BY DEF KeepHistory, ClosePage, Expire
<1>2. ASSUME NEW i \in Ids, NEW p \in Nat, NEW X \in SUBSET Ids PROVE Agrees(p, X, i)' <=> Agrees(p, X, i)
  <2>1. (Posting(i)' <=> Posting(i)) /\ (Announcing(i)' <=> Announcing(i))
    BY <1>1 DEF Posting, Announcing
  <2> QED
    BY <1>1, <2>1, AgreesUntouched
<1>3. PICK p \in Nat : p = socket[t].pos
  BY <1>0
<1>4. PICK S \in SUBSET Ids : S = page[t].shown
  BY <1>0
<1>5. PICK T \in SUBSET Ids : T = page[t].answer
  BY <1>0
<1>6. (Connected(t)' <=> Connected(t)) /\ excuse' = excuse
  BY <1>1 DEF Connected
<1>7. CASE KeepHistory(t) \/ ClosePage(t)
  <2>1. page'[t].at = "closed" /\ page'[t].answer = T /\ page'[t].touched = {} /\ page'[t].shown \in SUBSET Ids
    BY <1>0, <1>5, <1>7 DEF KeepHistory, ClosePage, PageOf
  <2>2. \A i \in T : i < nextMessage'
    BY <1>1, <1>5 DEF PageOf
  <2> QED
    BY <1>1, <1>3, <2>1, <2>2, PageFrom
<1>8. CASE Expire(t)
  <2>1. /\ page'[t].at = page[t].at /\ page'[t].answer = T /\ page'[t].shown = S
        /\ page'[t].touched = page[t].touched
    BY <1>0, <1>4, <1>5, <1>8 DEF Expire
  <2>2. ASSUME NEW i \in Ids \ (excuse'.past[t] \cup excuse'.crossed), Connected(t)'
        PROVE  /\ page'[t].at = "loaded" => Agrees(p, S, i)'
               /\ page'[t].at = "asked" /\ (i \in page'[t].touched => (i \in S <=> i \in T)) => Agrees(p, T, i)'
    BY <1>2, <1>3, <1>4, <1>5, <1>6, <2>1, <2>2 DEF PageOf
  <2>3. \A i \in T : i < nextMessage'
    BY <1>1, <1>5 DEF PageOf
  <2>4. page'[t].at # "asked" => page'[t].touched = {}
    BY <2>1 DEF PageOf
  <2> QED
    BY <1>1, <1>3, <1>4, <1>5, <2>1, <2>2, <2>3, <2>4, PageFrom
<1> QED
  BY <1>7, <1>8

-----------------------------------------------------------------------------
\* A tab that a step does nothing to: every event adds to what waits for it.
LEMMA OthersCarried ==
  ASSUME RoomTyped, MessagesRight, NEW t \in Tabs, PageOf(t), page'[t] = page[t], Connected(t)' => Connected(t),
         socket'[t].pos = socket[t].pos, excuse.past[t] \subseteq excuse'.past[t],
         \/ \E u \in Tabs : SendMessage(u) \/ BroadcastMessage(u)
         \/ \E m \in Moderators : DeleteMessage(m) \/ ClearMessages(m) \/ Announce(m)
         \/ /\ UNCHANGED <<rows, nextMessage, moderator>> /\ excuse'.crossed = excuse.crossed
            /\ \A u \in Tabs : /\ socket'[u].at = "stored" <=> socket[u].at = "stored"
                               /\ socket'[u].at = "stored" => socket'[u].post = socket[u].post
            /\ UNCHANGED feed \/ \E us \in SUBSET Users : Broadcast(Online(us))
  PROVE  PageOf(t)'
<1>0. /\ moderator \in [Moderators -> Moderation] /\ DOMAIN rows \subseteq Ids
      /\ DOMAIN excuse = {"past", "crossed", "gone", "eclipsed", "raced", "unaware"}
  BY DEF RoomTyped, Excuse
<1>n. nextMessage \in Nat
  BY DEF RoomTyped
<1>p. Connected(t) => socket[t].pos <= Len(feed)
  BY DEF MessagesRight, PostsRight, Connected
<1>1. ASSUME NEW u \in Tabs, SendMessage(u) PROVE PageOf(t)'
  <2>1. nextMessage' = nextMessage + 1 /\ UNCHANGED excuse
    BY <1>1 DEF SendMessage
  <2>2. \A i \in Ids \ excuse'.crossed, p \in Nat, S \in SUBSET Ids : Agrees(p, S, i) => Agrees(p, S, i)'
    BY <1>1, AgreesAfterSend
  <2>3. ASSUME NEW i \in Ids, i < nextMessage PROVE i < nextMessage'
    <3>1. i \in Nat
      BY IdsAreNumbers
    <3> QED
      BY <1>n, <2>1, <2>3, <3>1
  <2> QED
    BY <2>1, <2>2, <2>3, PageCarried
<1>2. ASSUME NEW u \in Tabs, BroadcastMessage(u) PROVE PageOf(t)'
  <2>1. UNCHANGED nextMessage /\ excuse.crossed \subseteq excuse'.crossed
    BY <1>0, <1>2 DEF BroadcastMessage
  <2>2. \A i \in Ids \ excuse'.crossed, p \in Nat, S \in SUBSET Ids :
          Connected(t) /\ p = socket[t].pos /\ Agrees(p, S, i) => Agrees(p, S, i)'
    BY <1>2, <1>p, AgreesAfterBroadcast
  <2> QED
    BY <2>1, <2>2, PageCarried
<1>3. ASSUME NEW m \in Moderators, DeleteMessage(m) \/ ClearMessages(m) PROVE PageOf(t)'
  <2>1. /\ UNCHANGED <<nextMessage, feed, socket, excuse>> /\ DOMAIN rows' \subseteq DOMAIN rows
        /\ \A n \in Moderators \ {m} : moderator'[n] = moderator[n]
        /\ moderator[m].at # "announce"
        /\ \A i \in DOMAIN rows \ DOMAIN rows' : moderator'[m].at = "announce" /\ i \in moderator'[m].gone
    <3>1. CASE ClearMessages(m)
      BY <1>0, <3>1 DEF ClearMessages
    <3>2. CASE DeleteMessage(m)
      <4>1. DOMAIN moderator[m] = {"at", "id", "gone"}
        BY <1>0 DEF Moderation
      <4>2. CASE moderator[m].id \in DOMAIN rows
        <5>1. /\ UNCHANGED <<nextMessage, feed, socket, excuse>> /\ moderator[m].at = "found"
              /\ DOMAIN rows' = DOMAIN rows \ {moderator[m].id}
              /\ moderator' = [moderator EXCEPT ![m] = [moderator[m] EXCEPT !.at = "announce", !.gone = {moderator[m].id}]]
          BY <3>2, <4>2 DEF DeleteMessage, Without
        <5>2. moderator'[m].at = "announce" /\ moderator'[m].gone = {moderator[m].id}
          BY <1>0, <4>1, <5>1
        <5> QED
          BY <1>0, <5>1, <5>2
      <4>3. CASE moderator[m].id \notin DOMAIN rows
        BY <1>0, <3>2, <4>1, <4>3 DEF DeleteMessage
      <4> QED
        BY <4>2, <4>3
    <3> QED
      BY <1>3, <3>1, <3>2
  <2>2. \A i \in Ids : Announcing(i) \/ i \in DOMAIN rows \ DOMAIN rows' => Announcing(i)'
    BY <2>1 DEF Announcing
  <2>3. \A i \in Ids \ excuse'.crossed, p \in Nat, S \in SUBSET Ids : Agrees(p, S, i) => Agrees(p, S, i)'
    BY <2>1, <2>2, AgreesAfterRemoval
  <2> QED
    BY <2>1, <2>3, PageCarried
<1>4. ASSUME NEW m \in Moderators, Announce(m) PROVE PageOf(t)'
  <2>1. UNCHANGED nextMessage /\ excuse.crossed \subseteq excuse'.crossed
    BY <1>0, <1>4 DEF Announce
  <2>2. \A i \in Ids \ excuse'.crossed, p \in Nat, S \in SUBSET Ids :
          Connected(t) /\ p = socket[t].pos /\ Agrees(p, S, i) => Agrees(p, S, i)'
    BY <1>4, <1>p, AgreesAfterAnnounce
  <2> QED
    BY <2>1, <2>2, PageCarried
<1>5. ASSUME UNCHANGED <<rows, nextMessage, moderator>>, excuse'.crossed = excuse.crossed,
             \A u \in Tabs : /\ socket'[u].at = "stored" <=> socket[u].at = "stored"
                             /\ socket'[u].at = "stored" => socket'[u].post = socket[u].post,
             UNCHANGED feed \/ \E us \in SUBSET Users : Broadcast(Online(us))
      PROVE  PageOf(t)'
  <2>1. \A i \in Ids : (Posting(i)' <=> Posting(i)) /\ (Announcing(i)' <=> Announcing(i))
    BY <1>5 DEF Posting, Announcing
  <2>2. ASSUME NEW i \in Ids, NEW p \in Nat, NEW S \in SUBSET Ids PROVE Agrees(p, S, i) => Agrees(p, S, i)'
    BY <1>5, <2>1, AgreesUntouched
  <2> QED
    BY <1>5, <2>2, PageCarried
<1> QED
  BY <1>1, <1>2, <1>3, <1>4, <1>5

\* Every step keeps what is said of the pages.
LEMMA PagesKept ==
  ASSUME RoomTyped, MessagesRight, PagesRight, [ChatNext]_chatVars
  PROVE  PagesRight'
<1>0. /\ socket \in [Tabs -> Socket] /\ page \in [Tabs -> Page] /\ excuse.past \in [Tabs -> SUBSET Ids]
      /\ DOMAIN excuse = {"past", "crossed", "gone", "eclipsed", "raced", "unaware"}
      /\ \A t \in Tabs : DOMAIN socket[t] = {"at", "pos", "post", "counted"} /\ socket[t].counted \in SUBSET Users
  BY DEF RoomTyped, Socket, Excuse
<1>1. CASE UNCHANGED chatVars
  <2>1. ASSUME NEW u \in Tabs PROVE PageOf(u)'
    <3>1. PageOf(u) /\ (Connected(u)' => Connected(u))
      BY <1>1 DEF PagesRight, chatVars, Connected
    <3> QED
      BY <1>1, <3>1, OthersCarried DEF chatVars
  <2> QED
    BY <2>1 DEF PagesRight
<1>2. ASSUME NEW t \in Tabs,
             Subscribe(t) \/ Register(t) \/ ReadMembers(t) \/ SendOnline(t) \/ Leave(t)
               \/ Reply(t) \/ Lagged(t) \/ Receive(t) \/ History(t)
      PROVE  PagesRight'
  <2>1. UNCHANGED <<rows, nextMessage, moderator>>
    BY <1>2, HistoryOnly DEF Subscribe, Register, ReadMembers, SendOnline, Leave, Reply, Lagged, Receive
  <2>2. excuse'.crossed = excuse.crossed /\ \A u \in Tabs : excuse.past[u] \subseteq excuse'.past[u]
    <3>0. CASE Subscribe(t)
      BY <1>0, <3>0 DEF Subscribe
    <3>1. CASE Register(t) \/ ReadMembers(t) \/ SendOnline(t) \/ Leave(t)
      BY <1>0, <3>1 DEF Register, ReadMembers, SendOnline, Leave
    <3>2. CASE Lagged(t)
      BY <1>0, <3>2 DEF Lagged
    <3>3. CASE Reply(t) \/ Receive(t) \/ History(t)
      BY <1>0, <3>3, HistoryOnly DEF Reply, Receive
    <3> QED
      BY <1>2, <3>0, <3>1, <3>2, <3>3
  <2>3. UNCHANGED feed \/ \E us \in SUBSET Users : Broadcast(Online(us))
    BY <1>0, <1>2, HistoryOnly DEF Subscribe, Register, ReadMembers, SendOnline, Leave, Reply, Lagged, Receive
  <2>4. \A u \in Tabs \ {t} : socket'[u] = socket[u] /\ page'[u] = page[u]
    <3>1. CASE Subscribe(t) \/ Register(t) \/ ReadMembers(t) \/ SendOnline(t) \/ Leave(t) \/ Lagged(t)
      BY <1>0, <3>1 DEF Subscribe, Register, ReadMembers, SendOnline, Leave, Lagged
    <3>2. CASE Reply(t) \/ Receive(t) \/ History(t)
      BY <1>0, <3>2, HistoryOnly DEF Reply, Receive, Deliver
    <3> QED
      BY <1>2, <3>1, <3>2
  <2>5. UNCHANGED socket \/ (socket[t].at # "stored" /\ socket'[t].at # "stored")
    <3>1. CASE Subscribe(t)
      BY <1>0, <3>1 DEF Subscribe
    <3>2. CASE Register(t)
      BY <1>0, <3>2 DEF Register
    <3>3. CASE ReadMembers(t)
      BY <1>0, <3>3 DEF ReadMembers
    <3>4. CASE SendOnline(t)
      BY <1>0, <3>4 DEF SendOnline
    <3>5. CASE Leave(t)
      BY <1>0, <3>5 DEF Leave
    <3>6. CASE Reply(t)
      BY <1>0, <3>6 DEF Reply
    <3>7. CASE Lagged(t) \/ Receive(t)
      BY <1>0, <3>7 DEF Lagged, Receive
    <3>8. CASE History(t)
      BY <3>8, HistoryOnly
    <3> QED
      BY <1>2, <3>1, <3>2, <3>3, <3>4, <3>5, <3>6, <3>7, <3>8
  <2>6. \A u \in Tabs : /\ socket'[u].at = "stored" <=> socket[u].at = "stored"
                        /\ socket'[u].at = "stored" => socket'[u].post = socket[u].post
    BY <2>4, <2>5
  <2>7. ASSUME NEW u \in Tabs, page'[u] = page[u], socket'[u].pos = socket[u].pos, Connected(u)' => Connected(u)
        PROVE  PageOf(u)'
    <3>1. PageOf(u)
      BY DEF PagesRight
    <3> QED
      BY <2>1, <2>2, <2>3, <2>6, <2>7, <3>1, OthersCarried
  <2>8. ASSUME NEW u \in Tabs \ {t} PROVE PageOf(u)'
    BY <2>4, <2>7 DEF Connected
  <2>9. PageOf(t)'
    <3>0. PageOf(t)
      BY DEF PagesRight
    <3>1. CASE Register(t) \/ ReadMembers(t) \/ SendOnline(t) \/ Leave(t)
      <4>1. page'[t] = page[t] /\ socket'[t].pos = socket[t].pos
        <5>1. CASE Register(t)
          BY <1>0, <5>1 DEF Register
        <5>2. CASE ReadMembers(t)
          BY <1>0, <5>2 DEF ReadMembers
        <5>3. CASE SendOnline(t)
          BY <1>0, <5>3 DEF SendOnline
        <5>4. CASE Leave(t)
          BY <1>0, <5>4 DEF Leave
        <5> QED
          BY <3>1, <5>1, <5>2, <5>3, <5>4
      <4>2. Connected(t)' => Connected(t)
        <5>1. CASE Register(t) \/ Leave(t)
          BY <1>0, <5>1 DEF Register, Leave, Connected
        <5>2. CASE ReadMembers(t)
          BY <1>0, <5>2 DEF ReadMembers, Connected
        <5>3. CASE SendOnline(t)
          BY <1>0, <5>3 DEF SendOnline, Connected
        <5> QED
          BY <3>1, <5>1, <5>2, <5>3
      <4> QED
        BY <2>7, <4>1, <4>2
    <3> QED
      BY <1>2, <3>0, <3>1, SubscribeKeepsPage, LaggedKeepsPage, ReceiveKeepsPage, ReplyKeepsPage,
         FetchKeepsPage, ShowKeepsPage, ReopenKeepsPage, ShutKeepsPage DEF History
  <2> QED
    BY <2>8, <2>9 DEF PagesRight
<1>3. ASSUME NEW t \in Tabs, SendMessage(t) \/ BroadcastMessage(t), NEW u \in Tabs PROVE PageOf(u)'
  <2>1. /\ page' = page /\ socket'[u].pos = socket[u].pos /\ excuse'.past = excuse.past
        /\ socket[t].at \in {"open", "stored"} /\ \A w \in Tabs \ {t} : socket'[w] = socket[w]
    <3>1. CASE SendMessage(t)
      BY <1>0, <3>1 DEF SendMessage
    <3>2. CASE BroadcastMessage(t)
      BY <1>0, <3>2 DEF BroadcastMessage
    <3> QED
      BY <1>3, <3>1, <3>2
  <2>2. Connected(u)' => Connected(u)
    BY <2>1 DEF Connected
  <2>3. PageOf(u)
    BY DEF PagesRight
  <2> QED
    BY <1>3, <2>1, <2>2, <2>3, OthersCarried
<1>4. ASSUME NEW m \in Moderators, DeleteMessage(m) \/ ClearMessages(m) \/ Announce(m), NEW u \in Tabs
      PROVE  PageOf(u)'
  <2>1. UNCHANGED <<page, socket>> /\ excuse'.past = excuse.past
    BY <1>0, <1>4 DEF DeleteMessage, ClearMessages, Announce
  <2>2. Connected(u)' => Connected(u)
    BY <2>1 DEF Connected
  <2>3. PageOf(u)
    BY DEF PagesRight
  <2> QED
    BY <1>4, <2>1, <2>2, <2>3, OthersCarried
<1>5. ASSUME NEW m \in Moderators, FindForDeletion(m), NEW u \in Tabs PROVE PageOf(u)'
  <2>1. /\ UNCHANGED <<rows, nextMessage, page, socket, feed, excuse>>
        /\ \A n \in Moderators : moderator'[n].at = "announce" => moderator'[n] = moderator[n]
        /\ \A n \in Moderators : moderator[n].at = "announce" => moderator'[n] = moderator[n]
    BY <1>5 DEF FindForDeletion, RoomTyped
  <2>2. \A i \in Ids : (Posting(i)' <=> Posting(i)) /\ (Announcing(i)' <=> Announcing(i))
    BY <2>1 DEF Posting, Announcing
  <2>3. ASSUME NEW i \in Ids, NEW p \in Nat, NEW S \in SUBSET Ids PROVE Agrees(p, S, i) => Agrees(p, S, i)'
    BY <2>1, <2>2, AgreesUntouched
  <2>4. PageOf(u) /\ (Connected(u)' => Connected(u))
    BY <2>1 DEF PagesRight, Connected
  <2> QED
    BY <2>1, <2>3, <2>4, PageCarried
<1> QED
  BY <1>1, <1>2, <1>3, <1>4, <1>5 DEF ChatNext, PagesRight, History

-----------------------------------------------------------------------------
RoomInv == RoomTyped /\ MembersRight /\ MessagesRight /\ PagesRight

\* The room starts with every open tab on the list, and nothing announced.
LEMMA RoomInvInit ==
  ASSUME ChatInit
  PROVE  RoomInv
<1>0. /\ room \in [open : SUBSET Tabs, joins : [Tabs -> Nat], leavers : SUBSET Tabs,
                   senders : SUBSET Tabs, visits : [Tabs -> Nat], stored : Nat, removals : Nat]
      /\ room.stored \in Nat /\ room.stored <= MaxMessages /\ room.open \subseteq Tabs
  BY RoomAssumption DEF ChatInit
<1>1. /\ DOMAIN rows = 1..room.stored /\ nextMessage = room.stored + 1 /\ feed = <<>>
      /\ members = {UserOfTab(t) : t \in room.open}
  BY DEF ChatInit
<1>2. /\ socket \in [Tabs -> Socket]
      /\ \A t \in Tabs : /\ socket[t].pos = 0 /\ socket[t].post = None
                         /\ socket[t].at = IF t \in room.open THEN "open" ELSE "off"
  <2>1. Off \in Socket /\ Open \in Socket
    BY DEF Off, Open, Socket, SocketSteps
  <2>2. socket = [t \in Tabs |-> IF t \in room.open THEN Open ELSE Off]
    BY DEF ChatInit
  <2>3. Off.pos = 0 /\ Off.post = None /\ Off.at = "off" /\ Open.pos = 0 /\ Open.post = None /\ Open.at = "open"
    BY DEF Off, Open
  <2> QED
    BY <2>1, <2>2, <2>3
<1>3. /\ page \in [Tabs -> Page]
      /\ \A t \in Tabs : page[t].at = "closed" /\ page[t].touched = {} /\ page[t].answer = {}
  BY DEF ChatInit, Unloaded, Page
<1>4. /\ moderator \in [Moderators -> Moderation]
      /\ \A m \in Moderators : moderator[m].at = "idle"
  BY DEF ChatInit, Moderation
<1>5. /\ excuse \in Excuse
      /\ excuse.gone = {} /\ excuse.crossed = {} /\ excuse.eclipsed = {} /\ excuse.raced = FALSE
  BY DEF ChatInit, Excuse
<1>6. DOMAIN rows \subseteq Ids
  BY <1>0, <1>1, IdsAreNumbers DEF Ids
<1>7. RoomTyped
  BY <1>0, <1>1, <1>2, <1>3, <1>4, <1>5, <1>6 DEF RoomTyped, Users
<1>8. DOMAIN feed = {} /\ Len(feed) = 0
  BY <1>1
<1>9. MembersRight
  <2>1. ListRight
    BY <1>0, <1>1, <1>2 DEF ListRight, Listed
  <2>2. ToldRight
    BY <1>2, <1>8 DEF ToldRight, Telling
  <2>3. HeardRight
    BY <1>2, <1>8 DEF HeardRight
  <2> QED
    BY <2>1, <2>2, <2>3 DEF MembersRight
<1>10. MessagesRight
  <2>1. PostsRight
    BY <1>2, <1>8, IdsAreNumbers DEF PostsRight, Posting
  <2>2. RowsRight
    <3>1. \A i \in Ids : ~Announcing(i)
      BY <1>4 DEF Announcing
    <3>2. \A i \in DOMAIN rows : i < nextMessage /\ ~(i > room.stored)
      BY <1>0, <1>1
    <3>3. \A i \in Ids : i < nextMessage => i \in DOMAIN rows
      BY <1>0, <1>1, IdsAreNumbers DEF Ids
    <3>4. room.stored < nextMessage
      BY <1>0, <1>1
    <3> QED
      BY <1>4, <1>5, <1>8, <3>1, <3>2, <3>3, <3>4 DEF RowsRight
  <2>3. AnnouncedRight
    BY <1>8 DEF AnnouncedRight
  <2> QED
    BY <2>1, <2>2, <2>3 DEF MessagesRight
<1>11. PagesRight
  BY <1>3 DEF PagesRight, PageOf
<1> QED
  BY <1>7, <1>9, <1>10, <1>11 DEF RoomInv

\* Every step keeps the invariant of the room.
LEMMA RoomInvKept ==
  ASSUME RoomInv, [ChatNext]_chatVars
  PROVE  RoomInv'
<1>0. RoomTyped /\ MembersRight /\ MessagesRight /\ PagesRight /\ PostsRight
  BY DEF RoomInv, MessagesRight
<1>1. RoomTyped'
  BY <1>0, TypesKept
<1>2. MembersRight'
  BY <1>0, MembersKept
<1>3. MessagesRight'
  BY <1>0, <1>1, MessagesKept
<1>4. PagesRight'
  BY <1>0, PagesKept
<1> QED
  BY <1>1, <1>2, <1>3, <1>4 DEF RoomInv

\* The list shown to a tab that has taken every event is the one it was told last.
LEMMA TheListIsRight ==
  ASSUME RoomInv
  PROVE  OnlineRight
<1>0. RoomTyped /\ ListRight /\ ToldRight /\ HeardRight
  BY DEF RoomInv, MembersRight
<1>1. ASSUME NEW t \in Tabs \ room.open, socket[t].at = "open", socket[t].pos = Len(feed),
             \A u \in Tabs : ~Telling(u), ~excuse.raced
      PROVE  page[t].online = members \/ t \in excuse.unaware
  <2>1. PICK k \in DOMAIN feed : LastOnline(k)
    BY <1>0, <1>1 DEF HeardRight
  <2>2. k <= socket[t].pos
    BY <1>0, <1>1 DEF RoomTyped
  <2>3. feed[k].ids = members
    BY <1>0, <1>1, <2>1 DEF ToldRight
  <2>4. page[t].online = feed[k].ids \/ t \in excuse.unaware
    BY <1>0, <1>1, <2>1, <2>2 DEF HeardRight
  <2> QED
    BY <2>3, <2>4
<1> QED
  BY <1>0, <1>1 DEF OnlineRight, ListRight

\* With nothing under way, what will be shown is what is shown.
LEMMA ThePagesAgree ==
  ASSUME RoomInv
  PROVE  PageAgrees
<1> SUFFICES ASSUME NEW t \in Tabs, Settled(t),
                    NEW i \in Differ(page[t].shown, DOMAIN rows) \ (excuse.past[t] \cup excuse.crossed)
             PROVE  i \in DOMAIN rows /\ Older(i)
  BY DEF PageAgrees, Older
<1>0. /\ RoomTyped /\ PageOf(t)
      /\ \A u \in Tabs : socket[u].post # None <=> socket[u].at \in {"stored", "sent"}
  BY DEF RoomInv, PagesRight, MessagesRight, PostsRight
<1>1. i \in Ids
  BY <1>0 DEF Differ, RoomTyped, Page
<1>2. Connected(t) /\ page[t].at = "loaded" /\ socket[t].pos = Len(feed)
  BY DEF Settled, Connected
<1>3. Agrees(socket[t].pos, page[t].shown, i)
  BY <1>0, <1>1, <1>2 DEF PageOf
<1>4. ~Posting(i) /\ ~Announcing(i)
  BY <1>0 DEF Settled, Posting, Announcing
<1>5. \A k \in DOMAIN feed : ~(k > socket[t].pos)
  BY <1>0, <1>2 DEF RoomTyped
<1>6. Will(socket[t].pos, page[t].shown, i) <=> i \in page[t].shown
  BY <1>5 DEF Will, RemovedAfter
<1> QED
  BY <1>3, <1>4, <1>6 DEF Agrees, Differ

\* The invariant of the room holds throughout.
LEMMA RoomInvHolds == ChatInit /\ [][ChatNext]_chatVars => []RoomInv
<1>1. ChatInit => RoomInv
  BY RoomInvInit
<1>2. RoomInv /\ [ChatNext]_chatVars => RoomInv'
  BY RoomInvKept
<1> QED
  BY <1>1, <1>2, PTL

\* Whatever tabs join, lag and leave, and however their announcements cross, the list of
\* members has every connected user and nobody else, and an open tab that has taken every
\* event shows it, but for the exceptions that OnlineRight names (handlers/chat.rs, state.rs).
THEOREM MembersAreOnline == ChatInit /\ [][ChatNext]_chatVars => []OnlineRight
BY RoomInvHolds, TheListIsRight, PTL

\* Whatever is sent, taken back, cleared and loaded, by however many tabs and administrators,
\* a page with nothing under way shows the stored messages, but for the exceptions that
\* PageAgrees names (services/chat_service.rs, handlers/chat.rs, the chat page).
THEOREM PagesAgree == ChatInit /\ [][ChatNext]_chatVars => []PageAgrees
BY RoomInvHolds, ThePagesAgree, PTL

-----------------------------------------------------------------------------
(***************************************************************************)
(* The uploads.                                                            *)
(***************************************************************************)
\* No statement has written the output of these requests yet, or it is gone again.
Before == {"idle", "image", "streaming", "probing", "renaming", "queued", "failed"}

UploadSteps == Before \cup {"refused", "remuxing", "encoding", "converted", "done"}

\* The files of one request at each of its steps, but for those a removal has left.
FilesOf(u) ==
  /\ upload[u] \in Before => Output(u) \notin chatDir \/ Output(u) \in leftovers
  /\ upload[u] \in {"idle", "image", "done"} => Temp(u) \notin chatDir \/ Temp(u) \in leftovers
  /\ upload[u] \in {"converted", "done"} => Output(u) \in chatDir
  /\ upload[u] = "refused" /\ u \notin dropped => {Temp(u), Output(u)} \cap chatDir \subseteq leftovers

PermitOf(u) == u \in permits => upload[u] \in {"remuxing", "encoding"}

UploadsInv ==
  /\ upload \in [Uploads -> UploadSteps]
  /\ permits \subseteq Uploads
  /\ \A u \in Uploads : FilesOf(u) /\ PermitOf(u)

\* A step of one request leaves the files and the permits of the others alone.
LEMMA OthersFiles ==
  ASSUME UploadsInv, NEW u \in Uploads, NEW w \in Uploads \ {u},
         upload'[w] = upload[w], w \in permits' => w \in permits, dropped \subseteq dropped', leftovers \subseteq leftovers',
         Temp(w) \in chatDir' <=> Temp(w) \in chatDir,
         Output(w) \in chatDir' <=> Output(w) \in chatDir
  PROVE  FilesOf(w)' /\ PermitOf(w)'
BY DEF UploadsInv, FilesOf, PermitOf, Temp, Output

\* A step of one request keeps the invariant if it leaves that request right.
LEMMA UploadStep ==
  ASSUME UploadsInv, NEW u \in Uploads,
         upload' = [upload EXCEPT ![u] = upload'[u]], upload'[u] \in UploadSteps,
         permits' \subseteq permits \cup {u}, dropped \subseteq dropped', leftovers \subseteq leftovers',
         chatDir' \ {Temp(u), Output(u)} = chatDir \ {Temp(u), Output(u)},
         FilesOf(u)', PermitOf(u)'
  PROVE  UploadsInv'
<1>1. ASSUME NEW w \in Uploads \ {u} PROVE FilesOf(w)' /\ PermitOf(w)'
  <2>1. {Temp(w), Output(w)} \cap {Temp(u), Output(u)} = {}
    BY DEF Temp, Output
  <2>2. upload'[w] = upload[w]
    BY DEF UploadsInv
  <2> QED
    BY <2>1, <2>2, OthersFiles
<1> QED
  BY <1>1 DEF UploadsInv

\* Every step keeps the invariant of the uploads.
LEMMA UploadsNextKeeps ==
  ASSUME UploadsInv, [UploadsNext]_uploadVars
  PROVE  UploadsInv'
<1> USE DEF Before, UploadSteps
<1>1. CASE UNCHANGED uploadVars
  BY <1>1 DEF uploadVars, UploadsInv, FilesOf, PermitOf, Temp, Output
<1>2. ASSUME NEW u \in Uploads,
             \/ Refuse(u) \/ BeginImage(u) \/ WriteImage(u)
             \/ CreateTemp(u) \/ StreamChunks(u) \/ Probe(u) \/ RenameTemp(u)
             \/ AcquirePermit(u) \/ RunFfmpeg(u) \/ RemuxFailed(u) \/ EncodeFailed(u)
             \/ Finalize(u) \/ FinishVideo(u) \/ Drop(u)
      PROVE  UploadsInv'
  <2>1. /\ upload \in [Uploads -> UploadSteps] /\ permits \subseteq Uploads
        /\ FilesOf(u) /\ PermitOf(u)
    BY DEF UploadsInv
  <2>2. /\ upload' = [upload EXCEPT ![u] = upload'[u]] /\ upload'[u] \in UploadSteps
        /\ permits' \subseteq permits \cup {u} /\ dropped \subseteq dropped' /\ leftovers \subseteq leftovers'
    BY <1>2, <2>1 DEF Refuse, BeginImage, WriteImage, CreateTemp, StreamChunks, Probe, RenameTemp,
         AcquirePermit, RunFfmpeg, RemuxFailed, EncodeFailed, Finalize, FinishVideo, Drop, Discard, RemoveFile, Advance
  <2>3. chatDir' \ {Temp(u), Output(u)} = chatDir \ {Temp(u), Output(u)}
    BY <1>2 DEF Refuse, BeginImage, WriteImage, CreateTemp, StreamChunks, Probe, RenameTemp,
         AcquirePermit, RunFfmpeg, RemuxFailed, EncodeFailed, Finalize, FinishVideo, Drop, Discard, RemoveFile
  <2>4. Temp(u) # Output(u)
    BY DEF Temp, Output
  <2>5. CASE Refuse(u) \/ BeginImage(u) \/ WriteImage(u) \/ CreateTemp(u)
    <3>1. FilesOf(u)' /\ PermitOf(u)'
      BY <2>1, <2>4, <2>5 DEF Refuse, BeginImage, WriteImage, CreateTemp, Advance, FilesOf, PermitOf, Temp, Output
    <3> QED
      BY <2>2, <2>3, <3>1, UploadStep
  <2>6. CASE StreamChunks(u) \/ Probe(u) \/ RenameTemp(u) \/ AcquirePermit(u)
    <3>1. FilesOf(u)' /\ PermitOf(u)'
      BY <2>1, <2>4, <2>6 DEF StreamChunks, Probe, RenameTemp, AcquirePermit, Discard, RemoveFile, Advance, FilesOf, PermitOf, Temp, Output
    <3> QED
      BY <2>2, <2>3, <3>1, UploadStep
  <2>7. CASE RunFfmpeg(u) \/ RemuxFailed(u) \/ EncodeFailed(u) \/ Finalize(u)
    <3>1. FilesOf(u)' /\ PermitOf(u)'
      BY <2>1, <2>4, <2>7 DEF RunFfmpeg, RemuxFailed, EncodeFailed, Finalize, RemoveFile, Advance, FilesOf, PermitOf, Temp, Output
    <3> QED
      BY <2>2, <2>3, <3>1, UploadStep
  <2>8. CASE FinishVideo(u) \/ Drop(u)
    <3>1. FilesOf(u)' /\ PermitOf(u)'
      BY <2>1, <2>4, <2>8 DEF FinishVideo, Drop, Waiting, RemoveFile, Advance, FilesOf, PermitOf, Temp, Output
    <3> QED
      BY <2>2, <2>3, <3>1, UploadStep
  <2> QED
    BY <1>2, <2>5, <2>6, <2>7, <2>8
<1> QED
  BY <1>1, <1>2 DEF UploadsNext

\* Whatever requests run, are refused, fail or are dropped at once, and whatever removals
\* fail, the files under media/chat are accounted for, and an ended request holds no permit
\* (handlers/chat.rs, services/chat_video.rs).
THEOREM ChatFilesAreAccounted ==
  UploadsInit /\ [][UploadsNext]_uploadVars => []ChatFilesAccounted
<1>1. UploadsInit => UploadsInv
  BY DEF UploadsInit, UploadsInv, FilesOf, PermitOf, UploadSteps, Before
<1>2. UploadsInv /\ [UploadsNext]_uploadVars => UploadsInv'
  BY UploadsNextKeeps
<1>3. UploadsInv => ChatFilesAccounted
  BY DEF UploadsInv, FilesOf, PermitOf, ChatFilesAccounted, Waiting, Before
<1> QED
  BY <1>1, <1>2, <1>3, PTL
=============================================================================
