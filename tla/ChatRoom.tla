------------------------------ MODULE ChatRoom ------------------------------
(***************************************************************************)
(* The public chat room: the stored messages (chat_service.rs), the hub    *)
(* that broadcasts to every connection (state.rs), the task behind each    *)
(* WebSocket (handlers/chat.rs), and what a browser tab makes of the       *)
(* events and of the history it loads.  A message is its id and the file   *)
(* it shows, or None.  Texts, names and refusals, which change nothing,    *)
(* are left out, and so are the trimming of long lists and the paging.     *)
(* The connection outlives the page: a tab opens and closes its page while *)
(* it stays in the room, and the client's own cache of answers may fill a  *)
(* page that is opened again.                                              *)
(***************************************************************************)
EXTENDS Naturals, Sequences, FiniteSets

CONSTANTS
  Tabs,          \* browser tabs, each with at most one connection
  Moderators,    \* administrators at work
  Attachments,   \* files already uploaded under media/chat
  None,
  UserOfTab(_),  \* the user of a tab
  Capacity,      \* CHAT_BROADCAST_CAPACITY
  PageSize,      \* HISTORY_PAGE_LIMIT
  MaxMessages,   \* bound: messages stored
  Rooms          \* where the room starts: the tabs that are open, how often each may join,
                 \* who sends and how often each opens its page, the messages stored, and the removals

ASSUME RoomAssumption ==
  /\ Capacity \in Nat /\ PageSize \in Nat /\ MaxMessages \in Nat /\ None \notin Nat
  /\ \A r \in Rooms : /\ r \in [open : SUBSET Tabs, joins : [Tabs -> Nat], leavers : SUBSET Tabs,
                                senders : SUBSET Tabs, visits : [Tabs -> Nat], stored : Nat, removals : Nat]
                      /\ r.stored <= MaxMessages

VARIABLES
  rows,          \* chat_messages: what message ids show
  nextMessage,   \* the sequence of their ids
  attached,      \* the files under media/chat
  feed,          \* every event sent to the broadcast channel; it retains the last Capacity
  members,       \* room.users: the users listed as online
  socket,        \* the server's task of each tab
  page,          \* the chat page of each tab
  moderator,     \* the call of each administrator
  room,          \* what may still happen: one of Rooms, counted down
  excuse         \* history: what went past each tab, and what crossed

chatVars == <<rows, nextMessage, attached, feed, members, socket, page, moderator, room, excuse>>

Ids == 1..MaxMessages
Users == {UserOfTab(t) : t \in Tabs}

Message(i) == [type |-> "message", ids |-> {i}]
Deleted(i) == [type |-> "deleted", ids |-> {i}]
Cleared == [type |-> "cleared", ids |-> {}]
Online(us) == [type |-> "online", ids |-> us]

Off == [at |-> "off", pos |-> 0, post |-> None, counted |-> {}]
Open == [Off EXCEPT !.at = "open"]
\* "answer" is what the client's request for the newest messages returned or, while
\* it is "coming", will return; "kept" tells whether the client still holds it.
Unloaded == [at |-> "closed", shown |-> {}, answer |-> {}, touched |-> {}, online |-> {}, kept |-> "no"]

ChatInit ==
  /\ room \in Rooms
  /\ rows = [i \in 1..room.stored |-> None]
  /\ nextMessage = room.stored + 1
  /\ attached = Attachments
  /\ feed = <<>>
  /\ members = {UserOfTab(t) : t \in room.open}
  /\ socket = [t \in Tabs |-> IF t \in room.open THEN Open ELSE Off]
  /\ page = [t \in Tabs |-> Unloaded]
  /\ moderator = [m \in Moderators |-> [at |-> "idle", id |-> None, gone |-> {}]]
  /\ excuse = [past |-> [t \in Tabs |-> {}], crossed |-> {}, gone |-> {}, eclipsed |-> {}, raced |-> FALSE, unaware |-> {}]

Broadcast(e) == feed' = Append(feed, e)
Said(i) == \E k \in DOMAIN feed : feed[k] = Message(i)
Differ(S, T) == (S \ T) \cup (T \ S)

-----------------------------------------------------------------------------
(***************************************************************************)
(* Joining and leaving.  broadcast_online reads the members and then       *)
(* sends, and nothing keeps another thread from doing so in between.       *)
(***************************************************************************)
Listed(t) == socket[t].at \in {"joining", "greeting", "open", "stored", "sent"}
Telling(t) == socket[t].at \in {"joining", "greeting", "leaving", "parting"}
Overlap(t) == \E u \in Tabs \ {t} : Telling(u)

\* A page that shows something, or waits for its history, has missed what
\* changed before the subscription.
Subscribe(t) ==
  /\ socket[t].at = "off"
  /\ room.joins[t] > 0
  /\ room' = [room EXCEPT !.joins[t] = @ - 1]
  /\ socket' = [socket EXCEPT ![t] = [@ EXCEPT !.at = "subscribed", !.pos = Len(feed)]]
  /\ LET basis == CASE page[t].at = "closed" -> DOMAIN rows
                    [] page[t].at = "asked" -> page[t].answer
                    [] OTHER -> page[t].shown
     IN excuse' = [excuse EXCEPT !.past[t] = @ \cup Differ(basis, DOMAIN rows)]
  /\ UNCHANGED <<rows, nextMessage, attached, feed, members, page, moderator>>

Register(t) ==
  /\ socket[t].at = "subscribed"
  /\ members' = members \cup {UserOfTab(t)}
  /\ socket' = [socket EXCEPT ![t].at = "joining"]
  /\ excuse' = [excuse EXCEPT !.eclipsed = @ \ {u \in Tabs : UserOfTab(u) = UserOfTab(t)},
                                !.raced = Overlap(t)]
  /\ UNCHANGED <<rows, nextMessage, attached, feed, page, moderator, room>>

ReadMembers(t) ==
  /\ socket[t].at \in {"joining", "leaving"}
  /\ socket' = [socket EXCEPT ![t] =
                [@ EXCEPT !.at = IF socket[t].at = "joining" THEN "greeting" ELSE "parting", !.counted = members]]
  /\ UNCHANGED <<rows, nextMessage, attached, feed, members, page, moderator, room, excuse>>

SendOnline(t) ==
  /\ socket[t].at \in {"greeting", "parting"}
  /\ Broadcast(Online(socket[t].counted))
  /\ socket' = [socket EXCEPT ![t] =
                [@ EXCEPT !.at = IF socket[t].at = "greeting" THEN "open" ELSE "off", !.counted = {}]]
  /\ UNCHANGED <<rows, nextMessage, attached, members, page, moderator, room, excuse>>

\* A mutant: the user stays on the list.
RemainAll(t) == members

Remain(t) == members \ {UserOfTab(t)}

\* The loop of the task ends with the connection; the user is taken off the
\* list whatever other connections of the same user there are.
Leave(t) ==
  /\ socket[t].at = "open"
  /\ t \in room.leavers
  /\ members' = Remain(t)
  /\ socket' = [socket EXCEPT ![t].at = IF UserOfTab(t) \in members THEN "leaving" ELSE "off"]
  /\ excuse' = [excuse EXCEPT !.eclipsed = @ \cup
                  {u \in Tabs \ {t} : Listed(u) /\ UserOfTab(u) = UserOfTab(t)},
                                !.raced = IF UserOfTab(t) \in members THEN Overlap(t) ELSE @]
  /\ UNCHANGED <<rows, nextMessage, attached, feed, page, moderator, room>>

-----------------------------------------------------------------------------
(***************************************************************************)
(* Sending: the row, the broadcast, and the same event as the reply, in    *)
(* one pass of the loop, which takes nothing from the channel meanwhile.   *)
(***************************************************************************)
Applied(shown, e) == CASE e.type = "message" -> shown \cup e.ids
                       [] e.type = "deleted" -> shown \ e.ids
                       [] e.type = "cleared" -> {}
                       [] OTHER -> shown

\* What the page of a tab makes of an event: it listens once it is open.
Deliver(t, e) ==
  page' = [page EXCEPT ![t] =
    [@ EXCEPT !.online = IF e.type = "online" THEN e.ids ELSE page[t].online,
              !.shown = IF page[t].at = "closed" THEN page[t].shown ELSE Applied(page[t].shown, e),
              !.touched = IF page[t].at # "asked" THEN {}
                          ELSE IF e.type = "cleared" THEN Ids
                          ELSE page[t].touched \cup IF e.type = "online" THEN {} ELSE e.ids]]

SendMessage(t) ==
  /\ socket[t].at = "open"
  /\ t \in room.senders
  /\ nextMessage \in Ids
  /\ \E f \in Attachments \cup {None} :
       rows' = [i \in DOMAIN rows \cup {nextMessage} |-> IF i = nextMessage THEN f ELSE rows[i]]
  /\ nextMessage' = nextMessage + 1
  /\ socket' = [socket EXCEPT ![t] = [@ EXCEPT !.at = "stored", !.post = nextMessage]]
  /\ UNCHANGED <<attached, feed, members, page, moderator, room, excuse>>

\* A message whose removal was announced first is never taken back.
BroadcastMessage(t) ==
  /\ socket[t].at = "stored"
  /\ Broadcast(Message(socket[t].post))
  /\ socket' = [socket EXCEPT ![t].at = "sent"]
  /\ excuse' = [excuse EXCEPT !.crossed = @ \cup ({socket[t].post} \cap excuse.gone)]
  /\ UNCHANGED <<rows, nextMessage, attached, members, page, moderator, room>>

Reply(t) ==
  /\ socket[t].at = "sent"
  /\ Deliver(t, Message(socket[t].post))
  /\ socket' = [socket EXCEPT ![t] = [@ EXCEPT !.at = "open", !.post = None]]
  /\ UNCHANGED <<rows, nextMessage, attached, feed, members, moderator, room, excuse>>

-----------------------------------------------------------------------------
\* The channel: a receiver that is too far behind skips to the oldest event kept.
Behind(t) == Len(feed) - socket[t].pos > Capacity

\* A mutant: it goes on with what is sent from now on.
ResumeAtTail(t) == Len(feed)

Resume(t) == Len(feed) - Capacity

Lagged(t) ==
  /\ socket[t].at = "open"
  /\ Behind(t)
  /\ LET skipped == {feed[k] : k \in socket[t].pos + 1 .. Len(feed) - Capacity}
         lost == UNION {e.ids : e \in {x \in skipped : x.type # "online"}}
     IN excuse' = [excuse EXCEPT !.past[t] = @ \cup lost \cup
                       IF Cleared \in skipped THEN excuse.gone \cup page[t].shown ELSE {},
                                   !.unaware = @ \cup {u \in {t} : \E e \in skipped : e.type = "online"}]
  /\ socket' = [socket EXCEPT ![t].pos = Resume(t)]
  /\ UNCHANGED <<rows, nextMessage, attached, feed, members, page, moderator, room>>

Receive(t) ==
  /\ socket[t].at = "open"
  /\ socket[t].pos < Len(feed)
  /\ ~Behind(t)
  /\ Deliver(t, feed[socket[t].pos + 1])
  /\ socket' = [socket EXCEPT ![t].pos = @ + 1]
  /\ excuse' = IF feed[socket[t].pos + 1].type = "online" THEN [excuse EXCEPT !.unaware = @ \ {t}] ELSE excuse
  /\ UNCHANGED <<rows, nextMessage, attached, feed, members, moderator, room>>

-----------------------------------------------------------------------------
(***************************************************************************)
(* The history: the page is opened, the newest messages are read, and the  *)
(* answer replaces whatever the events have put on the page meanwhile.     *)
(* The client keeps each answer for CACHE_TTL, and no event empties that   *)
(* cache; a page opened again takes the answer kept, or shares the one     *)
(* that is still coming.                                                   *)
(***************************************************************************)
Newest(S) == {i \in S : Cardinality({j \in S : j > i}) < PageSize}

Visit(t) ==
  /\ page[t].at = "closed"
  /\ room.visits[t] > 0
  /\ room' = [room EXCEPT !.visits[t] = @ - 1]

FetchHistory(t) ==
  /\ Visit(t)
  /\ page[t].kept = "no"
  /\ page' = [page EXCEPT ![t] = [@ EXCEPT !.at = "asked", !.answer = Newest(DOMAIN rows), !.kept = "coming"]]
  /\ UNCHANGED <<rows, nextMessage, attached, feed, members, socket, moderator, excuse>>

\* What changed since the answer was read is missed by this page.
Reopen(t) ==
  /\ Visit(t)
  /\ page[t].kept # "no"
  /\ page' = [page EXCEPT ![t] = IF page[t].kept = "yes" THEN [@ EXCEPT !.at = "loaded", !.shown = page[t].answer]
                                                         ELSE [@ EXCEPT !.at = "asked"]]
  /\ excuse' = [excuse EXCEPT !.past[t] = @ \cup Differ(page[t].answer, DOMAIN rows)]
  /\ UNCHANGED <<rows, nextMessage, attached, feed, members, socket, moderator>>

ShowHistory(t) ==
  /\ page[t].at = "asked"
  /\ page' = [page EXCEPT ![t] =
                [@ EXCEPT !.at = "loaded", !.shown = page[t].answer, !.touched = {}, !.kept = "yes"]]
  /\ excuse' = [excuse EXCEPT !.past[t] = @ \cup
                  (page[t].touched \cap Differ(page[t].shown, page[t].answer))]
  /\ UNCHANGED <<rows, nextMessage, attached, feed, members, socket, moderator, room>>

\* The page has gone; its answer is kept all the same.
KeepHistory(t) ==
  /\ page[t].at = "closed"
  /\ page[t].kept = "coming"
  /\ page' = [page EXCEPT ![t].kept = "yes"]
  /\ UNCHANGED <<rows, nextMessage, attached, feed, members, socket, moderator, room, excuse>>

ClosePage(t) ==
  /\ page[t].at # "closed"
  /\ page' = [page EXCEPT ![t] = [@ EXCEPT !.at = "closed", !.shown = {}, !.touched = {}]]
  /\ UNCHANGED <<rows, nextMessage, attached, feed, members, socket, moderator, room, excuse>>

Expire(t) ==
  /\ page[t].kept = "yes"
  /\ page' = [page EXCEPT ![t].kept = "no"]
  /\ UNCHANGED <<rows, nextMessage, attached, feed, members, socket, moderator, room, excuse>>

-----------------------------------------------------------------------------
(***************************************************************************)
(* Administrators: the row is looked up for its files, deleted, and the    *)
(* deletion announced; or all rows go at once, and their files stay.       *)
(***************************************************************************)
FindForDeletion(m) ==
  /\ moderator[m].at = "idle"
  /\ room.removals > 0
  /\ room' = [room EXCEPT !.removals = @ - 1]
  /\ \E i \in DOMAIN rows : moderator' = [moderator EXCEPT ![m] = [at |-> "found", id |-> i, gone |-> {}]]
  /\ UNCHANGED <<rows, nextMessage, attached, feed, members, socket, page, excuse>>

Without(ids) == [i \in DOMAIN rows \ ids |-> rows[i]]
FilesShown(ids) == {rows[i] : i \in ids} \ {None}

\* Only the call that deleted the row goes on; a file it cannot remove stays.
DeleteMessage(m) ==
  /\ moderator[m].at = "found"
  /\ LET i == moderator[m].id
     IN IF i \in DOMAIN rows
        THEN /\ rows' = Without({i})
             /\ attached' \in {attached, attached \ FilesShown({i})}
             /\ moderator' = [moderator EXCEPT ![m] = [@ EXCEPT !.at = "announce", !.gone = {i}]]
        ELSE /\ moderator' = [moderator EXCEPT ![m] = [@ EXCEPT !.at = "idle", !.id = None]]
             /\ UNCHANGED <<rows, attached>>
  /\ UNCHANGED <<nextMessage, feed, members, socket, page, room, excuse>>

ClearMessages(m) ==
  /\ moderator[m].at = "idle"
  /\ room.removals > 0
  /\ room' = [room EXCEPT !.removals = @ - 1]
  /\ DOMAIN rows # {}
  /\ rows' = <<>>
  /\ moderator' = [moderator EXCEPT ![m] = [at |-> "announce", id |-> None, gone |-> DOMAIN rows]]
  /\ UNCHANGED <<nextMessage, attached, feed, members, socket, page, excuse>>

\* "Cleared" also takes down what was sent after the rows were deleted.
Announce(m) ==
  /\ moderator[m].at = "announce"
  /\ Broadcast(IF moderator[m].id = None THEN Cleared ELSE Deleted(moderator[m].id))
  /\ excuse' = [excuse EXCEPT !.gone = @ \cup moderator[m].gone, !.crossed = @ \cup
                  IF moderator[m].id = None THEN {i \in DOMAIN rows : Said(i)} ELSE {}]
  /\ moderator' = [moderator EXCEPT ![m] = [at |-> "idle", id |-> None, gone |-> {}]]
  /\ UNCHANGED <<rows, nextMessage, attached, members, socket, page, room>>

-----------------------------------------------------------------------------
ChatNext ==
  \/ \E t \in Tabs :
       \/ Subscribe(t) \/ Register(t) \/ ReadMembers(t) \/ SendOnline(t) \/ Leave(t)
       \/ SendMessage(t) \/ BroadcastMessage(t) \/ Reply(t)
       \/ Lagged(t) \/ Receive(t)
       \/ FetchHistory(t) \/ Reopen(t) \/ ShowHistory(t) \/ KeepHistory(t) \/ ClosePage(t) \/ Expire(t)
  \/ \E m \in Moderators : FindForDeletion(m) \/ DeleteMessage(m) \/ ClearMessages(m) \/ Announce(m)

-----------------------------------------------------------------------------
ChatTypeOK ==
  /\ DOMAIN rows \subseteq Ids
  /\ \A i \in DOMAIN rows : rows[i] \in Attachments \cup {None}
  /\ nextMessage \in 1..MaxMessages + 1
  /\ attached \subseteq Attachments
  /\ members \subseteq Users
  /\ \A t \in Tabs : /\ socket[t].pos \in 0..Len(feed)
                     /\ socket[t].post \in Ids \cup {None}
                     /\ page[t].shown \subseteq Ids
                     /\ page[t].answer \subseteq Ids

\* Nothing about a tab is under way: it has taken every event, and no message
\* or removal waits to be announced.
Settled(t) ==
  /\ socket[t].at = "open" /\ socket[t].pos = Len(feed) /\ page[t].at = "loaded"
  /\ \A u \in Tabs : socket[u].post = None
  /\ \A m \in Moderators : moderator[m].at # "announce"

\* Once a tab has taken every event, the page shows the stored messages: it
\* differs only in what went past it (a lag, the time before it subscribed,
\* an event that the answer of the history overwrote, and all that changed
\* between the reading of an answer and a reopening that it was kept for), in
\* messages whose announcement and removal crossed, and in rows older than its
\* first page.
PageAgrees == \A t \in Tabs :
  Settled(t) => LET wrong == Differ(page[t].shown, DOMAIN rows) \ (excuse.past[t] \cup excuse.crossed)
                IN \A i \in wrong : /\ i \in DOMAIN rows
                                    /\ Cardinality({j \in Ids : j > i}) >= PageSize

\* The list of members has every connected user, unless another tab of the same
\* user has left since, and nobody without a connection; and a tab that has taken
\* every event shows that list, unless two changes of it overlapped or a
\* lag skipped the last one.
OnlineRight ==
  /\ \A t \in Tabs : Listed(t) => UserOfTab(t) \in members \/ t \in excuse.eclipsed
  /\ \A u \in members : \E t \in Tabs : UserOfTab(t) = u /\ Listed(t)
  /\ \A t \in Tabs \ room.open :
       /\ socket[t].at = "open" /\ socket[t].pos = Len(feed)
       /\ ~\E u \in Tabs : Telling(u)
       => page[t].online = members \/ excuse.raced \/ t \in excuse.unaware
=============================================================================
