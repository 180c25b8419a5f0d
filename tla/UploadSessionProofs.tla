------------------------- MODULE UploadSessionProofs -------------------------
(***************************************************************************)
(* What TLAPS proves of UploadSession, for every number of tabs, requests, *)
(* slots and failures and every length of the content.                     *)
(***************************************************************************)
EXTENDS UploadSession, FiniteSetTheorems, SequenceTheorems, TLAPS

Waiting == {"status", "chunk", "final"}

\* A request has at most one tab listening, which waits for just this request.
Listening ==
    \A h \in Handler : handler[h].owner \in Client =>
        /\ client[handler[h].owner].at \in Waiting
        /\ client[handler[h].owner].at = "status" <=> handler[h].kind = "status"
        /\ \A g \in Handler : handler[g].owner = handler[h].owner => g = h

\* A chunk lies within the content, and one about to be written starts where its slot ends.
Serving ==
    \A h \in Handler :
        /\ \/ handler[h].pc \in Inside \cup {"lock"}
           \/ handler[h].pc = "permit" /\ handler[h].kind = "status"
           => handler[h].slot \in Slot
        /\ handler[h].offset + Len(handler[h].data) <= Size
        /\ handler[h].pc = "write" =>
              /\ slots[handler[h].slot].inited
              /\ Len(slots[handler[h].slot].hashed) = handler[h].offset

\* The lock of a slot excludes.
Exclusive ==
    \A g, h \in Handler :
        /\ handler[g].pc \in Inside /\ handler[h].pc \in Inside
        /\ handler[g].slot = handler[h].slot
        => g = h

TypeInv == TypeOK /\ Listening /\ Serving /\ Exclusive
-----------------------------------------------------------------------------
(* The tabs.                                                               *)

\* Whatever the reply, a tab that waited for it is well-typed and waits no more.
LEMMA ReactTyped ==
    ASSUME NEW t \in Tab, t.at \in Waiting, NEW is, NEW n \in Nat,
           t.at = "status" \/ n <= Size
    PROVE  /\ React(t, Reply(is, n)) \in Tab
           /\ React(t, Reply(is, n)).at \notin Waiting
<1> USE SizeAssumption, LimitAssumption
<1> DEFINE r == Reply(is, n)
<1>1. r.is = is /\ r.received = n
  BY DEF Reply
<1>2. ASSUME NEW state \in ClientAt PROVE At(t, state) \in Tab /\ At(t, state).at = state
  <2>1. t.offset \in 0 .. Size /\ 0 \in 0 .. Size /\ 0 \in 0 .. MaxRetries /\ 0 \in 0 .. MaxRetries + 2
    BY SizeAssumption, LimitAssumption DEF Tab
  <2>2. NewTab \in Tab
    BY <2>1 DEF NewTab, Tab, ClientAt
  <2> QED
    BY <1>2, <2>1, <2>2 DEF At, Tab
<1>3. ASSUME NEW m \in 0 .. Size
      PROVE  Resume(t, m) \in Tab /\ Resume(t, m).at = "ready"
  BY <1>3, <1>2 DEF Resume, Tab, ClientAt
<1>4. CASE t.at = "status"
  <2>1. React(t, r) = AfterStatus(t, r)
    BY <1>4 DEF React
  <2>2. (IF n > Size THEN Size ELSE n) \in 0 .. Size /\ 0 \in 0 .. Size
    OBVIOUS
  <2>3. AfterStatus(t, r) \in Tab /\ AfterStatus(t, r).at \notin Waiting
    BY <1>1, <1>2, <1>3, <2>2 DEF AfterStatus, Waiting, ClientAt
  <2> QED
    BY <2>1, <2>3
<1>5. CASE t.at = "chunk"
  <2>1. React(t, r) = AfterChunk(t, r)
    BY <1>5 DEF React
  <2>2. n \in 0 .. Size
    BY <1>5
  <2>3. Correct(t, n) \in Tab /\ Correct(t, n).at \notin Waiting
    BY <1>2, <1>3, <2>2 DEF Correct, Tab, Waiting, ClientAt
  <2>4. Retry(t) \in Tab /\ Retry(t).at \notin Waiting
    <3>1. CASE t.attempt + 1 > MaxRetries
      BY <1>2, <3>1 DEF Retry, Waiting, ClientAt
    <3>2. CASE ~(t.attempt + 1 > MaxRetries)
      <4>1. t.attempt + 1 \in 0 .. MaxRetries
        BY <3>2 DEF Tab
      <4> QED
        BY <3>2, <4>1 DEF Retry, Tab, Waiting, ClientAt
    <3> QED
      BY <3>1, <3>2
  <2>5. AfterChunk(t, r) \in Tab /\ AfterChunk(t, r).at \notin Waiting
    BY <1>1, <1>2, <1>3, <2>2, <2>3, <2>4 DEF AfterChunk, Waiting, ClientAt
  <2> QED
    BY <2>1, <2>5
<1>6. CASE t.at = "final"
  <2>1. React(t, r) = AfterFinal(t, r)
    BY <1>6 DEF React
  <2> QED
    BY <2>1, <1>2 DEF AfterFinal, Waiting, ClientAt
<1> QED
  BY <1>4, <1>5, <1>6 DEF Waiting

LEMMA NoRequestTyped == NoRequest \in Request /\ NoRequest.owner \notin Client
BY SizeAssumption, NoneAssumption DEF NoRequest, Request, HandlerPC

\* A request that is answered keeps tabs and requests matched.
LEMMA AnswerTyped ==
    ASSUME TypeInv, NEW h \in Handler, NEW is, NEW n \in Nat,
           handler[h].kind = "status" \/ n <= Size,
           Answer(h, Reply(is, n))
    PROVE  client' \in [Client -> Tab] /\ handler' \in [Handler -> Request] /\ Listening'
<1> USE NoneAssumption DEF TypeInv, TypeOK
<1>1. handler' \in [Handler -> Request] /\ handler' = [handler EXCEPT ![h] = NoRequest]
  BY NoRequestTyped DEF Answer
<1>2. ASSUME NEW c \in Client
      PROVE  /\ client'[c] \in Tab
             /\ c = handler[h].owner => client'[c].at \notin Waiting
             /\ c # handler[h].owner => client'[c] = client[c]
  <2>1. CASE c = handler[h].owner
    <3>1. client[c] \in Tab /\ client[c].at \in Waiting
      BY <2>1 DEF Listening
    <3>2. client[c].at = "status" \/ n <= Size
      BY <2>1 DEF Listening
    <3>3. client'[c] = React(client[c], Reply(is, n))
      BY <2>1 DEF Answer
    <3> QED
      BY <3>1, <3>2, <3>3, <2>1, ReactTyped
  <2>2. CASE c # handler[h].owner
    BY <2>2 DEF Answer
  <2> QED
    BY <2>1, <2>2
<1>3. client' \in [Client -> Tab]
  BY <1>2 DEF Answer
<1>4. Listening'
  <2> SUFFICES ASSUME NEW g \in Handler, handler'[g].owner \in Client
               PROVE  /\ client'[handler'[g].owner].at \in Waiting
                      /\ client'[handler'[g].owner].at = "status" <=> handler'[g].kind = "status"
                      /\ \A k \in Handler : handler'[k].owner = handler'[g].owner => k = g
    BY DEF Listening
  <2>1. g # h /\ handler'[g] = handler[g]
    BY <1>1, NoRequestTyped
  <2>2. handler[g].owner # handler[h].owner
    BY <2>1 DEF Listening
  <2>3. client'[handler[g].owner] = client[handler[g].owner]
    BY <1>2, <2>1, <2>2
  <2> QED
    BY <1>1, <2>1, <2>3, NoRequestTyped DEF Listening
<1> QED
  BY <1>1, <1>3, <1>4

\* A request that goes on keeps its tab.
LEMMA GoesOnTyped ==
    ASSUME TypeInv, NEW h \in Handler, NEW p \in HandlerPC, UNCHANGED client, Goto(h, p)
    PROVE  client' \in [Client -> Tab] /\ handler' \in [Handler -> Request] /\ Listening'
<1>0. handler \in [Handler -> Request] /\ handler' = [handler EXCEPT ![h].pc = p]
  BY DEF TypeInv, TypeOK, Goto
<1>1. handler' \in [Handler -> Request]
  <2>1. [handler[h] EXCEPT !.pc = p] \in Request
    BY <1>0 DEF Request
  <2> QED
    BY ONLY <1>0, <2>1
<1>2. \A g \in Handler : handler'[g].owner = handler[g].owner /\ handler'[g].kind = handler[g].kind
  BY <1>0
<1>3. Listening'
  BY <1>2 DEF TypeInv, Listening
<1> QED
  BY <1>1, <1>3 DEF TypeInv, TypeOK
-----------------------------------------------------------------------------
(* The slots.                                                              *)

\* h is in a slot, or about to enter it and nobody is inside.
Owns(h) ==
    /\ handler[h].pc \in Inside \cup {"lock"}
    /\ handler[h].pc = "lock" => ~Locked(handler[h].slot)

\* What h does to its own slot and to itself leaves every other request as it was.
LEMMA SlotKept ==
    ASSUME TypeInv, NEW h \in Handler, Owns(h), NEW slot \in SlotState, SetSlot(h, slot),
           handler' \in [Handler -> Request],
           \A g \in Handler \ {h} : handler'[g] = handler[g],
           \/ handler'[h] = NoRequest
           \/ /\ handler'[h].pc \in Inside /\ handler'[h].slot = handler[h].slot
              /\ handler'[h].offset = handler[h].offset /\ handler'[h].data = handler[h].data
              /\ handler'[h].pc = "write" =>
                    slot.inited /\ Len(slot.hashed) = handler[h].offset
    PROVE  /\ slots' \in [Slot -> SlotState] /\ current' \in Slot \cup {None}
           /\ Serving' /\ Exclusive'
<1> USE DEF TypeInv, TypeOK
<1>1. handler[h].slot \in Slot
  BY DEF Owns, Serving
<1>2. slots' \in [Slot -> SlotState] /\ current' \in Slot \cup {None}
  BY <1>1 DEF SetSlot
<1>3. slots'[handler[h].slot] = slot /\ \A s \in Slot \ {handler[h].slot} : slots'[s] = slots[s]
  BY <1>1 DEF SetSlot
<1>4. \A g \in Handler \ {h} : handler[g].pc \in Inside => handler[g].slot # handler[h].slot
  BY DEF Owns, Locked, Exclusive
<1>5. NoRequest.pc = "idle" /\ NoRequest.offset = 0 /\ NoRequest.data = << >>
  BY DEF NoRequest
<1>6. Serving'
  <2> SUFFICES ASSUME NEW g \in Handler
               PROVE  /\ \/ handler'[g].pc \in Inside \cup {"lock"}
                         \/ handler'[g].pc = "permit" /\ handler'[g].kind = "status"
                         => handler'[g].slot \in Slot
                      /\ handler'[g].offset + Len(handler'[g].data) <= Size
                      /\ handler'[g].pc = "write" =>
                            /\ slots'[handler'[g].slot].inited
                            /\ Len(slots'[handler'[g].slot].hashed) = handler'[g].offset
    BY DEF Serving, Inside
  <2>1. CASE g # h
    <3>1. handler'[g] = handler[g]
      BY <2>1
    <3>2. handler[g].pc = "write" =>
             handler[g].slot \in Slot /\ slots'[handler[g].slot] = slots[handler[g].slot]
      BY <2>1, <1>3, <1>4 DEF Serving, Inside
    <3> QED
      BY <3>1, <3>2 DEF Serving
  <2>2. CASE g = h
    <3>1. CASE handler'[h] = NoRequest
      BY <2>2, <3>1, <1>5, SizeAssumption DEF Inside
    <3>2. CASE handler'[h] # NoRequest
      BY <2>2, <3>2, <1>1, <1>3 DEF Serving
    <3> QED
      BY <3>1, <3>2
  <2> QED
    BY <2>1, <2>2
<1>7. Exclusive'
  BY <1>4, <1>5 DEF Exclusive, Inside
<1> QED
  BY <1>2, <1>6, <1>7

\* The slot that h finds, or rebuilds from the temporary file, is a slot.
LEMMA OpenedTyped ==
    ASSUME TypeOK, NEW h \in Handler, handler[h].slot \in Slot
    PROVE  /\ Opened(h) \in SlotState /\ Opened(h).inited
           /\ Len(Opened(h).hashed) \in Nat
           /\ slots[handler[h].slot] \in SlotState
           /\ slots[handler[h].slot].inited =>
                 /\ Opened(h).hashed = slots[handler[h].slot].hashed
                 /\ Opened(h).done = slots[handler[h].slot].done
           /\ ~slots[handler[h].slot].inited => Opened(h).hashed = Bytes /\ ~Opened(h).done
<1> USE DEF TypeOK
<1>0. << >> \in Seq(0 .. Size)
  OBVIOUS
<1>1. Bytes \in Seq(0 .. Size)
  BY <1>0 DEF Bytes
<1>2. NewSlot \in SlotState
  BY DEF NewSlot, SlotState
<1>3. slots[handler[h].slot] \in SlotState
  OBVIOUS
<1>4. ASSUME slots[handler[h].slot].inited
      PROVE  /\ Opened(h) \in SlotState /\ Opened(h).inited
             /\ Opened(h).hashed = slots[handler[h].slot].hashed
             /\ Opened(h).done = slots[handler[h].slot].done
  <2>1. Opened(h) = [slots[handler[h].slot] EXCEPT !.old = FALSE]
    BY <1>4 DEF Opened
  <2> QED
    BY <1>3, <1>4, <2>1 DEF SlotState
<1>5. ASSUME ~slots[handler[h].slot].inited
      PROVE  /\ Opened(h) \in SlotState /\ Opened(h).inited
             /\ Opened(h).hashed = Bytes /\ ~Opened(h).done
  <2>1. Opened(h) = [NewSlot EXCEPT !.inited = TRUE, !.hashed = Bytes]
    BY <1>5 DEF Opened
  <2> QED
    BY <2>1, <1>1, <1>2 DEF SlotState, NewSlot
<1>6. Opened(h) \in SlotState /\ Opened(h).inited
  BY <1>4, <1>5, Zenon
<1>7. Len(Opened(h).hashed) \in Nat
  BY <1>6 DEF SlotState
<1> HIDE DEF TypeOK
<1> QED
  BY <1>3, <1>4, <1>5, <1>6, <1>7, Zenon

LEMMA ResetTyped == ResetSlot \in SlotState /\ ResetSlot.inited /\ ResetSlot.hashed = << >> /\ ~ResetSlot.done
<1>1. << >> \in Seq(0 .. Size)
  OBVIOUS
<1>2. NewSlot \in SlotState /\ NewSlot.hashed = << >> /\ ~NewSlot.done
  BY <1>1 DEF NewSlot, SlotState
<1> QED
  BY <1>2 DEF ResetSlot, SlotState

\* A step of h that sets its slot and then ends the request, or leaves it inside.
LEMMA AnswersInSlot ==
    ASSUME TypeInv, NEW h \in Handler, Owns(h), NEW slot \in SlotState, SetSlot(h, slot),
           NEW is, NEW n \in Nat, handler[h].kind = "status" \/ n <= Size,
           Answer(h, Reply(is, n))
    PROVE  /\ slots' \in [Slot -> SlotState] /\ current' \in Slot \cup {None}
           /\ client' \in [Client -> Tab] /\ handler' \in [Handler -> Request]
           /\ Listening' /\ Serving' /\ Exclusive'
<1>1. client' \in [Client -> Tab] /\ handler' \in [Handler -> Request] /\ Listening'
  BY AnswerTyped
<1>2. \A g \in Handler \ {h} : handler'[g] = handler[g]
  BY DEF Answer, TypeInv, TypeOK
<1>3. handler'[h] = NoRequest
  BY DEF Answer, TypeInv, TypeOK
<1> QED
  BY <1>1, <1>2, <1>3, SlotKept

LEMMA GoesOnInSlot ==
    ASSUME TypeInv, NEW h \in Handler, Owns(h), NEW slot \in SlotState, SetSlot(h, slot),
           NEW p \in Inside, p = "write" => slot.inited /\ Len(slot.hashed) = handler[h].offset,
           Goto(h, p), UNCHANGED client
    PROVE  /\ slots' \in [Slot -> SlotState] /\ current' \in Slot \cup {None}
           /\ client' \in [Client -> Tab] /\ handler' \in [Handler -> Request]
           /\ Listening' /\ Serving' /\ Exclusive'
<1>1. client' \in [Client -> Tab] /\ handler' \in [Handler -> Request] /\ Listening'
  BY GoesOnTyped DEF Inside, HandlerPC
<1>2. handler \in [Handler -> Request] /\ handler' = [handler EXCEPT ![h].pc = p]
  BY DEF Goto, TypeInv, TypeOK
<1>3. \A g \in Handler \ {h} : handler'[g] = handler[g]
  BY <1>2
<1>4. /\ handler'[h].pc = p /\ handler'[h].slot = handler[h].slot
      /\ handler'[h].offset = handler[h].offset /\ handler'[h].data = handler[h].data
  BY <1>2 DEF Request
<1> QED
  BY <1>1, <1>3, <1>4, SlotKept

\* A step of a request that leaves the slots alone and ends it.
LEMMA AnswersOutside ==
    ASSUME TypeInv, NEW h \in Handler, UNCHANGED memory,
           NEW is, NEW n \in Nat, handler[h].kind = "status" \/ n <= Size,
           Answer(h, Reply(is, n))
    PROVE  /\ slots' \in [Slot -> SlotState] /\ current' \in Slot \cup {None}
           /\ client' \in [Client -> Tab] /\ handler' \in [Handler -> Request]
           /\ Listening' /\ Serving' /\ Exclusive'
<1>1. client' \in [Client -> Tab] /\ handler' \in [Handler -> Request] /\ Listening'
  BY AnswerTyped
<1>2. slots' = slots /\ current' = current
  BY DEF memory
<1>3. \A g \in Handler \ {h} : handler'[g] = handler[g]
  BY DEF Answer, TypeInv, TypeOK
<1>4. handler'[h].pc = "idle" /\ handler'[h].offset = 0 /\ handler'[h].data = << >>
  BY DEF Answer, TypeInv, TypeOK, NoRequest
<1>5. Serving'
  BY <1>2, <1>3, <1>4, SizeAssumption DEF TypeInv, Serving, Inside
<1>6. Exclusive'
  BY <1>3, <1>4 DEF TypeInv, Exclusive, Inside
<1> QED
  BY <1>1, <1>2, <1>5, <1>6 DEF TypeInv, TypeOK

\* A step of a request that leaves the slots alone and takes it to the next wait.
LEMMA GoesOnOutside ==
    ASSUME TypeInv, NEW h \in Handler, UNCHANGED memory, UNCHANGED client,
           NEW p \in {"handle", "lock"}, Goto(h, p), p = "lock" => handler[h].slot \in Slot
    PROVE  /\ slots' \in [Slot -> SlotState] /\ current' \in Slot \cup {None}
           /\ client' \in [Client -> Tab] /\ handler' \in [Handler -> Request]
           /\ Listening' /\ Serving' /\ Exclusive'
<1>1. client' \in [Client -> Tab] /\ handler' \in [Handler -> Request] /\ Listening'
  BY GoesOnTyped DEF HandlerPC
<1>2. slots' = slots /\ current' = current
  BY DEF memory
<1>3. handler \in [Handler -> Request] /\ handler' = [handler EXCEPT ![h].pc = p]
  BY DEF Goto, TypeInv, TypeOK
<1>4. \A g \in Handler \ {h} : handler'[g] = handler[g]
  BY <1>3
<1>5. /\ handler'[h].pc = p /\ handler'[h].slot = handler[h].slot
      /\ handler'[h].offset = handler[h].offset /\ handler'[h].data = handler[h].data
  BY <1>3 DEF Request
<1>6. Serving'
  BY <1>2, <1>4, <1>5 DEF TypeInv, Serving, Inside
<1>7. Exclusive'
  BY <1>4, <1>5 DEF TypeInv, Exclusive, Inside
<1> QED
  BY <1>1, <1>2, <1>6, <1>7 DEF TypeInv, TypeOK

\* A tab that waits for nothing sends a request.
LEMMA SendTyped ==
    ASSUME TypeInv, NEW c \in Client, NEW h \in Handler, UNCHANGED memory,
           NEW first \in {"lookup", "permit"}, NEW kind \in {"status", "chunk"},
           NEW offset \in 0 .. Size, NEW data \in Seq(0 .. Size), offset + Len(data) <= Size,
           first = "permit" => kind = "chunk",
           Send(c, h, first, kind, offset, data),
           client[c].at \notin Waiting,
           NEW t \in Tab, client' = [client EXCEPT ![c] = t],
           t.at \in Waiting, t.at = "status" <=> kind = "status"
    PROVE  /\ slots' \in [Slot -> SlotState] /\ current' \in Slot \cup {None}
           /\ client' \in [Client -> Tab] /\ handler' \in [Handler -> Request]
           /\ Listening' /\ Serving' /\ Exclusive'
<1> USE DEF TypeInv, TypeOK
<1> DEFINE q == [NoRequest EXCEPT !.pc = first, !.kind = kind, !.offset = offset,
                                  !.data = data, !.owner = c]
<1>1. /\ q \in Request /\ q.pc = first /\ q.kind = kind /\ q.offset = offset
      /\ q.data = data /\ q.owner = c
  BY NoRequestTyped DEF Request, HandlerPC
<1> HIDE DEF q
<1>2. handler' = [handler EXCEPT ![h] = q]
  BY DEF Send, q
<1>3. slots' = slots /\ current' = current
  BY DEF memory
<1>4. \A g \in Handler : handler[g].owner # c
  BY DEF Listening
<1>5. Listening'
  BY <1>1, <1>2, <1>4 DEF Listening
<1>6. Serving'
  BY <1>1, <1>2, <1>3 DEF Serving, Inside
<1>7. Exclusive'
  BY <1>1, <1>2 DEF Exclusive, Inside
<1> QED
  BY <1>1, <1>2, <1>3, <1>5, <1>6, <1>7
-----------------------------------------------------------------------------
(* The typing is preserved by every action.                                *)

\* Any piece of the content, sound or garbled, is a sequence of units.
LEMMA PieceTyped ==
    ASSUME NEW from \in 0 .. Size, NEW to \in from + 1 .. Size
    PROVE  LET piece == SubSeq(Content, from + 1, to) IN
           /\ piece \in Seq(0 .. Size) /\ Len(piece) = to - from
           /\ [k \in DOMAIN piece |-> Garbage] \in Seq(0 .. Size)
           /\ Len([k \in DOMAIN piece |-> Garbage]) = to - from
<1> DEFINE piece == SubSeq(Content, from + 1, to)
<1> USE SizeAssumption
<1>1. \A i \in from + 1 .. to : Content[i] \in 0 .. Size
  BY DEF Content
<1>2. from + 1 \in Int /\ to \in Int /\ from + 1 <= to /\ to - (from + 1) + 1 = to - from
  OBVIOUS
<1>3. piece \in Seq(0 .. Size) /\ Len(piece) = to - from
  BY <1>1, <1>2, SubSeqProperties
<1> HIDE DEF piece
<1>4. DOMAIN piece = 1 .. to - from
  BY <1>3, LenProperties
<1>5. 0 \in 0 .. Size /\ to - from \in Nat
  OBVIOUS
<1>6. [k \in 1 .. to - from |-> Garbage] \in Seq(0 .. Size)
  BY <1>5 DEF Garbage
<1>7. Len([k \in 1 .. to - from |-> Garbage]) = to - from
  BY <1>5
<1> QED
  BY <1>3, <1>4, <1>6, <1>7 DEF piece

LEMMA NewTabTyped == NewTab \in Tab
BY SizeAssumption, LimitAssumption DEF NewTab, Tab, ClientAt

LEMMA TabTyped ==
    ASSUME TypeInv, NEW c \in Client, Start(c) \/ Loop(c) \/ Leave(c)
    PROVE  TypeInv'
<1> USE LimitAssumption, SizeAssumption DEF TypeInv, TypeOK, store, disk, bounds
<1>1. CASE Start(c)
  <2>1. PICK h \in Handler : Send(c, h, "lookup", "status", 0, << >>)
    BY <1>1 DEF Start
  <2>2. [NewTab EXCEPT !.at = "status"] \in Tab /\ [NewTab EXCEPT !.at = "status"].at = "status"
    BY NewTabTyped DEF Tab, ClientAt
  <2>3. << >> \in Seq(0 .. Size) /\ Len(<< >>) = 0 /\ 0 + 0 <= Size /\ 0 \in 0 .. Size
    OBVIOUS
  <2>4. /\ UNCHANGED memory /\ client[c].at \notin Waiting
        /\ client' = [client EXCEPT ![c] = [NewTab EXCEPT !.at = "status"]]
    BY <1>1 DEF Start, Waiting
  <2>5. /\ slots' \in [Slot -> SlotState] /\ current' \in Slot \cup {None}
        /\ client' \in [Client -> Tab] /\ handler' \in [Handler -> Request]
        /\ Listening' /\ Serving' /\ Exclusive'
    BY <2>1, <2>2, <2>3, <2>4, SendTyped DEF Waiting
  <2> QED
    BY <1>1, <2>5 DEF Start
<1>2. CASE SendChunk(c)
  <2>1. PICK end \in client[c].offset + 1 .. Size, h \in Handler :
           /\ client' = [client EXCEPT ![c].at = "chunk", ![c].end = end]
           /\ LET piece == SubSeq(Content, client[c].offset + 1, end) IN
              \/ /\ Send(c, h, "permit", "chunk", client[c].offset, piece)
                 /\ UNCHANGED faults
              \/ /\ Send(c, h, "permit", "chunk", client[c].offset,
                         [k \in DOMAIN piece |-> Garbage])
                 /\ Fault
    BY <1>2 DEF SendChunk
  <2> DEFINE piece == SubSeq(Content, client[c].offset + 1, end)
  <2> DEFINE t == [client[c] EXCEPT !.at = "chunk", !.end = end]
  <2>2. client[c] \in Tab /\ client[c].offset \in 0 .. Size
    BY DEF Tab
  <2>3. end \in 0 .. Size
    BY <2>2
  <2>4. t \in Tab /\ t.at = "chunk" /\ client' = [client EXCEPT ![c] = t]
    BY <2>1, <2>2, <2>3 DEF Tab, ClientAt
  <2>5. /\ piece \in Seq(0 .. Size) /\ Len(piece) = end - client[c].offset
        /\ [k \in DOMAIN piece |-> Garbage] \in Seq(0 .. Size)
        /\ Len([k \in DOMAIN piece |-> Garbage]) = end - client[c].offset
    BY <2>2, PieceTyped
  <2> HIDE DEF piece, t
  <2>6. PICK data \in {piece, [k \in DOMAIN piece |-> Garbage]} :
           Send(c, h, "permit", "chunk", client[c].offset, data)
    BY <2>1 DEF piece
  <2>7. data \in Seq(0 .. Size) /\ client[c].offset + Len(data) <= Size
    <3>1. data \in Seq(0 .. Size) /\ Len(data) = end - client[c].offset
      BY <2>5
    <3>2. client[c].offset \in Nat /\ end \in Nat /\ end <= Size /\ Size \in Nat
      BY <2>2, <2>3, SizeAssumption
    <3> QED
      BY ONLY <3>1, <3>2
  <2>8. UNCHANGED memory /\ client[c].at \notin Waiting
    BY <1>2 DEF SendChunk, Waiting
  <2>9. /\ slots' \in [Slot -> SlotState] /\ current' \in Slot \cup {None}
        /\ client' \in [Client -> Tab] /\ handler' \in [Handler -> Request]
        /\ Listening' /\ Serving' /\ Exclusive'
    BY <2>2, <2>4, <2>6, <2>7, <2>8, SendTyped DEF Waiting
  <2>10. faults' \in 0 .. MaxFaults
    BY <2>1 DEF Fault
  <2> QED
    BY <1>2, <2>9, <2>10 DEF SendChunk
<1>3. CASE SendFinal(c)
  <2>1. PICK h \in Handler : Send(c, h, "permit", "chunk", Size, << >>)
    BY <1>3 DEF SendFinal
  <2> DEFINE t == [client[c] EXCEPT !.at = "final"]
  <2>2. t \in Tab /\ t.at = "final" /\ client' = [client EXCEPT ![c] = t]
    BY <1>3 DEF SendFinal, Tab, ClientAt
  <2> HIDE DEF t
  <2>3. << >> \in Seq(0 .. Size) /\ Size \in 0 .. Size /\ Size + Len(<< >>) <= Size
    OBVIOUS
  <2>4. UNCHANGED memory /\ client[c].at \notin Waiting
    BY <1>3 DEF SendFinal, Waiting
  <2>5. /\ slots' \in [Slot -> SlotState] /\ current' \in Slot \cup {None}
        /\ client' \in [Client -> Tab] /\ handler' \in [Handler -> Request]
        /\ Listening' /\ Serving' /\ Exclusive'
    BY <2>1, <2>2, <2>3, <2>4, SendTyped DEF Waiting
  <2> QED
    BY <1>3, <2>5 DEF SendFinal
<1>4. CASE Leave(c)
  <2>1. client[c] \in Tab /\ client[c].at \in Waiting
    BY <1>4 DEF Leave, Waiting
  <2>2. React(client[c], Reply("failed", 0)) \in Tab
    <3>1. 0 \in Nat /\ 0 <= Size
      OBVIOUS
    <3> QED
      BY <2>1, <3>1, ReactTyped
  <2>3. At(client[c], "error") \in Tab
    BY <2>1, NewTabTyped DEF At, Tab, ClientAt
  <2>4. PICK next \in Tab : client' = [client EXCEPT ![c] = next]
    BY <1>4, <2>2, <2>3 DEF Leave
  <2>5. \A h \in Handler : [handler[h] EXCEPT !.owner = None] \in Request
    BY DEF Request
  <2>6. handler' \in [Handler -> Request]
    BY <1>4, <2>5 DEF Leave
  <2>7. \A h \in Handler :
           /\ handler'[h].pc = handler[h].pc /\ handler'[h].slot = handler[h].slot
           /\ handler'[h].kind = handler[h].kind /\ handler'[h].offset = handler[h].offset
           /\ handler'[h].data = handler[h].data
           /\ handler'[h].owner = IF handler[h].owner = c THEN None ELSE handler[h].owner
    BY <1>4 DEF Leave, Request
  <2>8. Listening'
    <3>1. Listening /\ \A d \in Client \ {c} : client'[d] = client[d]
      BY <2>4
    <3>2. \A h \in Handler : handler'[h].owner \in Client =>
             handler[h].owner \in Client \ {c} /\ handler'[h].owner = handler[h].owner
      BY <2>7, NoneAssumption
    <3>3. \A h \in Handler : handler'[h].kind = handler[h].kind
      BY <2>7
    <3> QED
      BY ONLY <3>1, <3>2, <3>3 DEF Listening
  <2>9. slots' = slots /\ current' = current
    BY <1>4 DEF Leave, memory
  <2>10. Serving'
    <3>1. Serving
      OBVIOUS
    <3> QED
      BY ONLY <2>7, <2>9, <3>1 DEF Serving
  <2>11. Exclusive'
    BY <2>7 DEF Exclusive
  <2>12. faults' \in 0 .. MaxFaults
    BY <1>4 DEF Leave, Fault
  <2> QED
    BY <1>4, <2>4, <2>6, <2>8, <2>9, <2>10, <2>11, <2>12 DEF Leave
<1> QED
  BY <1>1, <1>2, <1>3, <1>4 DEF Loop

\* The steps of a request before it has its slot's lock.
LEMMA WaitTyped ==
    ASSUME TypeInv, NEW h \in Handler, Lookup(h) \/ GetHandle(h) \/ Permit(h)
    PROVE  TypeInv'
<1> USE LimitAssumption, SizeAssumption DEF TypeInv, TypeOK, store, disk, bounds
<1>1. CASE Lookup(h)
  <2>1. UNCHANGED memory
    BY <1>1 DEF Lookup
  <2>2. \/ Answer(h, Reply("exists", 0)) \/ Answer(h, Reply("quota", 0))
        \/ Goto(h, "handle") /\ UNCHANGED client
    BY <1>1 DEF Lookup
  <2>3. /\ slots' \in [Slot -> SlotState] /\ current' \in Slot \cup {None}
        /\ client' \in [Client -> Tab] /\ handler' \in [Handler -> Request]
        /\ Listening' /\ Serving' /\ Exclusive'
    BY <2>1, <2>2, AnswersOutside, GoesOnOutside
  <2>4. faults' \in 0 .. MaxFaults
    BY <1>1 DEF Lookup, Fault
  <2> QED
    BY <1>1, <2>3, <2>4 DEF Lookup
<1>2. CASE GetHandle(h)
  <2>1. PICK s \in Slot :
           /\ \/ s = current /\ UNCHANGED memory
              \/ /\ current = None /\ \A g \in Handler : handler[g].slot # s
                 /\ current' = s
                 /\ slots' = [slots EXCEPT ![s] = NewSlot]
           /\ handler' = [handler EXCEPT
                            ![h].slot = s,
                            ![h].pc = IF handler[h].kind = "status" THEN "permit" ELSE "lock"]
    BY <1>2 DEF GetHandle
  <2>2. NewSlot \in SlotState
    <3>1. << >> \in Seq(0 .. Size)
      OBVIOUS
    <3> QED
      BY <3>1 DEF NewSlot, SlotState
  <2>3. slots' \in [Slot -> SlotState] /\ current' \in Slot \cup {None}
    BY <2>1, <2>2 DEF memory
  <2> DEFINE q == [handler[h] EXCEPT !.slot = s,
                     !.pc = IF handler[h].kind = "status" THEN "permit" ELSE "lock"]
  <2>4. /\ handler[h].kind = "status" => q.pc = "permit"
        /\ handler[h].kind # "status" => q.pc = "lock"
        /\ q \in Request /\ q.slot = s /\ q.kind = handler[h].kind
        /\ q.owner = handler[h].owner
        /\ q.offset = handler[h].offset /\ q.data = handler[h].data
    <3>1. handler[h] \in Request
      OBVIOUS
    <3>2. CASE handler[h].kind = "status"
      BY <3>1, <3>2 DEF Request, HandlerPC
    <3>3. CASE handler[h].kind # "status"
      BY <3>1, <3>3 DEF Request, HandlerPC
    <3> QED
      BY <3>2, <3>3
  <2>5. client' = client /\ handler' = [handler EXCEPT ![h] = q]
    BY <1>2, <2>1 DEF GetHandle
  <2> HIDE DEF q
  <2>6. Listening'
    BY <2>4, <2>5 DEF Listening
  <2>7. \A g \in Handler \ {h} :
           handler[g].slot \in Slot => slots'[handler[g].slot] = slots[handler[g].slot]
    BY <2>1 DEF memory
  <2>8. Serving'
    BY <2>4, <2>5, <2>7 DEF Serving, Inside
  <2>9. Exclusive'
    BY <2>4, <2>5 DEF Exclusive, Inside
  <2> QED
    BY <1>2, <2>3, <2>4, <2>5, <2>6, <2>8, <2>9 DEF GetHandle
<1>3. CASE Permit(h)
  <2>1. UNCHANGED memory /\ UNCHANGED client /\ handler[h].pc = "permit"
    BY <1>3 DEF Permit
  <2>2. PICK p \in {"handle", "lock"} :
           Goto(h, p) /\ (p = "lock" <=> handler[h].kind = "status")
    BY <1>3 DEF Permit
  <2>3. p = "lock" => handler[h].slot \in Slot
    BY <2>1, <2>2 DEF Serving
  <2>4. /\ slots' \in [Slot -> SlotState] /\ current' \in Slot \cup {None}
        /\ client' \in [Client -> Tab] /\ handler' \in [Handler -> Request]
        /\ Listening' /\ Serving' /\ Exclusive'
    BY <2>1, <2>2, <2>3, GoesOnOutside
  <2> QED
    BY <1>3, <2>4 DEF Permit
<1> QED
  BY <1>1, <1>2, <1>3

\* A discarded file is gone, or left as it was.
LEMMA DiscardTyped ==
    ASSUME TypeInv, NEW h, NEW file \in Seq(0 .. Size) \cup {None}, NEW old \in BOOLEAN,
           Discard(h, file, old)
    PROVE  /\ tmp' \in Seq(0 .. Size) \cup {None} /\ tmpOld' \in BOOLEAN
           /\ upsets' \in 0 .. MaxUpsets
<1>1. upsets \in 0 .. MaxUpsets /\ MaxUpsets \in Nat
  BY LimitAssumption DEF TypeInv, TypeOK
<1>2. CASE tmp' = None /\ tmpOld' = FALSE /\ UNCHANGED upsets
  BY <1>1, <1>2
<1>3. CASE Upset("leftover") /\ tmp' = file /\ tmpOld' = old
  BY <1>1, <1>3 DEF Upset
<1> QED
  BY <1>2, <1>3 DEF Discard

\* Comparing the hash either goes on to the duplicate check or discards the upload.
LEMMA VerifyTyped ==
    ASSUME TypeInv, NEW h \in Handler, Owns(h),
           NEW hashed \in Seq(0 .. Size), NEW file \in Seq(0 .. Size) \cup {None}, NEW old \in BOOLEAN,
           Verify(h, hashed, file, old)
    PROVE  /\ slots' \in [Slot -> SlotState] /\ current' \in Slot \cup {None}
           /\ client' \in [Client -> Tab] /\ handler' \in [Handler -> Request]
           /\ Listening' /\ Serving' /\ Exclusive'
           /\ tmp' \in Seq(0 .. Size) \cup {None} /\ tmpOld' \in BOOLEAN
           /\ upsets' \in 0 .. MaxUpsets
<1>1. handler[h].slot \in Slot
  BY DEF Owns, TypeInv, Serving
<1>2. CASE hashed = Content
  <2> DEFINE slot == [Opened(h) EXCEPT !.hashed = hashed]
  <2>1. slot \in SlotState
    BY <1>1, OpenedTyped DEF SlotState, TypeInv
  <2>2. /\ SetSlot(h, slot) /\ Goto(h, "dup") /\ UNCHANGED client /\ tmp' = file /\ tmpOld' = old
        /\ UNCHANGED upsets
    BY <1>2 DEF Verify
  <2> HIDE DEF slot
  <2>3. "dup" \in Inside /\ "dup" # "write"
    BY DEF Inside
  <2>4. /\ slots' \in [Slot -> SlotState] /\ current' \in Slot \cup {None}
        /\ client' \in [Client -> Tab] /\ handler' \in [Handler -> Request]
        /\ Listening' /\ Serving' /\ Exclusive'
    BY <2>1, <2>2, <2>3, GoesOnInSlot
  <2> QED
    BY <2>2, <2>4 DEF TypeInv, TypeOK
<1>3. CASE hashed # Content
  <2>1. Discard(h, file, old) /\ Answer(h, Reply("hash", 0))
    BY <1>3 DEF Verify
  <2>2. 0 \in Nat /\ 0 <= Size
    BY SizeAssumption
  <2>3. /\ slots' \in [Slot -> SlotState] /\ current' \in Slot \cup {None}
        /\ client' \in [Client -> Tab] /\ handler' \in [Handler -> Request]
        /\ Listening' /\ Serving' /\ Exclusive'
    BY <2>1, <2>2, ResetTyped, AnswersInSlot DEF Discard
  <2> QED
    BY <2>1, <2>3, DiscardTyped
<1> QED
  BY <1>2, <1>3

\* A step that ends in an answer after the slot was reset, opened or kept.
LEMMA EndsTyped ==
    ASSUME TypeInv, NEW h \in Handler, Owns(h), NEW is, NEW n \in Nat,
           handler[h].kind = "status" \/ n <= Size, Answer(h, Reply(is, n)),
           \/ UNCHANGED <<disk, memory>>
           \/ Discard(h, tmp, tmpOld)
           \/ KeepForRetry(h)
           \/ SetSlot(h, Opened(h)) /\ UNCHANGED disk
    PROVE  /\ slots' \in [Slot -> SlotState] /\ current' \in Slot \cup {None}
           /\ client' \in [Client -> Tab] /\ handler' \in [Handler -> Request]
           /\ Listening' /\ Serving' /\ Exclusive'
           /\ tmp' \in Seq(0 .. Size) \cup {None} /\ tmpOld' \in BOOLEAN
<1>1. Opened(h) \in SlotState /\ slots[handler[h].slot] \in SlotState
  BY OpenedTyped DEF Owns, TypeInv, Serving
<1>2. tmp' \in Seq(0 .. Size) \cup {None} /\ tmpOld' \in BOOLEAN
  <2>1. tmp \in Seq(0 .. Size) \cup {None} /\ tmpOld \in BOOLEAN
    BY DEF TypeInv, TypeOK
  <2> QED
    BY <2>1, DiscardTyped DEF KeepForRetry, disk
<1>3. CASE UNCHANGED memory
  BY <1>2, <1>3, AnswersOutside
<1>4. CASE \E slot \in SlotState : SetSlot(h, slot)
  BY <1>2, <1>4, AnswersInSlot
<1>5. UNCHANGED memory \/ \E slot \in SlotState : SetSlot(h, slot)
  <2>1. CASE UNCHANGED <<disk, memory>>
    BY <2>1
  <2>2. CASE Discard(h, tmp, tmpOld)
    BY <2>2, ResetTyped DEF Discard
  <2>3. CASE KeepForRetry(h)
    <3>1. (IF tmp = None THEN ResetSlot ELSE Opened(h)) \in SlotState
      BY <1>1, ResetTyped
    <3> QED
      BY <2>3, <3>1 DEF KeepForRetry
  <2>4. CASE SetSlot(h, Opened(h))
    BY <2>4, <1>1
  <2> QED
    BY <2>1, <2>2, <2>3, <2>4
<1> QED
  BY <1>3, <1>4, <1>5

\* The steps with which a request takes its slot's lock.
LEMMA EnterTyped ==
    ASSUME TypeInv, NEW h \in Handler,
           \/ Report(h) \/ ReadFails(h) \/ Overlook(h) \/ Overfull(h) \/ Replay(h)
           \/ Reupload(h) \/ Accept(h) \/ Finalize(h)
    PROVE  TypeInv'
<1>1. Owns(h)
  BY DEF Owns, Enters, Report, ReadFails, Overlook, Overfull, Replay, Reupload, Accept, Finalize
<1>2. handler[h].slot \in Slot
  BY <1>1 DEF Owns, TypeInv, Serving
<1> tmp \in Seq(0 .. Size) \cup {None} /\ tmpOld \in BOOLEAN /\ upsets \in 0 .. MaxUpsets
  BY DEF TypeInv, TypeOK
<1>3. /\ Opened(h) \in SlotState /\ Opened(h).inited
      /\ Len(Opened(h).hashed) \in Nat
      /\ ResetSlot \in SlotState /\ ResetSlot.inited /\ ResetSlot.hashed = << >>
  BY <1>2, OpenedTyped, ResetTyped DEF TypeInv
<1>4. 0 \in Nat /\ 0 <= Size
  BY SizeAssumption
<1> DEFINE Done ==
      /\ slots' \in [Slot -> SlotState] /\ current' \in Slot \cup {None}
      /\ client' \in [Client -> Tab] /\ handler' \in [Handler -> Request]
      /\ Listening' /\ Serving' /\ Exclusive'
      /\ tmp' \in Seq(0 .. Size) \cup {None} /\ tmpOld' \in BOOLEAN
<1>5. CASE Report(h)
  <2>1. Done
    BY <1>1, <1>3, <1>5, EndsTyped DEF Report, Enters, disk
  <2> QED
    BY <1>5, <2>1 DEF Report, TypeInv, TypeOK, store, bounds
<1>6. CASE ReadFails(h)
  <2>1. Done
    BY <1>1, <1>4, <1>6, EndsTyped DEF ReadFails, disk, memory
  <2>2. faults' \in 0 .. MaxFaults
    BY <1>6, LimitAssumption DEF ReadFails, Fault, TypeInv, TypeOK
  <2> QED
    BY <1>6, <2>1, <2>2 DEF ReadFails, TypeInv, TypeOK, store
<1>7. CASE Overfull(h)
  <2>1. Done
    BY <1>1, <1>4, <1>7, EndsTyped DEF Overfull
  <2>2. upsets' \in 0 .. MaxUpsets
    BY <1>7, DiscardTyped DEF Overfull
  <2> QED
    BY <1>7, <2>1, <2>2 DEF Overfull, TypeInv, TypeOK, store
<1>8. CASE Replay(h)
  <2>1. Done
    BY <1>1, <1>3, <1>8, EndsTyped DEF Replay, disk
  <2> QED
    BY <1>8, <2>1 DEF Replay, TypeInv, TypeOK, store, bounds
<1>9. CASE Reupload(h)
  <2>1. Done
    <3>1. CASE handler[h].offset = 0
      <4>1. SetSlot(h, ResetSlot) /\ Goto(h, "write") /\ UNCHANGED client
        BY <1>9, <3>1 DEF Reupload, Discard
      <4>2. "write" \in Inside /\ Len(ResetSlot.hashed) = handler[h].offset
        BY <3>1, <1>3 DEF Inside
      <4>3. /\ slots' \in [Slot -> SlotState] /\ current' \in Slot \cup {None}
            /\ client' \in [Client -> Tab] /\ handler' \in [Handler -> Request]
            /\ Listening' /\ Serving' /\ Exclusive'
        BY <1>1, <1>3, <4>1, <4>2, GoesOnInSlot
      <4> QED
        BY <1>9, <3>1, <4>3, DiscardTyped DEF Reupload
    <3>2. CASE handler[h].offset # 0
      BY <1>1, <1>4, <1>9, <3>2, EndsTyped DEF Reupload
    <3> QED
      BY <3>1, <3>2
  <2>2. upsets' \in 0 .. MaxUpsets
    BY <1>9, DiscardTyped DEF Reupload
  <2> QED
    BY <1>9, <2>1, <2>2 DEF Reupload, TypeInv, TypeOK, store
<1>10. CASE Accept(h)
  <2>1. Done
    <3>1. CASE handler[h].offset # Len(Opened(h).hashed)
      BY <1>1, <1>3, <1>10, <3>1, EndsTyped DEF Accept, disk
    <3>2. CASE handler[h].offset = Len(Opened(h).hashed)
      <4>1. SetSlot(h, Opened(h)) /\ Goto(h, "write") /\ UNCHANGED client
        BY <1>10, <3>2 DEF Accept
      <4>2. "write" \in Inside
        BY DEF Inside
      <4>3. /\ slots' \in [Slot -> SlotState] /\ current' \in Slot \cup {None}
            /\ client' \in [Client -> Tab] /\ handler' \in [Handler -> Request]
            /\ Listening' /\ Serving' /\ Exclusive'
        BY <1>1, <1>3, <3>2, <4>1, <4>2, GoesOnInSlot
      <4> QED
        BY <1>10, <4>3 DEF Accept, disk, TypeInv, TypeOK
    <3> QED
      BY <3>1, <3>2
  <2> QED
    BY <1>10, <2>1 DEF Accept, TypeInv, TypeOK, store, bounds
<1>11. CASE Finalize(h)
  <2>1. Done /\ upsets' \in 0 .. MaxUpsets
    <3>1. CASE /\ handler[h].offset = Len(Opened(h).hashed)
               /\ Len(Opened(h).hashed) = Size
      <4>1. Verify(h, Opened(h).hashed, tmp, tmpOld)
        BY <1>11, <3>1 DEF Finalize
      <4>2. Opened(h).hashed \in Seq(0 .. Size)
        BY <1>3 DEF SlotState
      <4>3. tmp \in Seq(0 .. Size) \cup {None} /\ tmpOld \in BOOLEAN
        BY DEF TypeInv, TypeOK
      <4> QED
        BY <1>1, <4>1, <4>2, <4>3, VerifyTyped
    <3>2. CASE ~(/\ handler[h].offset = Len(Opened(h).hashed)
                 /\ Len(Opened(h).hashed) = Size)
      BY <1>1, <1>3, <1>11, <3>2, EndsTyped DEF Finalize
    <3> QED
      BY <3>1, <3>2
  <2> QED
    BY <1>11, <2>1 DEF Finalize, TypeInv, TypeOK, store
<1>12. CASE Overlook(h)
  <2>1. /\ slots' = [slots EXCEPT ![handler[h].slot] = ResetSlot] /\ current' = current
        /\ handler' = handler /\ client' = client
    BY <1>12 DEF Overlook, SetSlot
  <2>2. \A g \in Handler : handler[g].pc \in Inside => handler[g].slot # handler[h].slot
    BY <1>12 DEF Overlook, Locked
  <2>3. slots' \in [Slot -> SlotState] /\ \A s \in Slot \ {handler[h].slot} : slots'[s] = slots[s]
    BY <1>2, <1>3, <2>1 DEF TypeInv, TypeOK
  <2>4. Serving' /\ Exclusive' /\ Listening'
    BY <2>1, <2>2, <2>3 DEF TypeInv, Serving, Exclusive, Listening, Inside
  <2>5. upsets' \in 0 .. MaxUpsets
    BY <1>12, LimitAssumption DEF Overlook, Upset, TypeInv, TypeOK
  <2> QED
    BY <1>12, <2>1, <2>3, <2>4, <2>5 DEF Overlook, TypeInv, TypeOK, store, disk
<1> QED
  BY <1>5, <1>6, <1>7, <1>8, <1>9, <1>10, <1>11, <1>12

\* The temporary file, or nothing, with a piece of a chunk after it.
LEMMA AppendedTyped ==
    ASSUME TypeInv, NEW h \in Handler, NEW n \in 0 .. Len(handler[h].data)
    PROVE  /\ Bytes \in Seq(0 .. Size) /\ handler[h].data \in Seq(0 .. Size)
           /\ Bytes \o handler[h].data \in Seq(0 .. Size)
           /\ Bytes \o SubSeq(handler[h].data, 1, n) \in Seq(0 .. Size)
<1>1. << >> \in Seq(0 .. Size)
  OBVIOUS
<1>2. Bytes \in Seq(0 .. Size) /\ handler[h].data \in Seq(0 .. Size)
  BY <1>1 DEF Bytes, TypeInv, TypeOK, Request
<1>3. \A i \in 1 .. n : handler[h].data[i] \in 0 .. Size
  <2>1. Len(handler[h].data) \in Nat
    BY <1>2
  <2>2. \A i \in 1 .. n : i \in 1 .. Len(handler[h].data)
    BY <2>1
  <2> QED
    BY <1>2, <2>2, ElementOfSeq
<1>4. SubSeq(handler[h].data, 1, n) \in Seq(0 .. Size)
  <2>1. 1 \in Int /\ n \in Int
    BY <1>2
  <2> QED
    BY <1>3, <2>1, SubSeqProperties
<1> QED
  BY <1>2, <1>4, ConcatProperties

\* The chunk is written, in part or not at all.
LEMMA WriteTyped ==
    ASSUME TypeInv, NEW h \in Handler, Write(h) \/ WriteFails(h)
    PROVE  TypeInv'
<1>1. Owns(h) /\ handler[h].pc = "write"
  BY DEF Owns, Write, WriteFails, Inside
<1>2. handler[h].slot \in Slot
  BY <1>1 DEF Owns, TypeInv, Serving
<1>3. Opened(h) \in SlotState
  BY <1>2, OpenedTyped DEF TypeInv
<1> DEFINE Done ==
      /\ slots' \in [Slot -> SlotState] /\ current' \in Slot \cup {None}
      /\ client' \in [Client -> Tab] /\ handler' \in [Handler -> Request]
      /\ Listening' /\ Serving' /\ Exclusive'
      /\ tmp' \in Seq(0 .. Size) \cup {None} /\ tmpOld' \in BOOLEAN
<1>4. CASE Write(h)
  <2> DEFINE hashed == Opened(h).hashed \o handler[h].data
             file == Bytes \o handler[h].data
  <2>1. handler[h].data \in Seq(0 .. Size) /\ Opened(h).hashed \in Seq(0 .. Size)
    BY <1>3 DEF TypeInv, TypeOK, Request, SlotState
  <2>2. /\ hashed \in Seq(0 .. Size)
        /\ Len(hashed) = Len(Opened(h).hashed) + Len(handler[h].data)
        /\ Len(hashed) \in Nat
    <3>1. /\ hashed \in Seq(0 .. Size)
          /\ Len(hashed) = Len(Opened(h).hashed) + Len(handler[h].data)
      BY <2>1, ConcatProperties
    <3> HIDE DEF hashed
    <3> QED
      BY <3>1, LenProperties
  <2>3. file \in Seq(0 .. Size)
    <3>1. 0 \in 0 .. Len(handler[h].data)
      BY <2>1
    <3> QED
      BY <3>1, AppendedTyped
  <2>4. Len(hashed) <= Size
    BY <1>1, <1>2, <2>2, OpenedTyped DEF TypeInv, Serving
  <2>5. IF Len(hashed) = Size
        THEN Verify(h, hashed, file, FALSE)
        ELSE /\ SetSlot(h, [Opened(h) EXCEPT !.hashed = hashed])
             /\ tmp' = file /\ tmpOld' = FALSE
             /\ Answer(h, Reply("received", Len(hashed)))
             /\ UNCHANGED upsets
    BY <1>4 DEF Write
  <2> HIDE DEF hashed, file
  <2>6. Done /\ upsets' \in 0 .. MaxUpsets
    <3>1. CASE Len(hashed) = Size
      BY <1>1, <2>2, <2>3, <2>5, <3>1, VerifyTyped
    <3>2. CASE Len(hashed) # Size
      <4>1. [Opened(h) EXCEPT !.hashed = hashed] \in SlotState
        BY <1>3, <2>2 DEF SlotState
      <4>2. /\ slots' \in [Slot -> SlotState] /\ current' \in Slot \cup {None}
            /\ client' \in [Client -> Tab] /\ handler' \in [Handler -> Request]
            /\ Listening' /\ Serving' /\ Exclusive'
        BY <1>1, <2>2, <2>4, <2>5, <3>2, <4>1, AnswersInSlot
      <4> QED
        BY <2>3, <2>5, <3>2, <4>2 DEF TypeInv, TypeOK
    <3> QED
      BY <3>1, <3>2
  <2> QED
    BY <1>4, <2>6 DEF Write, TypeInv, TypeOK, store
<1>5. CASE WriteFails(h)
  <2>1. 0 \in Nat /\ 0 <= Size
    BY SizeAssumption
  <2>2. /\ slots' \in [Slot -> SlotState] /\ current' \in Slot \cup {None}
        /\ client' \in [Client -> Tab] /\ handler' \in [Handler -> Request]
        /\ Listening' /\ Serving' /\ Exclusive'
    BY <1>5, <2>1, AnswersOutside DEF WriteFails
  <2>3. /\ tmp' \in Seq(0 .. Size) \cup {None} /\ tmpOld' \in BOOLEAN
        /\ upsets' \in 0 .. MaxUpsets
    <3>1. CASE UNCHANGED <<disk, upsets>>
      BY <3>1 DEF disk, TypeInv, TypeOK
    <3>2. CASE /\ Upset("torn")
               /\ \E n \in 1 .. Len(handler[h].data) :
                     tmp' = Bytes \o SubSeq(handler[h].data, 1, n)
               /\ tmpOld' = FALSE
      <4>1. PICK n \in 1 .. Len(handler[h].data) : tmp' = Bytes \o SubSeq(handler[h].data, 1, n)
        BY <3>2
      <4>2. n \in 0 .. Len(handler[h].data)
        OBVIOUS
      <4>3. tmp' \in Seq(0 .. Size)
        BY <4>1, <4>2, AppendedTyped
      <4>4. upsets' \in 0 .. MaxUpsets
        BY <3>2, LimitAssumption DEF Upset, TypeInv, TypeOK
      <4> QED
        BY <3>2, <4>3, <4>4
    <3> QED
      BY <1>5, <3>1, <3>2 DEF WriteFails
  <2>4. faults' \in 0 .. MaxFaults
    BY <1>5, LimitAssumption DEF WriteFails, Fault, TypeInv, TypeOK
  <2> QED
    BY <1>5, <2>2, <2>3, <2>4 DEF WriteFails, TypeInv, TypeOK, store
<1> QED
  BY <1>4, <1>5

\* finalize_slot.
LEMMA FinalizeTyped ==
    ASSUME TypeInv, NEW h \in Handler, FinalizeSlot(h)
    PROVE  TypeInv'
<1>1. Owns(h) /\ handler[h].pc \in {"dup", "move", "save"}
  BY DEF Owns, FinalizeSlot, CheckDuplicate, Move, MoveFails, KeepFails, Save, SaveFails, SaveUnacked, Inside
<1>2. handler[h].slot \in Slot
  BY <1>1 DEF Owns, TypeInv, Serving
<1>3. Opened(h) \in SlotState
  BY <1>2, OpenedTyped DEF TypeInv
<1>4. 0 \in Nat /\ 0 <= Size /\ Size \in Nat /\ Size <= Size
  BY SizeAssumption
<1>5. slots[handler[h].slot] \in SlotState /\ (UNCHANGED memory => SetSlot(h, slots[handler[h].slot]))
  BY <1>2 DEF TypeInv, TypeOK, SetSlot, memory
<1> DEFINE Done ==
      /\ slots' \in [Slot -> SlotState] /\ current' \in Slot \cup {None}
      /\ client' \in [Client -> Tab] /\ handler' \in [Handler -> Request]
      /\ Listening' /\ Serving' /\ Exclusive'
      /\ tmp' \in Seq(0 .. Size) \cup {None} /\ tmpOld' \in BOOLEAN
<1>6. Fault \/ UNCHANGED faults => faults' \in 0 .. MaxFaults
  BY LimitAssumption DEF Fault, TypeInv, TypeOK
<1> tmp \in Seq(0 .. Size) \cup {None} /\ tmpOld \in BOOLEAN
  BY DEF TypeInv, TypeOK
<1>13. Discard(h, tmp, tmpOld) \/ UNCHANGED upsets => upsets' \in 0 .. MaxUpsets
  BY DiscardTyped DEF TypeInv, TypeOK
<1>7. CASE CheckDuplicate(h)
  <2>1. Done
    <3>1. CASE Goto(h, "move") /\ UNCHANGED <<client, disk, memory, faults>>
      <4>1. "move" \in Inside /\ "move" # "write"
        BY DEF Inside
      <4>2. /\ slots' \in [Slot -> SlotState] /\ current' \in Slot \cup {None}
            /\ client' \in [Client -> Tab] /\ handler' \in [Handler -> Request]
            /\ Listening' /\ Serving' /\ Exclusive'
        BY <1>1, <1>5, <3>1, <4>1, GoesOnInSlot
      <4> QED
        BY <3>1, <4>2 DEF disk, TypeInv, TypeOK
    <3>2. CASE /\ Discard(h, tmp, tmpOld) \/ KeepForRetry(h)
               /\ Answer(h, Reply("duplicate", 0)) \/ Answer(h, Reply("failed", 0))
      BY <1>1, <1>4, <3>2, EndsTyped
    <3> QED
      BY <1>7, <3>1, <3>2 DEF CheckDuplicate
  <2> QED
    BY <1>7, <2>1, <1>6, <1>13 DEF CheckDuplicate, TypeInv, TypeOK, store
<1>8. CASE Move(h)
  <2>1. tmp \in Seq(0 .. Size)
    BY <1>8 DEF Move, TypeInv, TypeOK
  <2>2. handler' \in [Handler -> Request]
    <3>1. [handler[h] EXCEPT !.pc = "save", !.moved = tmp] \in Request
      BY <2>1 DEF TypeInv, TypeOK, Request, HandlerPC
    <3>2. handler' = [handler EXCEPT ![h] = [handler[h] EXCEPT !.pc = "save", !.moved = tmp]]
      BY <1>8 DEF Move
    <3> QED
      BY <3>1, <3>2 DEF TypeInv, TypeOK
  <2>3. /\ \A g \in Handler \ {h} : handler'[g] = handler[g]
        /\ handler'[h].pc = "save" /\ handler'[h].slot = handler[h].slot
        /\ handler'[h].offset = handler[h].offset /\ handler'[h].data = handler[h].data
    BY <1>8 DEF Move, TypeInv, TypeOK, Request
  <2>4. "save" \in Inside /\ "save" # "write"
    BY DEF Inside
  <2>5. slots' \in [Slot -> SlotState] /\ current' \in Slot \cup {None} /\ Serving' /\ Exclusive'
    BY <1>1, <1>5, <1>8, <2>2, <2>3, <2>4, SlotKept DEF Move
  <2>6. \A g \in Handler : handler'[g].owner = handler[g].owner /\ handler'[g].kind = handler[g].kind
    BY <1>8 DEF Move, TypeInv, TypeOK, Request
  <2>7. client' = client
    BY <1>8 DEF Move
  <2>8. Listening'
    BY <2>6, <2>7 DEF Listening, TypeInv
  <2> QED
    BY <1>8, <2>2, <2>5, <2>7, <2>8 DEF Move, TypeInv, TypeOK, store, bounds
<1>9. CASE MoveFails(h)
  <2>1. Done
    BY <1>1, <1>4, <1>9, EndsTyped DEF MoveFails
  <2> QED
    BY <1>9, <2>1, <1>6, <1>13 DEF MoveFails, TypeInv, TypeOK, store
<1>10. CASE Save(h)
  <2>1. [Opened(h) EXCEPT !.done = TRUE] \in SlotState
    BY <1>3 DEF SlotState
  <2>2. /\ slots' \in [Slot -> SlotState] /\ current' \in Slot \cup {None}
        /\ client' \in [Client -> Tab] /\ handler' \in [Handler -> Request]
        /\ Listening' /\ Serving' /\ Exclusive'
    BY <1>1, <1>4, <1>10, <2>1, AnswersInSlot DEF Save
  <2>3. row' \in BOOLEAN /\ ever' \in BOOLEAN /\ stored' \in Seq(0 .. Size)
    BY <1>10 DEF Save, Insert, TypeInv, TypeOK, Request
  <2> QED
    BY <1>10, <2>2, <2>3 DEF Save, TypeInv, TypeOK, disk, bounds
<1>11. CASE SaveFails(h)
  <2>1. Done
    BY <1>1, <1>4, <1>11, EndsTyped DEF SaveFails
  <2> QED
    BY <1>11, <2>1, <1>6, <1>13 DEF SaveFails, TypeInv, TypeOK, store
<1>12. CASE SaveUnacked(h)
  <2>1. Done
    BY <1>1, <1>4, <1>12, EndsTyped DEF SaveUnacked
  <2>2. << >> \in Seq(0 .. Size)
    OBVIOUS
  <2>3. row' \in BOOLEAN /\ ever' \in BOOLEAN /\ stored' \in Seq(0 .. Size)
    BY <1>12, <2>2 DEF SaveUnacked, Insert
  <2>4. upsets' \in 0 .. MaxUpsets
    BY <1>12, LimitAssumption DEF SaveUnacked, Upset, TypeInv, TypeOK
  <2> QED
    BY <1>12, <2>1, <2>3, <2>4 DEF SaveUnacked, TypeInv, TypeOK
<1>14. CASE KeepFails(h)
  <2>1. /\ slots' \in [Slot -> SlotState] /\ current' \in Slot \cup {None}
        /\ client' \in [Client -> Tab] /\ handler' \in [Handler -> Request]
        /\ Listening' /\ Serving' /\ Exclusive'
    BY <1>1, <1>4, <1>14, ResetTyped, AnswersInSlot DEF KeepFails
  <2>2. upsets' \in 0 .. MaxUpsets
    BY <1>14, LimitAssumption DEF KeepFails, Upset, TypeInv, TypeOK
  <2> QED
    BY <1>6, <1>14, <2>1, <2>2 DEF KeepFails, TypeInv, TypeOK, store
<1> QED
  BY <1>7, <1>8, <1>9, <1>10, <1>11, <1>12, <1>14 DEF FinalizeSlot

\* What an abandoned request leaves on the disk and in the database is well-typed.
LEMMA AbandonedTyped ==
    ASSUME TypeInv, NEW h \in Handler, Abandoned(h)
    PROVE  /\ row' \in BOOLEAN /\ ever' \in BOOLEAN /\ stored' \in Seq(0 .. Size)
           /\ tmp' \in Seq(0 .. Size) \cup {None} /\ tmpOld' \in BOOLEAN
<1> USE DEF TypeInv, TypeOK
<1>1. CASE handler[h].pc = "write"
  <2>1. PICK n \in 0 .. Len(handler[h].data) :
           /\ tmp' = IF n = 0 THEN tmp ELSE Bytes \o SubSeq(handler[h].data, 1, n)
           /\ tmpOld' = IF n = 0 THEN tmpOld ELSE FALSE
    BY <1>1 DEF Abandoned
  <2>2. Bytes \o SubSeq(handler[h].data, 1, n) \in Seq(0 .. Size)
    BY AppendedTyped
  <2>3. UNCHANGED store
    BY <1>1 DEF Abandoned
  <2>4. CASE n = 0
    BY <2>1, <2>3, <2>4 DEF store
  <2>5. CASE n # 0
    BY <2>1, <2>2, <2>3, <2>5 DEF store
  <2> QED
    BY <2>4, <2>5
<1>2. CASE handler[h].pc = "move"
  <2>1. UNCHANGED store /\ (UNCHANGED disk \/ (tmp' = None /\ tmpOld' = FALSE))
    BY <1>2 DEF Abandoned
  <2> QED
    BY <2>1 DEF store, disk
<1>3. CASE handler[h].pc = "save"
  <2>1. UNCHANGED disk /\ (UNCHANGED store \/ Insert(handler[h].moved))
    BY <1>3 DEF Abandoned
  <2>2. handler[h].moved \in Seq(0 .. Size)
    BY DEF Request
  <2>3. CASE UNCHANGED store
    BY <2>1, <2>3 DEF store, disk
  <2>4. CASE Insert(handler[h].moved)
    BY <2>1, <2>2, <2>4 DEF disk, Insert
  <2> QED
    BY <2>1, <2>3, <2>4
<1>4. CASE handler[h].pc \notin {"write", "move", "save"}
  <2>1. UNCHANGED <<store, disk>>
    BY <1>4 DEF Abandoned
  <2> QED
    BY <2>1 DEF store, disk
<1> QED
  BY <1>1, <1>2, <1>3, <1>4

LEMMA DropTyped ==
    ASSUME TypeInv, NEW h \in Handler, Drop(h)
    PROVE  TypeInv'
<1>1. 0 \in Nat /\ 0 <= Size
  BY SizeAssumption
<1>2. /\ slots' \in [Slot -> SlotState] /\ current' \in Slot \cup {None}
      /\ client' \in [Client -> Tab] /\ handler' \in [Handler -> Request]
      /\ Listening' /\ Serving' /\ Exclusive'
  BY <1>1, AnswersOutside DEF Drop
<1>3. /\ row' \in BOOLEAN /\ ever' \in BOOLEAN /\ stored' \in Seq(0 .. Size)
      /\ tmp' \in Seq(0 .. Size) \cup {None} /\ tmpOld' \in BOOLEAN
  BY AbandonedTyped DEF Drop
<1>4. faults' \in 0 .. MaxFaults /\ upsets' \in 0 .. MaxUpsets
  BY LimitAssumption DEF Drop, Fault, Upset, TypeInv, TypeOK
<1> QED
  BY <1>2, <1>3, <1>4 DEF Drop, TypeInv, TypeOK

LEMMA NewSlotTyped == NewSlot \in SlotState
<1>1. << >> \in Seq(0 .. Size)
  OBVIOUS
<1> QED
  BY <1>1 DEF NewSlot, SlotState

LEMMA CrashTyped ==
    ASSUME TypeInv, Crash
    PROVE  TypeInv'
<1>1. /\ row' \in BOOLEAN /\ ever' \in BOOLEAN /\ stored' \in Seq(0 .. Size)
      /\ tmp' \in Seq(0 .. Size) \cup {None} /\ tmpOld' \in BOOLEAN
  <2>1. CASE \E h \in Handler : Abandoned(h)
    BY <2>1, AbandonedTyped
  <2>2. CASE UNCHANGED <<store, disk>>
    BY <2>2 DEF store, disk, TypeInv, TypeOK
  <2> QED
    BY <2>1, <2>2 DEF Crash
<1>2. slots' \in [Slot -> SlotState] /\ current' \in Slot \cup {None}
  BY NewSlotTyped DEF Crash
<1>3. handler' \in [Handler -> Request] /\ \A h \in Handler : handler'[h] = NoRequest
  BY NoRequestTyped DEF Crash
<1>4. ASSUME NEW c \in Client
      PROVE  (IF client[c].at \in Waiting
              THEN React(client[c], Reply("failed", 0)) ELSE client[c]) \in Tab
  <2>1. 0 \in Nat /\ 0 <= Size
    BY SizeAssumption
  <2> QED
    BY <2>1, ReactTyped DEF TypeInv, TypeOK
<1>5. client' \in [Client -> Tab]
  BY <1>4 DEF Crash, Waiting
<1>6. NoRequest.pc = "idle" /\ NoRequest.offset = 0 /\ NoRequest.data = << >>
  BY DEF NoRequest
<1>7. Listening' /\ Serving' /\ Exclusive'
  BY <1>3, <1>6, NoRequestTyped, SizeAssumption DEF Listening, Serving, Exclusive, Inside
<1>8. faults' \in 0 .. MaxFaults
  BY LimitAssumption DEF Crash, Fault, TypeInv, TypeOK
<1> QED
  BY <1>1, <1>2, <1>3, <1>5, <1>7, <1>8 DEF Crash, TypeInv, TypeOK

\* Time, the sweeps and the deletion touch no request.
LEMMA AroundTyped ==
    ASSUME TypeInv, MinutesPass \/ DayPasses \/ SweepSlot \/ SweepFile \/ Delete
    PROVE  TypeInv'
<1> USE LimitAssumption DEF TypeInv, TypeOK, store, disk
<1>1. CASE MinutesPass
  <2>1. faults' \in 0 .. MaxFaults
    BY <1>1 DEF MinutesPass, TimePasses, Fault
  <2>2. slots' \in [Slot -> SlotState]
    BY <1>1 DEF MinutesPass, SlotState
  <2>3. Listening' /\ Exclusive'
    BY <1>1 DEF MinutesPass, Listening, Exclusive
  <2>4. Serving'
    BY <1>1 DEF MinutesPass, TimePasses, Serving, Inside
  <2> QED
    BY <1>1, <2>1, <2>2, <2>3, <2>4 DEF MinutesPass
<1>2. CASE DayPasses
  <2>1. faults' \in 0 .. MaxFaults
    BY <1>2 DEF DayPasses, TimePasses, Fault
  <2>2. slots' \in [Slot -> SlotState]
    <3>1. ASSUME NEW s \in Slot
          PROVE  [slots[s] EXCEPT !.old = @ \/ s = current] \in SlotState
      BY DEF SlotState
    <3> QED
      BY <1>2, <3>1 DEF DayPasses
  <2>3. Listening' /\ Exclusive'
    BY <1>2 DEF DayPasses, Listening, Exclusive
  <2>4. Serving'
    BY <1>2 DEF DayPasses, TimePasses, Serving, Inside
  <2> QED
    BY <1>2, <2>1, <2>2, <2>3, <2>4 DEF DayPasses
<1>3. CASE SweepSlot
  <2>1. upsets' \in 0 .. MaxUpsets
    BY <1>3 DEF SweepSlot, Upset
  <2>2. slots' \in [Slot -> SlotState]
    BY <1>3, NewSlotTyped DEF SweepSlot
  <2>3. Listening' /\ Exclusive'
    BY <1>3 DEF SweepSlot, Listening, Exclusive
  <2>4. \A h \in Handler : handler[h].slot \in Slot => slots'[handler[h].slot] = slots[handler[h].slot]
    BY <1>3 DEF SweepSlot
  <2>5. Serving'
    BY <1>3, <2>4 DEF SweepSlot, Serving, Inside
  <2> QED
    BY <1>3, <2>1, <2>2, <2>3, <2>5 DEF SweepSlot
<1>4. CASE SweepFile
  <2>1. upsets' \in 0 .. MaxUpsets
    BY <1>4 DEF SweepFile, Upset
  <2>2. slots' = slots /\ current' = current /\ handler' = handler /\ client' = client
    BY <1>4 DEF SweepFile, memory
  <2>3. Listening' /\ Serving' /\ Exclusive'
    BY <2>2 DEF Listening, Serving, Exclusive
  <2> QED
    BY <1>4, <2>1, <2>2, <2>3 DEF SweepFile
<1>5. CASE Delete
  <2>1. upsets' \in 0 .. MaxUpsets
    BY <1>5 DEF Delete, Upset
  <2>2. slots' = slots /\ current' = current /\ handler' = handler /\ client' = client
    BY <1>5 DEF Delete, memory
  <2>3. Listening' /\ Serving' /\ Exclusive'
    BY <2>2 DEF Listening, Serving, Exclusive
  <2>4. << >> \in Seq(0 .. Size)
    OBVIOUS
  <2> QED
    BY <1>5, <2>1, <2>2, <2>3, <2>4 DEF Delete
<1> QED
  BY <1>1, <1>2, <1>3, <1>4, <1>5

LEMMA InitTyped == Init => TypeInv
<1> SUFFICES ASSUME Init PROVE TypeInv
  OBVIOUS
<1>1. << >> \in Seq(0 .. Size)
  OBVIOUS
<1>2. NoRequest.pc = "idle" /\ NoRequest.offset = 0 /\ NoRequest.data = << >>
  BY DEF NoRequest
<1>3. /\ slots \in [Slot -> SlotState] /\ handler \in [Handler -> Request]
      /\ client \in [Client -> Tab]
  BY NewSlotTyped, NewTabTyped, NoRequestTyped DEF Init
<1>4. starts \in 0 .. MaxStarts /\ faults \in 0 .. MaxFaults /\ upsets \in 0 .. MaxUpsets
  BY LimitAssumption DEF Init
<1>5. TypeOK
  BY <1>1, <1>3, <1>4 DEF Init, TypeOK
<1>6. Listening /\ Serving /\ Exclusive
  BY <1>2, NoRequestTyped, SizeAssumption DEF Init, Listening, Serving, Exclusive, Inside
<1> QED
  BY <1>5, <1>6 DEF TypeInv

\* The variables keep their types, tabs and requests stay matched, and the lock of a slot
\* excludes, whatever fails, is swept or is deleted.
THEOREM TypeInvariant == Spec => []TypeInv
<1>1. Init => TypeInv
  BY InitTyped
<1>2. TypeInv /\ [Next]_vars => TypeInv'
  <2> SUFFICES ASSUME TypeInv, [Next]_vars PROVE TypeInv'
    OBVIOUS
  <2>1. CASE UNCHANGED vars
    BY <2>1 DEF vars, store, disk, memory, bounds, TypeInv, TypeOK, Listening, Serving, Exclusive
  <2>2. ASSUME NEW c \in Client, Start(c) \/ Loop(c) \/ Leave(c) PROVE TypeInv'
    BY <2>2, TabTyped
  <2>3. ASSUME NEW h \in Handler, Serve(h) PROVE TypeInv'
    BY <2>3, WaitTyped, EnterTyped, WriteTyped, FinalizeTyped DEF Serve, AppendChunk
  <2>4. ASSUME NEW h \in Handler, Drop(h) PROVE TypeInv'
    BY <2>4, DropTyped
  <2>5. CASE Crash
    BY <2>5, CrashTyped
  <2>6. CASE MinutesPass \/ DayPasses \/ SweepSlot \/ SweepFile \/ Delete
    BY <2>6, AroundTyped
  <2> QED
    BY <2>1, <2>2, <2>3, <2>4, <2>5, <2>6 DEF Next
<1> QED
  BY <1>1, <1>2, PTL DEF Spec

\* The typing of UploadSession.
THEOREM TypeCorrect == Spec => []TypeOK
<1>1. TypeInv => TypeOK
  BY DEF TypeInv
<1> QED
  BY <1>1, TypeInvariant, PTL
-----------------------------------------------------------------------------
(* What is stored is intact, when no upset but a deletion happens.         *)

\* No upset but a deletion is possible, or none happens in this step.
Mild == Upsets \subseteq {"deleted"} \/ upsets' = upsets

LEMMA NoUpset ==
    ASSUME TypeInv, Mild, NEW kind, kind # "deleted"
    PROVE  ~Upset(kind)
<1>1. upsets \in Nat
  BY LimitAssumption DEF TypeInv, TypeOK
<1> QED
  BY <1>1 DEF Mild, Upset

\* Every request works on the slot that is in the map.
Attached == \A h \in Handler : handler[h].slot \in {None, current}

\* Inside the lock, the hash is that of the file, and what was verified is what is moved.
Sound(h) ==
    handler[h].pc \in Inside =>
        /\ slots[handler[h].slot].inited /\ ~slots[handler[h].slot].done
        /\ handler[h].pc = "write" => slots[handler[h].slot].hashed = Bytes
        /\ handler[h].pc # "write" => slots[handler[h].slot].hashed = Content
        /\ handler[h].pc \in {"dup", "move"} => tmp \in {None, Content}
        /\ handler[h].pc = "save" => handler[h].moved = Content /\ tmp = None

\* A slot that may be appended to agrees with the file, or is full and has lost it.
Agrees(slot, file) ==
    slot.inited /\ ~slot.done =>
        \/ slot.hashed = (IF file = None THEN << >> ELSE file)
        \/ Len(slot.hashed) = Size /\ file = None

FileInv ==
    /\ Attached
    /\ \A h \in Handler : Sound(h)
    /\ current # None /\ ~Locked(current) => Agrees(slots[current], tmp)
    /\ StoredIntact

LEMMA ContentLength == Len(Content) = Size /\ Content \in Seq(0 .. Size)
<1>1. [k \in 1 .. Size |-> k] \in Seq(0 .. Size)
  BY SizeAssumption
<1>2. Len([k \in 1 .. Size |-> k]) = Size
  BY SizeAssumption
<1> QED
  BY <1>1, <1>2 DEF Content

\* Steps before and after the lock, which change no file, no row and no slot.
LEMMA OutsideKeeps ==
    ASSUME TypeInv, FileInv, UNCHANGED <<store, disk, memory>>,
           \A g \in Handler :
              \/ /\ handler'[g].pc = handler[g].pc /\ handler'[g].slot = handler[g].slot
                 /\ handler'[g].moved = handler[g].moved
              \/ /\ handler[g].pc \notin Inside /\ handler'[g].pc \notin Inside
                 /\ handler'[g].slot \in {None, current}
    PROVE  FileInv'
<1>1. /\ row' = row /\ stored' = stored /\ tmp' = tmp /\ slots' = slots /\ current' = current
  BY DEF store, disk, memory
<1>2. Attached' /\ StoredIntact'
  BY <1>1 DEF FileInv, Attached, StoredIntact
<1>3. ASSUME NEW g \in Handler PROVE Sound(g)'
  BY <1>1 DEF FileInv, Sound, Bytes
<1>4. current' # None /\ ~Locked(current)' => Agrees(slots[current], tmp)'
  <2>1. current # None => Locked(current)' \/ ~Locked(current)
    BY <1>1, NoneAssumption DEF Locked, TypeInv, TypeOK, Inside
  <2> QED
    BY <1>1, <2>1 DEF FileInv, Agrees
<1> QED
  BY <1>2, <1>3, <1>4 DEF FileInv

\* A request that owns its slot is alone, and its slot is the one in the map.
LEMMA AloneInSlot ==
    ASSUME TypeInv, FileInv, NEW h \in Handler, Owns(h)
    PROVE  /\ handler[h].slot = current /\ current \in Slot /\ current # None
           /\ \A g \in Handler \ {h} : handler[g].pc \notin Inside
<1>1. handler[h].slot \in Slot
  BY DEF Owns, TypeInv, Serving
<1>2. handler[h].slot = current /\ current \in Slot /\ current # None
  BY <1>1, NoneAssumption DEF FileInv, Attached
<1>3. ASSUME NEW g \in Handler, g # h, handler[g].pc \in Inside PROVE FALSE
  <2>1. handler[g].slot = current
    BY <1>3, NoneAssumption DEF TypeInv, Serving, FileInv, Attached
  <2> QED
    BY <1>2, <1>3, <2>1 DEF Owns, Locked, TypeInv, Exclusive
<1> QED
  BY <1>2, <1>3

\* The slot as the request finds it agrees with the file; inside, it is as it was left.
LEMMA OpenedAgrees ==
    ASSUME TypeInv, FileInv, NEW h \in Handler, Owns(h)
    PROVE  /\ handler[h].pc = "lock" => Agrees(Opened(h), tmp)
           /\ handler[h].pc \in Inside =>
                 /\ Opened(h).hashed = slots[handler[h].slot].hashed /\ ~Opened(h).done
<1>1. /\ handler[h].slot = current /\ current \in Slot /\ current # None
      /\ \A g \in Handler \ {h} : handler[g].pc \notin Inside
  BY AloneInSlot
<1>2. /\ Opened(h).inited
      /\ slots[current].inited =>
            /\ Opened(h).hashed = slots[current].hashed /\ Opened(h).done = slots[current].done
      /\ ~slots[current].inited => Opened(h).hashed = Bytes /\ ~Opened(h).done
  BY <1>1, OpenedTyped DEF TypeInv
<1>3. CASE handler[h].pc = "lock"
  <2>1. Agrees(slots[current], tmp)
    BY <1>1, <1>3 DEF Owns, FileInv
  <2>2. ASSUME slots[current].inited PROVE Agrees(Opened(h), tmp)
    BY <1>2, <2>1, <2>2, Zenon DEF Agrees
  <2>3. ASSUME ~slots[current].inited PROVE Agrees(Opened(h), tmp)
    BY <1>2, <2>3, Zenon DEF Agrees, Bytes
  <2>4. Agrees(Opened(h), tmp)
    BY <2>2, <2>3, Zenon
  <2> QED
    BY <1>3, <2>4 DEF Inside
<1>4. CASE handler[h].pc \in Inside
  <2>1. slots[current].inited /\ ~slots[current].done
    BY <1>1, <1>4 DEF FileInv, Sound
  <2> QED
    BY <1>1, <1>2, <1>4, <2>1 DEF Inside
<1> QED
  BY <1>3, <1>4 DEF Owns

\* A request ends and leaves its slot in agreement with the file.
LEMMA EndKeeps ==
    ASSUME TypeInv, FileInv, NEW h \in Handler, Owns(h), NEW slot \in SlotState, SetSlot(h, slot),
           NEW r, Answer(h, r), Agrees(slot, tmp'), row' => stored' = Content
    PROVE  FileInv'
<1>1. /\ handler[h].slot = current /\ current \in Slot /\ current # None
      /\ \A g \in Handler \ {h} : handler[g].pc \notin Inside
  BY AloneInSlot
<1>2. current' = current /\ slots'[current] = slot
  BY <1>1 DEF SetSlot, TypeInv, TypeOK
<1>3. \A g \in Handler \ {h} : handler'[g] = handler[g]
  BY DEF Answer, TypeInv, TypeOK
<1>4. handler'[h].pc \notin Inside /\ handler'[h].slot = None
  BY DEF Answer, TypeInv, TypeOK, NoRequest, Inside
<1>5. Attached'
  BY <1>2, <1>3, <1>4 DEF FileInv, Attached
<1>6. \A g \in Handler : Sound(g)'
  BY <1>1, <1>3, <1>4 DEF Sound
<1>7. Agrees(slots[current], tmp)'
  BY <1>2 DEF Agrees
<1> QED
  BY <1>5, <1>6, <1>7 DEF FileInv, StoredIntact

\* A request goes on inside the lock of its slot.
LEMMA InsideKeeps ==
    ASSUME TypeInv, FileInv, NEW h \in Handler, Owns(h), NEW slot \in SlotState, SetSlot(h, slot),
           UNCHANGED store, \A g \in Handler \ {h} : handler'[g] = handler[g],
           handler'[h].pc \in Inside, handler'[h].slot = handler[h].slot,
           slot.inited, ~slot.done,
           handler'[h].pc = "write" => slot.hashed = Bytes',
           handler'[h].pc # "write" => slot.hashed = Content,
           handler'[h].pc \in {"dup", "move"} => tmp' \in {None, Content},
           handler'[h].pc = "save" => handler'[h].moved = Content /\ tmp' = None
    PROVE  FileInv'
<1>1. /\ handler[h].slot = current /\ current \in Slot /\ current # None
      /\ \A g \in Handler \ {h} : handler[g].pc \notin Inside
  BY AloneInSlot
<1>2. current' = current /\ slots'[current] = slot
  BY <1>1 DEF SetSlot, TypeInv, TypeOK
<1>3. Attached'
  BY <1>1, <1>2 DEF FileInv, Attached
<1>4. Sound(h)'
  BY <1>1, <1>2 DEF Sound
<1>5. \A g \in Handler \ {h} : Sound(g)'
  BY <1>1 DEF Sound
<1>6. Locked(current)'
  BY <1>1, <1>2 DEF Locked
<1>7. StoredIntact'
  BY DEF FileInv, StoredIntact, store
<1> QED
  BY <1>3, <1>4, <1>5, <1>6, <1>7 DEF FileInv

\* Tabs, and requests that wait, keep FileInv.
LEMMA TabKeeps ==
    ASSUME TypeInv, FileInv, NEW c \in Client, Start(c) \/ Loop(c) \/ Leave(c)
    PROVE  FileInv'
<1>1. UNCHANGED <<store, disk, memory>>
  BY DEF Start, Loop, SendChunk, SendFinal, Leave
<1>2. ASSUME NEW h \in Handler, NEW first \in {"lookup", "permit"},
             NEW kind, NEW offset, NEW data, Send(c, h, first, kind, offset, data)
      PROVE  FileInv'
  <2>2. handler[h].pc \notin Inside /\ \A g \in Handler \ {h} : handler'[g] = handler[g]
    BY <1>2 DEF Send, TypeInv, TypeOK, Inside
  <2>3. handler'[h].pc = first /\ handler'[h].slot = None
    BY <1>2 DEF Send, TypeInv, TypeOK, NoRequest
  <2> QED
    BY <1>1, <2>2, <2>3, OutsideKeeps DEF Inside
<1>3. CASE Leave(c)
  <2>1. \A g \in Handler :
           /\ handler'[g].pc = handler[g].pc /\ handler'[g].slot = handler[g].slot
           /\ handler'[g].moved = handler[g].moved
    BY <1>3 DEF Leave, TypeInv, TypeOK, Request
  <2> QED
    BY <1>1, <2>1, OutsideKeeps
<1>4. CASE Start(c)
  BY <1>2, <1>4 DEF Start
<1>5. CASE SendChunk(c)
  BY <1>2, <1>5 DEF SendChunk
<1>6. CASE SendFinal(c)
  BY <1>2, <1>6 DEF SendFinal
<1> QED
  BY <1>3, <1>4, <1>5, <1>6 DEF Loop

LEMMA WaitKeeps ==
    ASSUME TypeInv, FileInv, NEW h \in Handler, Lookup(h) \/ GetHandle(h) \/ Permit(h)
    PROVE  FileInv'
<1>1. CASE Lookup(h) \/ Permit(h)
  <2>1. UNCHANGED <<store, disk, memory>> /\ handler[h].pc \notin Inside
    BY <1>1 DEF Lookup, Permit, Inside
  <2>2. \A g \in Handler \ {h} : handler'[g] = handler[g]
    BY <1>1 DEF Lookup, Permit, Answer, Goto, TypeInv, TypeOK
  <2>3. handler'[h].pc \notin Inside
    BY <1>1 DEF Lookup, Permit, Answer, Goto, TypeInv, TypeOK, Request, NoRequest, Inside
  <2>4. handler'[h].slot \in {None, handler[h].slot}
    BY <1>1 DEF Lookup, Permit, Answer, Goto, TypeInv, TypeOK, Request, NoRequest
  <2>5. handler'[h].slot \in {None, current}
    BY <2>4 DEF FileInv, Attached
  <2> QED
    BY <2>1, <2>2, <2>3, <2>5, OutsideKeeps
<1>2. CASE GetHandle(h)
  <2>1. PICK s \in Slot :
           /\ \/ s = current /\ UNCHANGED memory
              \/ /\ current = None /\ \A g \in Handler : handler[g].slot # s
                 /\ current' = s
                 /\ slots' = [slots EXCEPT ![s] = NewSlot]
           /\ handler' = [handler EXCEPT
                            ![h].slot = s,
                            ![h].pc = IF handler[h].kind = "status" THEN "permit" ELSE "lock"]
    BY <1>2 DEF GetHandle
  <2>2. \A g \in Handler \ {h} : handler'[g] = handler[g]
    BY <2>1 DEF TypeInv, TypeOK
  <2>3. handler'[h].slot = s /\ handler'[h].pc \notin Inside
    <3>1. CASE handler[h].kind = "status"
      BY <2>1, <3>1 DEF TypeInv, TypeOK, Request, Inside
    <3>2. CASE handler[h].kind # "status"
      BY <2>1, <3>2 DEF TypeInv, TypeOK, Request, Inside
    <3> QED
      BY <3>1, <3>2
  <2>4. handler[h].pc \notin Inside /\ UNCHANGED <<store, disk>>
    BY <1>2 DEF GetHandle, Inside
  <2>5. CASE s = current /\ UNCHANGED memory
    BY <2>2, <2>3, <2>4, <2>5, OutsideKeeps
  <2>6. CASE /\ current = None /\ \A g \in Handler : handler[g].slot # s
             /\ current' = s /\ slots' = [slots EXCEPT ![s] = NewSlot]
    <3>1. \A g \in Handler : handler[g].slot = None
      BY <2>6 DEF FileInv, Attached
    <3>2. \A g \in Handler : handler'[g].pc \notin Inside
      BY <2>2, <2>3, <3>1, NoneAssumption DEF TypeInv, Serving
    <3>3. Attached'
      BY <2>2, <2>3, <2>6, <3>1 DEF Attached
    <3>4. \A g \in Handler : Sound(g)'
      BY <3>2 DEF Sound
    <3>5. ~slots'[s].inited
      BY <2>6 DEF TypeInv, TypeOK, NewSlot
    <3>6. Agrees(slots[current], tmp)'
      BY <2>6, <3>5 DEF Agrees
    <3>7. StoredIntact'
      BY <2>4 DEF FileInv, StoredIntact, store
    <3> QED
      BY <3>3, <3>4, <3>6, <3>7 DEF FileInv
  <2> QED
    BY <2>1, <2>5, <2>6
<1> QED
  BY <1>1, <1>2

\* An empty slot agrees with no file.
LEMMA DiscardAgrees ==
    ASSUME TypeInv, Mild, NEW h \in Handler, NEW file, NEW old, Discard(h, file, old)
    PROVE  Agrees(ResetSlot, tmp') /\ SetSlot(h, ResetSlot) /\ ResetSlot \in SlotState
BY ResetTyped, NoUpset DEF Discard, Agrees

\* A request that takes its lock keeps FileInv, unless it may overlook the file.
LEMMA EnterKeeps ==
    ASSUME TypeInv, FileInv, Mild, NEW h \in Handler,
           \/ Report(h) \/ ReadFails(h) \/ Overlook(h) \/ Overfull(h) \/ Replay(h)
           \/ Reupload(h) \/ Accept(h) \/ Finalize(h)
    PROVE  FileInv'
<1>1. Owns(h) /\ handler[h].pc = "lock"
  BY DEF Owns, Enters, Report, ReadFails, Overlook, Overfull, Replay, Reupload, Accept, Finalize
<1>2. /\ Opened(h) \in SlotState /\ Opened(h).inited
      /\ Len(Opened(h).hashed) \in Nat /\ Opened(h).hashed \in Seq(0 .. Size)
      /\ ResetSlot \in SlotState /\ ResetSlot.inited
      /\ ResetSlot.hashed = << >> /\ ~ResetSlot.done
  BY <1>1, OpenedTyped, ResetTyped DEF TypeInv, Owns, Serving, SlotState
<1>3. Agrees(Opened(h), tmp)
  BY <1>1, OpenedAgrees
<1>4. UNCHANGED store
  BY DEF Report, ReadFails, Overlook, Overfull, Replay, Reupload, Accept, Finalize
<1>5. row' => stored' = Content
  BY <1>4 DEF FileInv, StoredIntact, store
<1>6. handler \in [Handler -> Request]
  BY DEF TypeInv, TypeOK
<1>7. ASSUME SetSlot(h, Opened(h)), UNCHANGED disk, NEW r, Answer(h, r) PROVE FileInv'
  BY <1>1, <1>2, <1>3, <1>5, <1>7, EndKeeps DEF disk
<1>8. ASSUME NEW file, NEW old, Discard(h, file, old), NEW r, Answer(h, r) PROVE FileInv'
  BY <1>1, <1>5, <1>8, DiscardAgrees, EndKeeps
<1>9. CASE Report(h)
  BY <1>7, <1>9 DEF Report, disk
<1>10. CASE ReadFails(h)
  <2>1. \A g \in Handler \ {h} : handler'[g] = handler[g]
    BY <1>6, <1>10 DEF ReadFails, Answer
  <2>2. handler'[h].pc = "idle" /\ handler'[h].slot = None
    BY <1>6, <1>10 DEF ReadFails, Answer, NoRequest
  <2>3. UNCHANGED <<store, disk, memory>>
    BY <1>10 DEF ReadFails
  <2> QED
    BY <1>1, <2>1, <2>2, <2>3, OutsideKeeps DEF Inside
<1>11. CASE Overfull(h)
  BY <1>8, <1>11 DEF Overfull
<1>12. CASE Replay(h)
  BY <1>7, <1>12 DEF Replay, disk
<1>13. CASE Reupload(h)
  <2>1. CASE handler[h].offset = 0
    <3>1. Discard(h, tmp, tmpOld) /\ Goto(h, "write")
      BY <1>13, <2>1 DEF Reupload
    <3>2. Bytes' = << >>
      BY <3>1, NoUpset DEF Discard, Bytes
    <3>3. /\ \A g \in Handler \ {h} : handler'[g] = handler[g]
          /\ handler'[h].pc = "write" /\ handler'[h].slot = handler[h].slot
      BY <1>6, <3>1 DEF Goto, Request
    <3>4. SetSlot(h, ResetSlot)
      BY <3>1 DEF Discard
    <3> QED
      BY <1>1, <1>2, <1>4, <3>2, <3>3, <3>4, InsideKeeps DEF Inside
  <2>2. CASE handler[h].offset # 0
    BY <1>7, <1>13, <2>2 DEF Reupload
  <2> QED
    BY <2>1, <2>2
<1>14. CASE Accept(h)
  <2>1. CASE handler[h].offset # Len(Opened(h).hashed)
    BY <1>7, <1>14, <2>1 DEF Accept, disk
  <2>2. CASE handler[h].offset = Len(Opened(h).hashed)
    <3>1. SetSlot(h, Opened(h)) /\ Goto(h, "write") /\ UNCHANGED disk /\ ~Opened(h).done
      BY <1>14, <2>2 DEF Accept, disk
    <3>2. /\ \A g \in Handler \ {h} : handler'[g] = handler[g]
          /\ handler'[h].pc = "write" /\ handler'[h].slot = handler[h].slot
      BY <1>6, <3>1 DEF Goto, Request
    <3>3. Len(Opened(h).hashed) # Size
      <4>1. handler[h].offset + Len(handler[h].data) <= Size
        BY DEF TypeInv, Serving
      <4>2. handler[h].data \in Seq(0 .. Size) /\ handler[h].data # << >>
        BY <1>6, <1>14 DEF Accept, Request
      <4>3. Len(handler[h].data) \in Nat /\ Len(handler[h].data) # 0
        BY <4>2
      <4>4. handler[h].offset \in Nat /\ Size \in Nat
        BY <1>6, SizeAssumption DEF Request
      <4>5. handler[h].offset < Size
        BY <4>1, <4>3, <4>4
      <4> QED
        BY <2>2, <4>4, <4>5
    <3>4. Opened(h).hashed = Bytes
      BY <1>2, <1>3, <3>1, <3>3 DEF Agrees, Bytes
    <3>5. Bytes' = Bytes
      BY <3>1 DEF disk, Bytes
    <3> QED
      BY <1>1, <1>2, <1>4, <3>1, <3>2, <3>4, <3>5, InsideKeeps DEF Inside
  <2> QED
    BY <2>1, <2>2
<1>15. CASE Finalize(h)
  <2>1. CASE /\ handler[h].offset = Len(Opened(h).hashed)
             /\ Len(Opened(h).hashed) = Size
    <3>1. Verify(h, Opened(h).hashed, tmp, tmpOld)
      BY <1>15, <2>1 DEF Finalize
    <3>2. ~Opened(h).done
      <4>1. ~IsReplay(h) /\ Len(handler[h].data) = 0
        BY <1>15 DEF Finalize
      <4> QED
        BY <1>2, <2>1, <4>1 DEF IsReplay
    <3>3. CASE Opened(h).hashed = Content
      <4> DEFINE slot == [Opened(h) EXCEPT !.hashed = Opened(h).hashed]
      <4>1. SetSlot(h, slot) /\ Goto(h, "dup") /\ tmp' = tmp
        BY <3>1, <3>3 DEF Verify
      <4>2. slot \in SlotState /\ slot.inited /\ ~slot.done /\ slot.hashed = Content
        BY <1>2, <3>2, <3>3 DEF SlotState
      <4> HIDE DEF slot
      <4>3. tmp \in {None, Content}
        BY <1>2, <1>3, <3>2, <3>3 DEF Agrees
      <4>4. /\ \A g \in Handler \ {h} : handler'[g] = handler[g]
            /\ handler'[h].pc = "dup" /\ handler'[h].slot = handler[h].slot
        BY <1>6, <4>1 DEF Goto, Request
      <4> QED
        BY <1>1, <1>4, <4>1, <4>2, <4>3, <4>4, InsideKeeps DEF Inside
    <3>4. CASE Opened(h).hashed # Content
      BY <1>8, <3>1, <3>4 DEF Verify
    <3> QED
      BY <3>3, <3>4
  <2>2. CASE ~(/\ handler[h].offset = Len(Opened(h).hashed)
               /\ Len(Opened(h).hashed) = Size)
    BY <1>7, <1>15, <2>2 DEF Finalize
  <2> QED
    BY <2>1, <2>2
<1>16. ~Overlook(h)
  BY NoUpset DEF Overlook
<1> QED
  BY <1>9, <1>10, <1>11, <1>12, <1>13, <1>14, <1>15, <1>16

\* Writing, in full or not at all, keeps FileInv unless a write may be torn.
LEMMA WriteKeeps ==
    ASSUME TypeInv, FileInv, NEW h \in Handler, Write(h) \/ WriteFails(h), Mild
    PROVE  FileInv'
<1>1. Owns(h) /\ handler[h].pc = "write"
  BY DEF Owns, Write, WriteFails, Inside
<1>2. /\ handler[h].slot = current /\ current \in Slot
      /\ \A g \in Handler \ {h} : handler[g].pc \notin Inside
  BY <1>1, AloneInSlot
<1>3. /\ Opened(h) \in SlotState /\ Opened(h).inited /\ ~Opened(h).done
      /\ Opened(h).hashed = Bytes
  BY <1>1, <1>2, OpenedTyped, OpenedAgrees DEF TypeInv, FileInv, Sound, Inside
<1>4. UNCHANGED store /\ handler \in [Handler -> Request]
  BY DEF Write, WriteFails, TypeInv, TypeOK
<1>5. row' => stored' = Content
  BY <1>4 DEF FileInv, StoredIntact, store
<1>6. CASE Write(h)
  <2> DEFINE file == Bytes \o handler[h].data
  <2>1. file \in Seq(0 .. Size) /\ file # None
    <3>1. handler[h].data \in Seq(0 .. Size)
      BY <1>4 DEF Request
    <3>2. 0 \in 0 .. Len(handler[h].data)
      BY <3>1
    <3>3. file \in Seq(0 .. Size)
      BY <3>2, AppendedTyped
    <3> QED
      BY <3>3, NoneAssumption
  <2>2. IF Len(file) = Size
        THEN Verify(h, file, file, FALSE)
        ELSE /\ SetSlot(h, [Opened(h) EXCEPT !.hashed = file])
             /\ tmp' = file /\ tmpOld' = FALSE
             /\ Answer(h, Reply("received", Len(file)))
    BY <1>3, <1>6 DEF Write
  <2> HIDE DEF file
  <2> DEFINE slot == [Opened(h) EXCEPT !.hashed = file]
  <2>3. slot \in SlotState /\ slot.inited /\ ~slot.done /\ slot.hashed = file
    BY <1>3, <2>1 DEF SlotState
  <2>4. CASE Len(file) = Size /\ file = Content
    <3>1. SetSlot(h, slot) /\ Goto(h, "dup") /\ tmp' = Content
      BY <2>2, <2>4 DEF Verify
    <3> HIDE DEF slot
    <3>2. /\ \A g \in Handler \ {h} : handler'[g] = handler[g]
          /\ handler'[h].pc = "dup" /\ handler'[h].slot = handler[h].slot
      BY <1>4, <3>1 DEF Goto, Request
    <3> QED
      BY <1>1, <1>4, <2>3, <2>4, <3>1, <3>2, InsideKeeps DEF Inside
  <2>5. CASE Len(file) = Size /\ file # Content
    <3>1. Discard(h, file, FALSE) /\ Answer(h, Reply("hash", 0))
      BY <2>2, <2>5 DEF Verify
    <3> QED
      BY <1>1, <1>5, <3>1, DiscardAgrees, EndKeeps
  <2>6. CASE Len(file) # Size
    <3>1. SetSlot(h, slot) /\ tmp' = file /\ Answer(h, Reply("received", Len(file)))
      BY <2>2, <2>6
    <3> HIDE DEF slot
    <3>2. Agrees(slot, tmp')
      BY <2>1, <2>3, <3>1 DEF Agrees
    <3> QED
      BY <1>1, <1>5, <2>3, <3>1, <3>2, EndKeeps
  <2> QED
    BY <2>4, <2>5, <2>6
<1>7. CASE WriteFails(h)
  <2>1. UNCHANGED disk /\ UNCHANGED memory
    BY <1>7, NoUpset DEF WriteFails
  <2>2. SetSlot(h, slots[handler[h].slot]) /\ slots[handler[h].slot] \in SlotState
    BY <1>2, <2>1 DEF SetSlot, memory, TypeInv, TypeOK
  <2>3. slots[handler[h].slot].hashed = Bytes
    BY <1>1 DEF FileInv, Sound, Inside
  <2>4. Agrees(slots[handler[h].slot], tmp')
    BY <2>1, <2>3 DEF Agrees, disk, Bytes
  <2> QED
    BY <1>1, <1>5, <1>7, <2>2, <2>4, EndKeeps DEF WriteFails
<1> QED
  BY <1>6, <1>7

\* finalize_slot keeps FileInv unless a confirmation may be lost.
LEMMA FinalizeKeeps ==
    ASSUME TypeInv, FileInv, NEW h \in Handler, FinalizeSlot(h), Mild
    PROVE  FileInv'
<1>1. Owns(h) /\ handler[h].pc \in {"dup", "move", "save"}
  BY DEF Owns, FinalizeSlot, CheckDuplicate, Move, MoveFails, KeepFails, Save, SaveFails, SaveUnacked, Inside
<1>2. /\ handler[h].slot = current /\ current \in Slot
      /\ \A g \in Handler \ {h} : handler[g].pc \notin Inside
  BY <1>1, AloneInSlot
<1>3. /\ Opened(h) \in SlotState /\ Opened(h).inited /\ ~Opened(h).done
      /\ Opened(h).hashed = Content
      /\ slots[handler[h].slot].hashed = Content
      /\ slots[handler[h].slot].inited /\ ~slots[handler[h].slot].done
      /\ slots[handler[h].slot] \in SlotState
      /\ tmp \in {None, Content}
      /\ handler[h].pc = "save" => handler[h].moved = Content /\ tmp = None
  BY <1>1, <1>2, OpenedTyped, OpenedAgrees DEF TypeInv, FileInv, Sound, Inside
<1>4. handler \in [Handler -> Request] /\ (row => stored = Content)
  BY DEF TypeInv, TypeOK, FileInv, StoredIntact
<1>5. ASSUME Discard(h, tmp, tmpOld), NEW r, Answer(h, r), UNCHANGED store PROVE FileInv'
  BY <1>1, <1>4, <1>5, DiscardAgrees, EndKeeps DEF store
<1>6. ASSUME KeepForRetry(h), NEW r, Answer(h, r), UNCHANGED store PROVE FileInv'
  <2> DEFINE slot == IF tmp = None THEN ResetSlot ELSE Opened(h)
  <2>1. SetSlot(h, slot) /\ tmp' = tmp
    BY <1>6 DEF KeepForRetry, disk
  <2>2. slot \in SlotState /\ Agrees(slot, tmp')
    BY <1>3, <2>1, ResetTyped DEF Agrees
  <2> HIDE DEF slot
  <2> QED
    BY <1>1, <1>4, <1>6, <2>1, <2>2, EndKeeps DEF store
<1>7. UNCHANGED memory => SetSlot(h, slots[handler[h].slot])
  BY <1>2 DEF SetSlot, memory, TypeInv, TypeOK
<1>8. CASE CheckDuplicate(h)
  <2>1. CASE Goto(h, "move") /\ UNCHANGED <<client, disk, memory, faults>>
    <3>1. /\ \A g \in Handler \ {h} : handler'[g] = handler[g]
          /\ handler'[h].pc = "move" /\ handler'[h].slot = handler[h].slot
      BY <1>4, <2>1 DEF Goto, Request
    <3>2. tmp' = tmp /\ UNCHANGED store
      BY <1>8, <2>1 DEF CheckDuplicate, disk
    <3> QED
      BY <1>1, <1>3, <1>7, <2>1, <3>1, <3>2, InsideKeeps DEF Inside
  <2> QED
    BY <1>5, <1>6, <1>8, <2>1 DEF CheckDuplicate
<1>9. CASE Move(h)
  <2>1. handler' = [handler EXCEPT ![h] = [handler[h] EXCEPT !.pc = "save", !.moved = tmp]]
    BY <1>9 DEF Move
  <2>2. /\ \A g \in Handler \ {h} : handler'[g] = handler[g]
        /\ handler'[h].pc = "save" /\ handler'[h].slot = handler[h].slot
        /\ handler'[h].moved = tmp
    BY <1>4, <2>1 DEF Request
  <2>3. tmp' = None /\ tmp = Content /\ UNCHANGED store /\ UNCHANGED memory
    BY <1>3, <1>9 DEF Move
  <2> QED
    BY <1>1, <1>3, <1>7, <2>2, <2>3, InsideKeeps DEF Inside
<1>10. CASE MoveFails(h)
  BY <1>5, <1>6, <1>10 DEF MoveFails
<1>11. CASE Save(h)
  <2> DEFINE slot == [Opened(h) EXCEPT !.done = TRUE]
  <2>1. SetSlot(h, slot) /\ Answer(h, Reply("created", Size)) /\ stored' = handler[h].moved
    BY <1>11 DEF Save, Insert
  <2>2. slot \in SlotState /\ slot.done
    BY <1>3 DEF SlotState
  <2> HIDE DEF slot
  <2>3. Agrees(slot, tmp')
    BY <2>2 DEF Agrees
  <2>4. stored' = Content
    BY <1>3, <1>11, <2>1 DEF Save
  <2> QED
    BY <1>1, <2>1, <2>2, <2>3, <2>4, EndKeeps
<1>12. CASE SaveFails(h)
  BY <1>5, <1>6, <1>12 DEF SaveFails
<1>13. CASE SaveUnacked(h)
  BY <1>13, NoUpset DEF SaveUnacked
<1>14. ~KeepFails(h)
  BY NoUpset DEF KeepFails
<1> QED
  BY <1>8, <1>9, <1>10, <1>11, <1>12, <1>13, <1>14 DEF FinalizeSlot

\* A request that is dropped leaves its slot in agreement with the file.
LEMMA DropKeeps ==
    ASSUME TypeInv, FileInv, NEW h \in Handler, Drop(h), Mild
    PROVE  FileInv'
<1>1. UNCHANGED memory /\ Abandoned(h) /\ Answer(h, Reply("failed", 0))
  BY DEF Drop
<1>2. /\ handler \in [Handler -> Request]
      /\ \A g \in Handler \ {h} : handler'[g] = handler[g]
      /\ handler'[h].pc \notin Inside /\ handler'[h].slot = None
  BY <1>1 DEF Answer, TypeInv, TypeOK, NoRequest, Inside
<1>3. CASE handler[h].pc \notin Inside
  <2>1. UNCHANGED <<store, disk>>
    BY <1>1, <1>3 DEF Abandoned, Inside
  <2> QED
    BY <1>1, <1>2, <1>3, <2>1, OutsideKeeps
<1>4. CASE handler[h].pc \in Inside
  <2> DEFINE slot == slots[handler[h].slot]
  <2>1. Owns(h)
    BY <1>4 DEF Owns, Inside
  <2>2. SetSlot(h, slot) /\ slot \in SlotState
    BY <1>1, <2>1, AloneInSlot DEF SetSlot, memory, TypeInv, TypeOK
  <2>3. /\ handler[h].pc = "write" => slot.hashed = Bytes
        /\ handler[h].pc # "write" => slot.hashed = Content
        /\ handler[h].pc \in {"dup", "move"} => tmp \in {None, Content}
        /\ handler[h].pc = "save" => handler[h].moved = Content /\ tmp = None
    BY <1>4 DEF FileInv, Sound
  <2> HIDE DEF slot
  <2>4. row => stored = Content
    BY DEF FileInv, StoredIntact
  <2>5. Agrees(slot, tmp') /\ (row' => stored' = Content)
    <3>1. CASE handler[h].pc = "write"
      <4>1. tmp' = tmp
        BY <3>1, NoUpset DEF Drop
      <4>2. UNCHANGED store
        BY <1>1, <3>1 DEF Abandoned
      <4> QED
        BY <2>3, <2>4, <3>1, <4>1, <4>2 DEF Agrees, Bytes, store
    <3>2. CASE handler[h].pc = "dup"
      <4>1. UNCHANGED <<store, disk>>
        BY <1>1, <3>2 DEF Abandoned
      <4> QED
        BY <2>3, <2>4, <3>2, <4>1, ContentLength DEF Agrees, store, disk
    <3>3. CASE handler[h].pc = "move"
      <4>1. UNCHANGED store /\ (tmp' = tmp \/ tmp' = None)
        BY <1>1, <3>3 DEF Abandoned, disk
      <4> QED
        BY <2>3, <2>4, <3>3, <4>1, ContentLength DEF Agrees, store
    <3>4. CASE handler[h].pc = "save"
      <4>1. tmp' = tmp /\ (UNCHANGED store \/ stored' = handler[h].moved)
        BY <1>1, <3>4 DEF Abandoned, disk, Insert
      <4> QED
        BY <2>3, <2>4, <3>4, <4>1, ContentLength DEF Agrees, store
    <3> QED
      BY <1>4, <3>1, <3>2, <3>3, <3>4 DEF Inside
  <2> QED
    BY <1>1, <2>1, <2>2, <2>5, EndKeeps
<1> QED
  BY <1>3, <1>4

\* After a crash every hash is rebuilt from the file, torn or not.
LEMMA CrashKeeps ==
    ASSUME TypeInv, FileInv, Crash
    PROVE  FileInv'
<1>1. current' = None /\ \A g \in Handler : handler'[g].pc \notin Inside /\ handler'[g].slot = None
  BY DEF Crash, NoRequest, Inside
<1>2. row => stored = Content
  BY DEF FileInv, StoredIntact
<1>3. ASSUME NEW h \in Handler, handler[h].pc \in Inside, Abandoned(h)
      PROVE  row' => stored' = Content
  <2>1. CASE handler[h].pc = "save"
    <3>1. UNCHANGED store \/ stored' = handler[h].moved
      BY <1>3, <2>1 DEF Abandoned, Insert
    <3>2. handler[h].moved = Content
      BY <1>3, <2>1 DEF FileInv, Sound
    <3> QED
      BY <1>2, <3>1, <3>2 DEF store
  <2>2. CASE handler[h].pc # "save"
    <3>1. UNCHANGED store
      BY <1>3, <2>2 DEF Abandoned, Inside
    <3> QED
      BY <1>2, <3>1 DEF store
  <2> QED
    BY <2>1, <2>2
<1>4. UNCHANGED <<store, disk>> => (row' => stored' = Content)
  BY <1>2 DEF store
<1>5. StoredIntact'
  BY <1>3, <1>4 DEF Crash, StoredIntact
<1> QED
  BY <1>1, <1>5 DEF FileInv, Attached, Sound

\* Time and the sweeps keep FileInv, and so does a deletion.
LEMMA AroundKeeps ==
    ASSUME TypeInv, FileInv, MinutesPass \/ DayPasses \/ SweepSlot \/ SweepFile \/ Delete, Mild
    PROVE  FileInv'
<1>1. CASE MinutesPass \/ DayPasses
  <2>1. /\ current' = current /\ handler' = handler /\ tmp' = tmp
        /\ row' = row /\ stored' = stored
    BY <1>1 DEF MinutesPass, DayPasses, store, disk
  <2>2. \A g \in Handler : handler[g].pc \notin Inside
    BY <1>1 DEF MinutesPass, DayPasses, TimePasses, Inside
  <2>3. current # None =>
           /\ slots'[current].inited = slots[current].inited
           /\ slots'[current].done = slots[current].done
           /\ slots'[current].hashed = slots[current].hashed
    BY <1>1 DEF MinutesPass, DayPasses, TypeInv, TypeOK, SlotState
  <2>4. current # None => Agrees(slots[current], tmp)
    BY <2>2 DEF FileInv, Locked
  <2>5. current' # None => Agrees(slots[current], tmp)'
    BY <2>1, <2>3, <2>4, Zenon DEF Agrees
  <2>6. Attached' /\ StoredIntact'
    BY <2>1 DEF FileInv, Attached, StoredIntact
  <2> QED
    BY <2>1, <2>2, <2>5, <2>6 DEF FileInv, Sound
<1>2. CASE SweepSlot
  <2>1. /\ current' = None /\ handler' = handler
        /\ row' = row /\ stored' = stored
    BY <1>2 DEF SweepSlot, store
  <2>2. \A g \in Handler : handler[g].slot # current
    BY <1>2, NoUpset DEF SweepSlot
  <2>3. \A g \in Handler : handler[g].slot = None
    BY <2>2 DEF FileInv, Attached
  <2>4. \A g \in Handler : handler[g].pc \notin Inside
    BY <2>3, NoneAssumption DEF TypeInv, Serving
  <2> QED
    BY <2>1, <2>3, <2>4 DEF FileInv, Attached, StoredIntact, Sound
<1>3. CASE SweepFile
  <2>1. /\ current' = current /\ slots' = slots /\ handler' = handler /\ tmp' = None
        /\ row' = row /\ stored' = stored
    BY <1>3 DEF SweepFile, store, memory
  <2>2. Counting = {}
    BY <1>3, NoUpset DEF SweepFile
  <2>3. current # None =>
           /\ ~Locked(current)
           /\ slots[current].hashed = << >> \/ slots[current].done
    BY <2>2 DEF Counting, TypeInv, TypeOK
  <2>4. ASSUME NEW g \in Handler, handler[g].pc \in Inside PROVE FALSE
    <3>1. handler[g].slot = current /\ current # None
      BY <2>4, NoneAssumption DEF TypeInv, Serving, FileInv, Attached
    <3>2. Locked(current)
      BY <2>4, <3>1 DEF Locked
    <3> QED
      BY <2>3, <3>1, <3>2
  <2>5. current' # None => Agrees(slots[current], tmp)'
    BY <2>1, <2>3 DEF Agrees
  <2>6. Attached' /\ StoredIntact'
    BY <2>1 DEF FileInv, Attached, StoredIntact
  <2> QED
    BY <2>1, <2>4, <2>5, <2>6 DEF FileInv, Sound
<1>4. CASE Delete
  <2>1. /\ current' = current /\ slots' = slots /\ handler' = handler /\ tmp' = tmp
        /\ ~row'
    BY <1>4 DEF Delete, disk, memory
  <2>2. Attached' /\ StoredIntact'
    BY <2>1 DEF FileInv, Attached, StoredIntact
  <2>3. \A g \in Handler : Sound(g)'
    BY <2>1 DEF FileInv, Sound, Bytes
  <2>4. current' # None /\ ~Locked(current)' => Agrees(slots[current], tmp)'
    BY <2>1 DEF FileInv, Locked, Agrees
  <2> QED
    BY <2>2, <2>3, <2>4 DEF FileInv
<1> QED
  BY <1>1, <1>2, <1>3, <1>4

LEMMA FileStep ==
    ASSUME TypeInv, FileInv, [Next]_vars, Mild
    PROVE  FileInv'
<1>1. CASE UNCHANGED vars
  <2>1. UNCHANGED <<store, disk, memory>> /\ handler' = handler
    BY <1>1 DEF vars
  <2> QED
    BY <2>1, OutsideKeeps
<1>2. ASSUME NEW c \in Client, Start(c) \/ Loop(c) \/ Leave(c) PROVE FileInv'
  BY <1>2, TabKeeps
<1>3. ASSUME NEW h \in Handler, Serve(h) PROVE FileInv'
  BY <1>3, WaitKeeps, EnterKeeps, WriteKeeps, FinalizeKeeps DEF Serve, AppendChunk
<1>4. ASSUME NEW h \in Handler, Drop(h) PROVE FileInv'
  BY <1>4, DropKeeps
<1>5. CASE Crash
  BY <1>5, CrashKeeps
<1>6. CASE MinutesPass \/ DayPasses \/ SweepSlot \/ SweepFile \/ Delete
  BY <1>6, AroundKeeps
<1> QED
  BY <1>1, <1>2, <1>3, <1>4, <1>5, <1>6 DEF Next

LEMMA FileInit == Init => FileInv
BY DEF Init, FileInv, Attached, Sound, StoredIntact, NoRequest, Inside

\* FileInv holds throughout, by the lemmas above and the typing.
LEMMA FileInvariant ==
    ASSUME Upsets \subseteq {"deleted"}
    PROVE  Spec => []FileInv
<1>1. TypeInv /\ FileInv /\ [Next]_vars => FileInv'
  BY FileStep DEF Mild
<1> QED
  BY <1>1, FileInit, TypeInvariant, PTL DEF Spec

\* However many tabs send the content, and whatever fails, is dropped or crashes in between,
\* the file behind the row is the content, as long as no write is torn, no removal of the
\* temporary file fails, it is never taken for absent, no file in use is swept, no slot in use
\* is dropped and no commit loses its confirmation.
THEOREM StoredIsIntact ==
    ASSUME Upsets \subseteq {"deleted"}
    PROVE  Spec => []StoredIntact
<1>1. FileInv => StoredIntact
  BY DEF FileInv
<1> QED
  BY <1>1, FileInvariant, PTL

\* Under the same conditions an idle slot has hashed the bytes of the temporary file.
THEOREM HashIsOfFile ==
    ASSUME Upsets \subseteq {"deleted"}
    PROVE  Spec => []HashMatchesFile
<1>1. FileInv => HashMatchesFile
  BY DEF FileInv, HashMatchesFile, Agrees, Bytes
<1> QED
  BY <1>1, FileInvariant, PTL
-----------------------------------------------------------------------------
(* Success is never reported early.                                        *)

\* What has been stored has been stored ever since, and a slot that is done, like a tab,
\* knows of it.
Remembered ==
    /\ row => ever
    /\ \A s \in Slot : slots[s].done => ever
    /\ DoneWasStored

Success == {"exists", "created", "duplicate"}

\* Only a reply of success makes a tab done.
LEMMA DoneBySuccess ==
    ASSUME NEW t \in Tab, t.at \in Waiting, NEW is, NEW n \in Nat,
           React(t, Reply(is, n)).at = "done"
    PROVE  is \in Success
<1>1. Reply(is, n).is = is
  BY DEF Reply
<1>2. ASSUME NEW state \in ClientAt PROVE At(t, state).at = state
  BY DEF At, NewTab
<1>3. ASSUME NEW m PROVE Resume(t, m).at = "ready"
  BY DEF Resume, At, NewTab
<1>4. ASSUME NEW m PROVE Correct(t, m).at # "done"
  BY <1>2, <1>3 DEF Correct, Resume, At, NewTab, ClientAt
<1>5. Retry(t).at # "done"
  BY <1>2 DEF Retry, Tab, ClientAt
<1>6. CASE t.at = "status"
  BY <1>1, <1>2, <1>3, <1>6 DEF React, AfterStatus, Success, ClientAt
<1>7. CASE t.at = "chunk"
  <2>1. React(t, Reply(is, n)) = AfterChunk(t, Reply(is, n))
    BY <1>7 DEF React
  <2> QED
    BY <2>1, <1>1, <1>2, <1>3, <1>4, <1>5 DEF AfterChunk, Success, ClientAt
<1>8. CASE t.at = "final"
  BY <1>1, <1>2, <1>8 DEF React, AfterFinal, Success, ClientAt
<1> QED
  BY <1>6, <1>7, <1>8 DEF Waiting

\* A request may be answered with success when the content has been stored.
LEMMA AnswerRemembers ==
    ASSUME TypeInv, Remembered, NEW h \in Handler, NEW is, NEW n \in Nat,
           Answer(h, Reply(is, n)), ever => ever', is \in Success => ever'
    PROVE  DoneWasStored'
<1> SUFFICES ASSUME NEW c \in Client, client'[c].at = "done" PROVE ever'
  BY DEF DoneWasStored
<1>1. CASE c = handler[h].owner
  <2>1. client[c] \in Tab /\ client[c].at \in Waiting
    BY <1>1 DEF TypeInv, TypeOK, Listening
  <2>2. client'[c] = React(client[c], Reply(is, n))
    BY <1>1 DEF Answer
  <2> QED
    BY <2>1, <2>2, DoneBySuccess
<1>2. CASE c # handler[h].owner
  BY <1>2 DEF Answer, Remembered, DoneWasStored
<1> QED
  BY <1>1, <1>2

\* A slot is opened as it was, and reset to one that is not done.
LEMMA SlotRemembers ==
    ASSUME TypeInv, Remembered, NEW h \in Handler, handler[h].slot \in Slot,
           NEW slot \in SlotState, SetSlot(h, slot), slot.done => ever', ever => ever'
    PROVE  \A s \in Slot : slots'[s].done => ever'
BY DEF SetSlot, TypeInv, TypeOK, Remembered

LEMMA OpenedRemembers ==
    ASSUME TypeInv, Remembered, NEW h \in Handler, handler[h].slot \in Slot,
           Opened(h).done
    PROVE  ever
BY DEF Opened, NewSlot, TypeInv, TypeOK, SlotState, Remembered

\* The slot of h is left alone, or done only when it was or when the content is stored.
Marks(h) ==
    \/ UNCHANGED memory
    \/ /\ handler[h].slot \in Slot
       /\ \E slot \in SlotState : SetSlot(h, slot) /\ (slot.done => Opened(h).done \/ ever')

\* The tab of h hears nothing, or of success only when the content is stored.
Tells(h) ==
    \/ UNCHANGED client
    \/ \E is : \E n \in Nat :
          Answer(h, Reply(is, n)) /\ (is \in Success => ever \/ ever')

LEMMA TellsReply ==
    ASSUME NEW h \in Handler, NEW is, NEW n \in Nat, Answer(h, Reply(is, n)),
           is \in Success => ever \/ ever'
    PROVE  Tells(h)
BY DEF Tells

LEMMA TellsNoSuccess ==
    ASSUME NEW h \in Handler,
           NEW is \in {"received", "mismatch", "quota", "hash", "refused", "failed"},
           NEW n \in Nat, Answer(h, Reply(is, n))
    PROVE  Tells(h)
<1>1. is \notin Success
  BY DEF Success
<1> QED
  BY <1>1, TellsReply

\* What h does with its slot, its tab and the row keeps them in step.
LEMMA ServedRemembers ==
    ASSUME TypeInv, Remembered, NEW h \in Handler,
           UNCHANGED <<row, ever>> \/ (row' /\ ever'), Marks(h), Tells(h)
    PROVE  Remembered'
<1>1. (ever => ever') /\ (row' => ever')
  BY DEF Remembered
<1>2. \A s \in Slot : slots'[s].done => ever'
  <2>1. CASE UNCHANGED memory
    BY <1>1, <2>1 DEF memory, Remembered
  <2>2. ASSUME handler[h].slot \in Slot, NEW slot \in SlotState,
               SetSlot(h, slot), slot.done => Opened(h).done \/ ever'
        PROVE  \A s \in Slot : slots'[s].done => ever'
    BY <1>1, <2>2, OpenedRemembers, SlotRemembers
  <2> QED
    BY <2>1, <2>2 DEF Marks
<1>3. DoneWasStored'
  <2>1. CASE UNCHANGED client
    BY <1>1, <2>1 DEF Remembered, DoneWasStored
  <2>2. ASSUME NEW is, NEW n \in Nat,
               Answer(h, Reply(is, n)), is \in Success => ever \/ ever'
        PROVE  DoneWasStored'
    BY <1>1, <2>2, AnswerRemembers
  <2> QED
    BY <2>1, <2>2 DEF Tells
<1> QED
  BY <1>1, <1>2, <1>3 DEF Remembered

LEMMA ServeRemembers ==
    ASSUME TypeInv, Remembered, NEW h \in Handler, Serve(h)
    PROVE  Remembered'
<1>1. CASE GetHandle(h)
  <2>1. UNCHANGED <<row, ever>> /\ UNCHANGED client
    BY <1>1 DEF GetHandle, store
  <2>2. \A s \in Slot : slots'[s].done => slots[s].done
    <3>1. slots' = slots \/ \E s \in Slot : slots' = [slots EXCEPT ![s] = NewSlot]
      BY <1>1 DEF GetHandle, memory
    <3>2. ~NewSlot.done
      BY DEF NewSlot
    <3> QED
      BY <3>1, <3>2 DEF TypeInv, TypeOK
  <2> QED
    BY <2>1, <2>2 DEF Remembered, DoneWasStored
<1>2. CASE Lookup(h)
  <2>1. UNCHANGED memory /\ UNCHANGED <<row, ever>>
    BY <1>2 DEF Lookup, store
  <2>2. \/ UNCHANGED client
        \/ Answer(h, Reply("quota", 0))
        \/ Answer(h, Reply("exists", 0)) /\ ever
    BY <1>2 DEF Lookup, Remembered
  <2>3. Tells(h)
    BY <2>2 DEF Tells, Success
  <2> QED
    BY <2>1, <2>3, ServedRemembers DEF Marks
<1>3. CASE Permit(h)
  BY <1>3, ServedRemembers DEF Permit, store, Marks, Tells
<1>4. CASE ReadFails(h)
  <2>1. UNCHANGED memory /\ UNCHANGED <<row, ever>> /\ Answer(h, Reply("failed", 0))
    BY <1>4 DEF ReadFails, store
  <2> QED
    BY <2>1, TellsNoSuccess, ServedRemembers DEF Marks
<1>5. CASE WriteFails(h)
  <2>1. UNCHANGED memory /\ UNCHANGED <<row, ever>> /\ Answer(h, Reply("failed", 0))
    BY <1>5 DEF WriteFails, store
  <2> QED
    BY <2>1, TellsNoSuccess, ServedRemembers DEF Marks
<1>6. CASE Move(h)
  BY <1>6, ServedRemembers DEF Move, store, Marks, Tells
<1>7. ASSUME Owns(h)
      PROVE  /\ handler[h].slot \in Slot
             /\ Opened(h) \in SlotState
             /\ ResetSlot \in SlotState /\ ~ResetSlot.done
             /\ Len(Opened(h).hashed) \in Nat
  BY <1>7, OpenedTyped, ResetTyped DEF Owns, TypeInv, Serving
<1>8. CASE Report(h) \/ Overfull(h) \/ Replay(h) \/ Reupload(h) \/ Accept(h)
  <2>1. Owns(h)
    BY <1>8 DEF Owns, Enters, Report, Overfull, Replay, Reupload, Accept
  <2>2. UNCHANGED <<row, ever>>
    BY <1>8 DEF Report, Overfull, Replay, Reupload, Accept, store
  <2>3. SetSlot(h, Opened(h)) \/ SetSlot(h, ResetSlot)
    BY <1>8 DEF Report, Overfull, Replay, Reupload, Accept, Discard
  <2>4. \/ UNCHANGED client
        \/ \E n \in Nat : Answer(h, Reply("received", n)) \/ Answer(h, Reply("mismatch", n))
        \/ \E n \in Nat : Answer(h, Reply("created", n)) /\ ever
    <3>1. CASE Report(h)
      BY <1>7, <2>1, <3>1 DEF Report
    <3>2. CASE Overfull(h)
      BY <3>2 DEF Overfull
    <3>3. CASE Replay(h)
      BY <1>7, <2>1, <3>3, OpenedRemembers DEF Replay, IsReplay
    <3>4. CASE Reupload(h)
      BY <3>4 DEF Reupload
    <3>5. CASE Accept(h)
      BY <1>7, <2>1, <3>5 DEF Accept
    <3> QED
      BY <1>8, <3>1, <3>2, <3>3, <3>4, <3>5
  <2>5. Marks(h)
    BY <1>7, <2>1, <2>3 DEF Marks
  <2>6. Tells(h)
    BY <2>4 DEF Tells, Success
  <2> QED
    BY <1>7, <2>1, <2>2, <2>5, <2>6, ServedRemembers
<1>9. CASE Finalize(h) \/ Write(h)
  <2>1. Owns(h)
    BY <1>9 DEF Owns, Enters, Finalize, Write, Inside
  <2>2. UNCHANGED <<row, ever>>
    BY <1>9 DEF Finalize, Write, store
  <2>3. handler[h].data \in Seq(0 .. Size) /\ Opened(h).hashed \in Seq(0 .. Size)
    BY <1>7, <2>1 DEF TypeInv, TypeOK, Request, SlotState
  <2> DEFINE hashed == Opened(h).hashed \o handler[h].data
  <2>4. hashed \in Seq(0 .. Size)
    BY <2>3, ConcatProperties
  <2> HIDE DEF hashed
  <2>5. \E seen \in Seq(0 .. Size) :
           \/ \E file, old : Verify(h, seen, file, old)
           \/ SetSlot(h, [Opened(h) EXCEPT !.hashed = seen]) /\ Answer(h, Reply("received", Len(seen)))
           \/ SetSlot(h, Opened(h)) /\ Answer(h, Reply("received", Len(seen)))
    <3>1. CASE Finalize(h)
      BY <2>3, <3>1 DEF Finalize
    <3>2. CASE Write(h)
      BY <2>4, <3>2 DEF Write, hashed
    <3> QED
      BY <1>9, <3>1, <3>2
  <2>6. PICK seen \in Seq(0 .. Size) :
           \/ \E file, old : Verify(h, seen, file, old)
           \/ SetSlot(h, [Opened(h) EXCEPT !.hashed = seen]) /\ Answer(h, Reply("received", Len(seen)))
           \/ SetSlot(h, Opened(h)) /\ Answer(h, Reply("received", Len(seen)))
    BY <2>5
  <2>7. /\ [Opened(h) EXCEPT !.hashed = seen] \in SlotState
        /\ [Opened(h) EXCEPT !.hashed = seen].done = Opened(h).done
    BY <1>7, <2>1 DEF SlotState
  <2>8. Len(seen) \in Nat
    OBVIOUS
  <2>9. Marks(h)
    BY <1>7, <2>1, <2>6, <2>7 DEF Verify, Discard, Marks
  <2>10. Tells(h)
    BY <2>6, <2>8 DEF Verify, Tells, Success
  <2> QED
    BY <1>7, <2>1, <2>2, <2>9, <2>10, ServedRemembers
<1>10. CASE CheckDuplicate(h) \/ MoveFails(h) \/ KeepFails(h) \/ SaveFails(h) \/ SaveUnacked(h)
  <2>1. Owns(h)
    BY <1>10 DEF Owns, CheckDuplicate, MoveFails, KeepFails, SaveFails, SaveUnacked, Inside
  <2>2. UNCHANGED <<row, ever>> \/ (row' /\ ever')
    BY <1>10 DEF CheckDuplicate, MoveFails, KeepFails, SaveFails, SaveUnacked, Insert, store
  <2>3. UNCHANGED memory \/ SetSlot(h, Opened(h)) \/ SetSlot(h, ResetSlot)
    BY <1>10 DEF CheckDuplicate, MoveFails, KeepFails, SaveFails, SaveUnacked, KeepForRetry, Discard
  <2>4. \/ UNCHANGED client
        \/ \E is \in {"refused", "failed", "quota"} : Answer(h, Reply(is, 0))
        \/ Answer(h, Reply("duplicate", 0)) /\ ever
    BY <1>10 DEF CheckDuplicate, MoveFails, KeepFails, SaveFails, SaveUnacked, Remembered
  <2>5. Marks(h)
    BY <1>7, <2>1, <2>3 DEF Marks
  <2>6. Tells(h)
    BY <2>4 DEF Tells, Success
  <2> QED
    BY <1>7, <2>1, <2>2, <2>5, <2>6, ServedRemembers
<1>11. CASE Save(h)
  <2>1. Owns(h)
    BY <1>11 DEF Owns, Save, Inside
  <2>2. row' /\ ever'
    BY <1>11 DEF Save, Insert
  <2>3. [Opened(h) EXCEPT !.done = TRUE] \in SlotState
    BY <1>7, <2>1 DEF SlotState
  <2>4. SetSlot(h, [Opened(h) EXCEPT !.done = TRUE]) /\ Answer(h, Reply("created", Size))
    BY <1>11 DEF Save
  <2>5. Tells(h)
    BY <2>2, <2>4, SizeAssumption, TellsReply
  <2>6. Marks(h)
    BY <1>7, <2>1, <2>2, <2>3, <2>4 DEF Marks
  <2> QED
    BY <2>2, <2>5, <2>6, ServedRemembers
<1>12. CASE Overlook(h)
  <2>1. Owns(h)
    BY <1>12 DEF Owns, Overlook
  <2>2. SetSlot(h, ResetSlot) /\ UNCHANGED <<row, ever, client>>
    BY <1>12 DEF Overlook, store
  <2> QED
    BY <1>7, <2>1, <2>2, ServedRemembers DEF Marks, Tells
<1> QED
  BY <1>1, <1>2, <1>3, <1>4, <1>5, <1>6, <1>8, <1>9, <1>10, <1>11, <1>12
     DEF Serve, AppendChunk, FinalizeSlot

\* A dropped request is answered with nothing; what it left behind may include its row.
LEMMA DropRemembers ==
    ASSUME TypeInv, Remembered, NEW h \in Handler, Drop(h)
    PROVE  Remembered'
<1>1. UNCHANGED <<row, ever>> \/ (row' /\ ever')
  BY DEF Drop, Abandoned, Insert, store
<1>2. UNCHANGED memory /\ Answer(h, Reply("failed", 0))
  BY DEF Drop
<1> QED
  BY <1>1, <1>2, TellsNoSuccess, ServedRemembers DEF Marks

LEMMA CrashRemembers ==
    ASSUME TypeInv, Remembered, Crash
    PROVE  Remembered'
<1>1. UNCHANGED <<row, ever>> \/ (row' /\ ever')
  BY DEF Crash, Abandoned, Insert, store
<1>2. \A s \in Slot : ~slots'[s].done
  BY DEF Crash, NewSlot
<1>3. ASSUME NEW c \in Client, client'[c].at = "done" PROVE client[c].at = "done"
  <2>1. client[c] \in Tab /\ 0 \in Nat
    BY DEF TypeInv, TypeOK
  <2>2. client'[c] = IF client[c].at \in Waiting
                     THEN React(client[c], Reply("failed", 0)) ELSE client[c]
    BY DEF Crash, Waiting
  <2> QED
    BY <1>3, <2>1, <2>2, DoneBySuccess DEF Success
<1> QED
  BY <1>1, <1>2, <1>3 DEF Remembered, DoneWasStored

LEMMA TabRemembers ==
    ASSUME TypeInv, Remembered, NEW c \in Client, Start(c) \/ Loop(c) \/ Leave(c)
    PROVE  Remembered'
<1>1. UNCHANGED <<row, ever, slots>>
  BY DEF Start, Loop, SendChunk, SendFinal, Leave, store, memory
<1>2. ASSUME NEW d \in Client, client'[d].at = "done" PROVE client[d].at = "done"
  <2>1. CASE Start(c)
    BY <1>2, <2>1 DEF Start, NewTab, TypeInv, TypeOK
  <2>2. CASE Loop(c)
    BY <1>2, <2>2 DEF Loop, SendChunk, SendFinal, TypeInv, TypeOK, Tab
  <2>3. CASE Leave(c)
    <3>1. client[c] \in Tab /\ client[c].at \in Waiting /\ 0 \in Nat
      BY <2>3 DEF Leave, Waiting, TypeInv, TypeOK
    <3>2. React(client[c], Reply("failed", 0)).at # "done"
      BY <3>1, DoneBySuccess DEF Success
    <3>3. At(client[c], "error").at = "error"
      BY DEF At, NewTab
    <3> QED
      BY <1>2, <2>3, <3>2, <3>3 DEF Leave, TypeInv, TypeOK
  <2> QED
    BY <2>1, <2>2, <2>3
<1> QED
  BY <1>1, <1>2 DEF Remembered, DoneWasStored

LEMMA AroundRemembers ==
    ASSUME TypeInv, Remembered, MinutesPass \/ DayPasses \/ SweepSlot \/ SweepFile \/ Delete
    PROVE  Remembered'
<1>1. UNCHANGED client /\ UNCHANGED ever /\ (row' => row)
  BY DEF MinutesPass, DayPasses, SweepSlot, SweepFile, Delete, store
<1>2. \A s \in Slot : slots'[s].done => slots[s].done
  <2>1. CASE MinutesPass \/ DayPasses
    BY <2>1 DEF MinutesPass, DayPasses, TypeInv, TypeOK, SlotState
  <2>2. CASE SweepSlot
    BY <2>2 DEF SweepSlot, NewSlot, TypeInv, TypeOK
  <2>3. CASE SweepFile \/ Delete
    BY <2>3 DEF SweepFile, Delete, memory
  <2> QED
    BY <2>1, <2>2, <2>3
<1> QED
  BY <1>1, <1>2 DEF Remembered, DoneWasStored

LEMMA RememberedStep == TypeInv /\ Remembered /\ [Next]_vars => Remembered'
<1> SUFFICES ASSUME TypeInv, Remembered, [Next]_vars PROVE Remembered'
  OBVIOUS
<1>1. CASE UNCHANGED vars
  BY <1>1 DEF vars, store, memory, Remembered, DoneWasStored
<1>2. ASSUME NEW c \in Client, Start(c) \/ Loop(c) \/ Leave(c) PROVE Remembered'
  BY <1>2, TabRemembers
<1>3. ASSUME NEW h \in Handler, Serve(h) PROVE Remembered'
  BY <1>3, ServeRemembers
<1>4. ASSUME NEW h \in Handler, Drop(h) PROVE Remembered'
  BY <1>4, DropRemembers
<1>5. CASE Crash
  BY <1>5, CrashRemembers
<1>6. CASE MinutesPass \/ DayPasses \/ SweepSlot \/ SweepFile \/ Delete
  BY <1>6, AroundRemembers
<1> QED
  BY <1>1, <1>2, <1>3, <1>4, <1>5, <1>6 DEF Next

LEMMA RememberedInvariant == Spec => []Remembered
<1>1. Init => Remembered
  BY DEF Init, Remembered, DoneWasStored, NewSlot, NewTab
<1> QED
  BY <1>1, RememberedStep, TypeInvariant, PTL DEF Spec

\* Whatever is torn, swept, dropped, deleted or lost in a crash, a tab reports success only
\* for a content that was stored.
THEOREM SuccessWasStored == Spec => []DoneWasStored
<1>1. Remembered => DoneWasStored
  BY DEF Remembered
<1> QED
  BY <1>1, RememberedInvariant, PTL

\* As long as nobody deletes the stored video, it is still there in the step in which a tab
\* reports success.
THEOREM SuccessIsStored ==
    ASSUME "deleted" \notin Upsets
    PROVE  Spec => DoneMeansStored
<1> DEFINE Stays == ever => row
<1>1. Init => Stays
  BY DEF Init
<1>2. Stays /\ [Next]_vars => Stays'
  <2> SUFFICES ASSUME Stays, [Next]_vars PROVE Stays'
    OBVIOUS
  <2>1. ~Delete
    BY DEF Delete, Upset
  <2>2. \A h \in Handler : Abandoned(h) => UNCHANGED <<row, ever>> \/ (row' /\ ever')
    BY DEF Abandoned, Insert, store
  <2>3. UNCHANGED <<row, ever>> \/ (row' /\ ever')
    <3>1. CASE UNCHANGED vars
      BY <3>1 DEF vars, store
    <3>2. ASSUME NEW c \in Client, Start(c) \/ Loop(c) \/ Leave(c)
          PROVE  UNCHANGED <<row, ever>>
      BY <3>2 DEF Start, Loop, SendChunk, SendFinal, Leave, store
    <3>3. ASSUME NEW h \in Handler, Serve(h)
          PROVE  UNCHANGED <<row, ever>> \/ (row' /\ ever')
      BY <3>3 DEF Serve, Lookup, GetHandle, Permit, Report, ReadFails, Overlook, AppendChunk,
                  FinalizeSlot, Overfull, Replay, Reupload, Accept, Finalize, Write, WriteFails,
                  CheckDuplicate, Move, MoveFails, KeepFails, Save, SaveFails, SaveUnacked, Insert, store
    <3>4. ASSUME NEW h \in Handler, Drop(h)
          PROVE  UNCHANGED <<row, ever>> \/ (row' /\ ever')
      BY <3>4, <2>2 DEF Drop
    <3>5. CASE Crash
      BY <3>5, <2>2 DEF Crash, store
    <3>6. CASE MinutesPass \/ DayPasses \/ SweepSlot \/ SweepFile
      BY <3>6 DEF MinutesPass, DayPasses, SweepSlot, SweepFile, store
    <3> QED
      BY <2>1, <3>1, <3>2, <3>3, <3>4, <3>5, <3>6 DEF Next
  <2> QED
    BY <2>3
<1>3. Spec => []Stays
  BY <1>1, <1>2, PTL DEF Spec
<1>4. /\ DoneWasStored' /\ Stays'
      => [\A c \in Client : client[c].at # "done" /\ client'[c].at = "done" => row']_vars
  BY DEF DoneWasStored
<1> QED
  BY <1>3, <1>4, SuccessWasStored, PTL DEF DoneMeansStored
-----------------------------------------------------------------------------
(* Two tabs that nothing disturbs both succeed. While the content is not   *)
(* stored, nothing received is ever thrown away, so every correction takes *)
(* a tab further on and few are needed. Once it is stored, one tab at most *)
(* goes on: it is told so, or starts the content over alone and is told so *)
(* at its end.                                                             *)

\* Two tabs at most, and nothing that fails.
Few == Cardinality(Client) <= 2 /\ Size <= MaxRetries + 3
Calm == faults = 0 /\ upsets = 0

\* What is received is a beginning of the content.
Begins(s) == Len(s) <= Size /\ \A k \in 1 .. Len(s) : s[k] = k
Got == IF current # None /\ slots[current].inited THEN Len(slots[current].hashed) ELSE Len(Bytes)
Whole == (current # None => Begins(slots[current].hashed)) /\ (tmp # None => Begins(tmp))

\* Every request has its tab, and carries what the tab is at.
Owned == \A h \in Handler :
    /\ handler[h].owner \in Client <=> handler[h].pc # "idle"
    /\ handler[h].pc = "lookup" => handler[h].kind = "status"
    /\ handler[h].pc \in Inside => handler[h].kind = "chunk"
    /\ handler[h].slot # None \/ handler[h].pc \notin Inside \cup {"lock"}
Carries == \A h \in Handler : handler[h].pc # "idle" /\ handler[h].kind = "chunk" =>
    LET t == client[handler[h].owner] IN
    /\ t.at \in {"chunk", "final"} /\ handler[h].offset = t.offset
    /\ t.at = "chunk" => handler[h].data # << >>
    /\ t.at = "final" => handler[h].data = << >> /\ handler[h].offset = Size
    /\ \A k \in 1 .. Len(handler[h].data) : handler[h].data[k] = handler[h].offset + k

\* A tab that may yet send a chunk.
Sends(c) ==
    \/ client[c].at \in {"ready", "chunk", "final"}
    \/ client[c].at = "status" /\ \E h \in Handler : handler[h].owner = c /\ handler[h].pc # "lookup"

\* While the content has not been stored, nothing is ever thrown away.
Filling ==
    /\ current # None => ~slots[current].done /\ ~slots[current].old
    /\ ~tmpOld
    /\ (current = None /\ tmp = None) \/ \E c \in Client : client[c].at # "idle"
    /\ Got < Size \/ \E h \in Handler : handler[h].pc \in {"dup", "move", "save"}
    /\ \A h \in Handler : handler[h].pc \in {"dup", "move"} => tmp # None
    /\ \A c \in Client : client[c].at \in {"ready", "chunk"} =>
          client[c].mismatches <= client[c].offset /\ client[c].offset <= Got /\ client[c].offset < Size
    /\ \A c \in Client : client[c].at # "final"

\* Once it has been stored, at most one tab goes on: with the slot that is done, or alone
\* with one that it started over.
Replays(c) ==
    /\ Got = Size
    /\ client[c].at \in {"ready", "chunk"} =>
          /\ client[c].mismatches <= Size - 1
          /\ client[c].offset = 0 \/ client[c].mismatches <= client[c].offset
Repeats(c) ==
    /\ client[c].at \in {"ready", "chunk"}
    /\ \/ client[c].offset = Got /\ Got < Size
       \/ \E h \in Handler : handler[h].owner = c /\ handler[h].pc = "dup"
Trailing ==
    /\ \A h \in Handler : handler[h].pc \notin {"move", "save"}
    /\ \A c, d \in Client : Sends(c) /\ Sends(d) => c = d
    /\ \A c \in Client : Sends(c) =>
          /\ current # None /\ slots[current].inited /\ ~slots[current].old /\ ~tmpOld
          /\ IF slots[current].done THEN Replays(c) ELSE Repeats(c)

CalmInv ==
    /\ Owned /\ Carries /\ Whole
    /\ \A c \in Client : client[c].at # "error" /\ (client[c].at = "done" => row)
    /\ IF row THEN Trailing ELSE Filling
-----------------------------------------------------------------------------
\* What a tab makes of the replies that there are when nothing fails.
LEMMA CalmReacts ==
    ASSUME NEW t \in Tab, NEW n \in 0 .. Size
    PROVE  /\ t.at = "status" =>
                 /\ React(t, Reply("received", n)).at = "ready" /\ React(t, Reply("received", n)).offset = n
                 /\ React(t, Reply("received", n)).mismatches = 0
           /\ t.at = "status" => React(t, Reply("exists", 0)).at = "done"
           /\ t.at = "chunk" /\ n > t.offset =>
                 /\ React(t, Reply("received", n)).at = "ready" /\ React(t, Reply("received", n)).offset = n
                 /\ React(t, Reply("received", n)).mismatches = 0
           /\ t.at = "chunk" /\ t.mismatches + 1 <= MaxRetries + 2 =>
                 /\ React(t, Reply("mismatch", n)).at = "ready" /\ React(t, Reply("mismatch", n)).offset = n
                 /\ React(t, Reply("mismatch", n)).mismatches = t.mismatches + 1
           /\ t.at \in {"chunk", "final"} =>
                 React(t, Reply("created", n)).at = "done" /\ React(t, Reply("duplicate", 0)).at = "done"
<1> USE SizeAssumption, LimitAssumption
<1>1. \A is, m : Reply(is, m).is = is /\ Reply(is, m).received = m
  BY DEF Reply
<1>2. At(t, "done").at = "done"
  BY DEF At, NewTab
<1>3. Resume(t, n).at = "ready" /\ Resume(t, n).offset = n /\ Resume(t, n).mismatches = 0
  BY DEF Resume, At, NewTab
<1>4. ASSUME t.mismatches + 1 <= MaxRetries + 2
      PROVE  /\ Correct(t, n).at = "ready" /\ Correct(t, n).offset = n
             /\ Correct(t, n).mismatches = t.mismatches + 1
  <2>1. t.mismatches \in Nat
    BY DEF Tab
  <2>2. ~(t.mismatches + 1 > MaxRetries + 2)
    BY <1>4, <2>1
  <2>3. Correct(t, n) = [Resume(t, n) EXCEPT !.mismatches = t.mismatches + 1]
    BY <2>2 DEF Correct
  <2> QED
    BY <2>3 DEF Resume, At, NewTab
<1>5. CASE t.at = "status"
  <2>1. \A r : React(t, r) = AfterStatus(t, r)
    BY <1>5 DEF React
  <2>2. AfterStatus(t, Reply("exists", 0)) = At(t, "done")
    BY <1>1 DEF AfterStatus
  <2>3. AfterStatus(t, Reply("received", n)) = Resume(t, n)
    BY <1>1 DEF AfterStatus
  <2> QED
    BY <1>2, <1>3, <1>5, <2>1, <2>2, <2>3
<1>6. CASE t.at = "chunk"
  <2>1. \A r : React(t, r) = AfterChunk(t, r)
    BY <1>6 DEF React
  <2>2. AfterChunk(t, Reply("created", n)) = At(t, "done") /\ AfterChunk(t, Reply("duplicate", 0)) = At(t, "done")
    BY <1>1 DEF AfterChunk
  <2>3. n > t.offset => AfterChunk(t, Reply("received", n)) = Resume(t, n)
    BY <1>1 DEF AfterChunk
  <2>4. AfterChunk(t, Reply("mismatch", n)) = Correct(t, n)
    BY <1>1 DEF AfterChunk
  <2> QED
    BY <1>2, <1>3, <1>4, <1>6, <2>1, <2>2, <2>3, <2>4
<1>7. CASE t.at = "final"
  <2>1. \A r : React(t, r) = AfterFinal(t, r)
    BY <1>7 DEF React
  <2>2. AfterFinal(t, Reply("created", n)) = At(t, "done") /\ AfterFinal(t, Reply("duplicate", 0)) = At(t, "done")
    BY <1>1 DEF AfterFinal
  <2> QED
    BY <1>2, <1>7, <2>1, <2>2
<1> QED
  BY <1>5, <1>6, <1>7

\* A request that is served has its tab, which has no other.
LEMMA CalmTab ==
    ASSUME TypeInv, Owned, NEW h \in Handler, handler[h].pc # "idle"
    PROVE  /\ handler[h].owner \in Client /\ client[handler[h].owner] \in Tab
           /\ client[handler[h].owner].at \in Waiting
           /\ client[handler[h].owner].at = "status" <=> handler[h].kind = "status"
           /\ \A g \in Handler : handler[g].owner = handler[h].owner => g = h
BY DEF Owned, TypeInv, TypeOK, Listening

\* A request is answered: its tab reacts, and sends again only when it is ready.
LEMMA CalmAnswers ==
    ASSUME TypeInv, Owned, Carries, NEW h \in Handler, handler[h].pc # "idle",
           NEW c \in Client, c = handler[h].owner,
           NEW is, NEW n \in Nat, handler[h].kind = "status" \/ n <= Size,
           Answer(h, Reply(is, n))
    PROVE  /\ Owned' /\ Carries'
           /\ client'[c] = React(client[c], Reply(is, n)) /\ client'[c].at \notin Waiting
           /\ \A d \in Client \ {c} : client'[d] = client[d] /\ (Sends(d)' <=> Sends(d))
           /\ Sends(c)' => client'[c].at = "ready"
           /\ handler'[h].pc = "idle"
           /\ \A g \in Handler \ {h} : handler'[g] = handler[g]
<1>1. c = handler[h].owner
  OBVIOUS
<1>2. /\ client[c] \in Tab /\ client[c].at \in Waiting
      /\ \A g \in Handler : handler[g].owner = c => g = h
      /\ client[c].at = "status" \/ n <= Size
  BY <1>1, CalmTab
<1>3. client'[c] = React(client[c], Reply(is, n)) /\ \A d \in Client \ {c} : client'[d] = client[d]
  BY <1>1 DEF Answer
<1>4. client'[c].at \notin Waiting
  BY <1>2, <1>3, ReactTyped
<1>5. /\ handler'[h].pc = "idle" /\ handler'[h].owner = None /\ handler'[h].slot = None
      /\ \A g \in Handler \ {h} : handler'[g] = handler[g]
  BY DEF Answer, TypeInv, TypeOK, NoRequest
<1>6. Owned'
  BY <1>5, NoneAssumption DEF Owned, Inside
<1>7. Carries'
  <2> SUFFICES ASSUME NEW g \in Handler, handler'[g].pc # "idle", handler'[g].kind = "chunk"
               PROVE  /\ client'[handler'[g].owner].at \in {"chunk", "final"}
                      /\ handler'[g].offset = client'[handler'[g].owner].offset
                      /\ client'[handler'[g].owner].at = "chunk" => handler'[g].data # << >>
                      /\ client'[handler'[g].owner].at = "final" => handler'[g].data = << >> /\ handler'[g].offset = Size
                      /\ \A k \in 1 .. Len(handler'[g].data) : handler'[g].data[k] = handler'[g].offset + k
    BY DEF Carries
  <2>1. g # h /\ handler'[g] = handler[g]
    BY <1>5
  <2>2. handler[g].owner \in Client /\ handler[g].owner # c
    BY <1>2, <2>1 DEF Owned
  <2>3. client'[handler[g].owner] = client[handler[g].owner]
    BY <1>3, <2>2
  <2> QED
    BY <2>1, <2>3 DEF Carries
<1>8. ASSUME NEW d \in Client, d # c PROVE Sends(d)' <=> Sends(d)
  <2>1. client'[d] = client[d]
    BY <1>3, <1>8
  <2>2. \A g \in Handler : handler'[g].owner = d <=> handler[g].owner = d
    BY <1>1, <1>5, <1>8, NoneAssumption
  <2>3. \A g \in Handler : handler[g].owner = d => handler'[g] = handler[g]
    BY <1>1, <1>5, <1>8
  <2> QED
    BY <2>1, <2>2, <2>3 DEF Sends
<1>9. Sends(c)' => client'[c].at = "ready"
  BY <1>4 DEF Sends, Waiting
<1> QED
  BY <1>3, <1>4, <1>5, <1>6, <1>7, <1>8, <1>9

\* A request goes on, with its tab still waiting for it.
LEMMA CalmGoesOn ==
    ASSUME TypeInv, Owned, Carries, NEW h \in Handler, handler[h].pc \notin {"idle", "lookup"},
           UNCHANGED client, \A g \in Handler \ {h} : handler'[g] = handler[g],
           handler'[h].owner = handler[h].owner, handler'[h].kind = handler[h].kind,
           handler'[h].offset = handler[h].offset, handler'[h].data = handler[h].data,
           handler'[h].pc \notin {"idle", "lookup"},
           handler'[h].pc \in Inside => handler[h].kind = "chunk",
           handler'[h].pc \in Inside \cup {"lock"} => handler'[h].slot # None
    PROVE  Owned' /\ Carries' /\ \A d \in Client : Sends(d)' <=> Sends(d)
<1>1. Owned'
  BY DEF Owned
<1>2. Carries'
  BY DEF Carries
<1>3. ASSUME NEW d \in Client PROVE Sends(d)' <=> Sends(d)
  BY DEF Sends
<1> QED
  BY <1>1, <1>2, <1>3

\* The step is neither a fault nor an upset.
Smooth == faults' = faults /\ upsets' = upsets

\* Then nothing fails.
LEMMA NoFault == ASSUME TypeInv, Smooth PROVE ~Fault /\ \A kind : ~Upset(kind)
<1>1. faults \in Nat /\ upsets \in Nat
  BY LimitAssumption DEF TypeInv, TypeOK
<1> QED
  BY <1>1 DEF Smooth, Fault, Upset

\* The slot as its owner finds it holds what has been received.
LEMMA CalmOpened ==
    ASSUME TypeInv, FileInv, Whole, NEW h \in Handler, Owns(h)
    PROVE  /\ handler[h].slot = current /\ current \in Slot /\ current # None
           /\ \A g \in Handler \ {h} : handler[g].pc \notin Inside
           /\ Opened(h) \in SlotState /\ Opened(h).inited /\ ~Opened(h).old
           /\ Begins(Opened(h).hashed) /\ Len(Opened(h).hashed) = Got /\ Got \in 0 .. Size
           /\ Opened(h).done => slots[current].inited /\ slots[current].done
           /\ slots[current].inited => (Opened(h).done <=> slots[current].done)
<1>1. /\ handler[h].slot = current /\ current \in Slot /\ current # None
      /\ \A g \in Handler \ {h} : handler[g].pc \notin Inside
  BY AloneInSlot
<1>2. /\ Opened(h) \in SlotState /\ Opened(h).inited /\ Len(Opened(h).hashed) \in Nat
      /\ slots[current].inited => Opened(h).hashed = slots[current].hashed /\ Opened(h).done = slots[current].done
      /\ ~slots[current].inited => Opened(h).hashed = Bytes /\ ~Opened(h).done
      /\ slots[current] \in SlotState
  BY <1>1, OpenedTyped DEF TypeInv
<1>3. ~Opened(h).old
  <2>1. CASE slots[current].inited
    BY <1>1, <1>2, <2>1 DEF Opened, SlotState
  <2>2. CASE ~slots[current].inited
    BY <1>1, <2>2 DEF Opened, NewSlot
  <2> QED
    BY <2>1, <2>2
<1>4. Len(Opened(h).hashed) = Got
  <2>1. CASE slots[current].inited
    BY <1>1, <1>2, <2>1 DEF Got
  <2>2. CASE ~slots[current].inited
    BY <1>1, <1>2, <2>2 DEF Got
  <2> QED
    BY <2>1, <2>2
<1>5. Begins(Opened(h).hashed)
  <2>1. CASE slots[current].inited
    BY <1>1, <1>2, <2>1 DEF Whole
  <2>2. CASE ~slots[current].inited /\ tmp # None
    BY <1>1, <1>2, <2>2 DEF Whole, Bytes
  <2>3. CASE ~slots[current].inited /\ tmp = None
    <3>1. Opened(h).hashed = << >>
      BY <1>2, <2>3 DEF Bytes
    <3> QED
      BY <3>1, SizeAssumption DEF Begins
  <2> QED
    BY <2>1, <2>2, <2>3
<1>6. Got \in 0 .. Size
  BY <1>2, <1>4, <1>5, SizeAssumption DEF Begins
<1>7. Opened(h).done => slots[current].inited /\ slots[current].done
  BY <1>2, Zenon
<1>8. slots[current].inited => (Opened(h).done <=> slots[current].done)
  BY <1>2, Zenon
<1> QED
  BY <1>1, <1>2, <1>3, <1>4, <1>5, <1>6, <1>7, <1>8

\* What a request leaves in its slot is what has been received.
LEMMA CalmSet ==
    ASSUME TypeInv, NEW h \in Handler, handler[h].slot = current, current \in Slot, current # None,
           NEW slot \in SlotState, slot.inited, SetSlot(h, slot)
    PROVE  current' = current /\ slots'[current'] = slot /\ Got' = Len(slot.hashed)
<1>1. current' = current /\ slots'[current] = slot
  BY DEF SetSlot, TypeInv, TypeOK
<1> QED
  BY <1>1 DEF Got

\* How many units have been received is a number.
LEMMA GotNumber == (TypeInv => Got \in Nat) /\ (TypeInv' => Got' \in Nat)
<1>1. << >> \in Seq(0 .. Size)
  OBVIOUS
<1>2. ASSUME TypeInv PROVE Got \in Nat
  <2>1. Bytes \in Seq(0 .. Size)
    BY <1>1, <1>2 DEF Bytes, TypeInv, TypeOK
  <2>2. current # None => slots[current].hashed \in Seq(0 .. Size)
    BY <1>2 DEF TypeInv, TypeOK, SlotState
  <2> QED
    BY <2>1, <2>2 DEF Got
<1>3. ASSUME TypeInv' PROVE Got' \in Nat
  <2>1. Bytes' \in Seq(0 .. Size)
    BY <1>1, <1>3 DEF Bytes, TypeInv, TypeOK
  <2>2. current' # None => slots'[current'].hashed \in Seq(0 .. Size)
    BY <1>3 DEF TypeInv, TypeOK, SlotState
  <2> QED
    BY <2>1, <2>2 DEF Got
<1> QED
  BY <1>2, <1>3

\* What a step of the tab c must do for the filling to go on.
LEMMA FillingGoesOn ==
    ASSUME TypeInv, TypeInv', Filling, NEW c \in Client, client[c].at # "idle",
           current' # None => ~slots'[current'].done /\ ~slots'[current'].old,
           ~tmpOld', Got <= Got', client'[c].at \notin {"idle", "final"},
           \A d \in Client \ {c} : client'[d] = client[d],
           client'[c].at \in {"ready", "chunk"} =>
              \/ client'[c] = client[c]
              \/ /\ client'[c].mismatches <= client'[c].offset /\ client'[c].offset <= Got'
                 /\ client'[c].offset < Size,
           Got' < Size \/ \E h \in Handler : handler'[h].pc \in {"dup", "move", "save"},
           \A h \in Handler : handler'[h].pc \in {"dup", "move"} => tmp' # None
    PROVE  Filling'
<1>1. Got \in Nat /\ Got' \in Nat
  BY GotNumber
<1>2. ASSUME NEW d \in Client, client'[d].at \in {"ready", "chunk"}
      PROVE  /\ client'[d].mismatches <= client'[d].offset /\ client'[d].offset <= Got'
             /\ client'[d].offset < Size
  <2>1. CASE client'[d] = client[d]
    <3>1. /\ client[d].mismatches <= client[d].offset /\ client[d].offset <= Got
          /\ client[d].offset < Size
      BY <1>2, <2>1 DEF Filling
    <3>2. client[d].offset \in Nat
      BY DEF TypeInv, TypeOK, Tab
    <3> QED
      BY <1>1, <2>1, <3>1, <3>2
  <2>2. CASE client'[d] # client[d]
    BY <1>2, <2>2
  <2> QED
    BY <2>1, <2>2
<1>3. \A d \in Client : client'[d].at # "final"
  BY DEF Filling
<1>4. \E d \in Client : client'[d].at # "idle"
  OBVIOUS
<1> QED
  BY <1>2, <1>3, <1>4 DEF Filling

\* The tab that went on is through: then nobody goes on.
LEMMA TrailingEnds ==
    ASSUME Trailing, NEW c \in Client, Sends(c), ~Sends(c)',
           \A d \in Client \ {c} : Sends(d)' => Sends(d),
           \A h \in Handler : handler'[h].pc \notin {"move", "save"}
    PROVE  Trailing'
<1>1. ASSUME NEW d \in Client PROVE ~Sends(d)'
  BY DEF Trailing
<1> QED
  BY <1>1 DEF Trailing

\* The tab that goes on, goes on.
LEMMA TrailingGoesOn ==
    ASSUME Trailing, NEW c \in Client, Sends(c),
           \A d \in Client \ {c} : Sends(d)' => Sends(d),
           \A h \in Handler : handler'[h].pc \notin {"move", "save"},
           current' # None, slots'[current'].inited, ~slots'[current'].old, ~tmpOld',
           slots'[current'].done => Replays(c)',
           ~slots'[current'].done => Repeats(c)'
    PROVE  Trailing'
<1>1. ASSUME NEW d \in Client, Sends(d)' PROVE d = c
  BY <1>1 DEF Trailing
<1> QED
  BY <1>1 DEF Trailing
-----------------------------------------------------------------------------
\* The file is chosen.
LEMMA CalmStart ==
    ASSUME TypeInv, TypeInv', CalmInv, NEW c \in Client, Start(c)
    PROVE  CalmInv'
<1>1. PICK h \in Handler : Send(c, h, "lookup", "status", 0, << >>)
  BY DEF Start
<1>2. /\ client[c].at \in {"idle", "done"}
      /\ client' = [client EXCEPT ![c] = [NewTab EXCEPT !.at = "status"]]
      /\ row' = row /\ tmp' = tmp /\ tmpOld' = tmpOld /\ current' = current /\ slots' = slots
  BY DEF Start, CalmInv, store, disk, memory
<1>3. client'[c].at = "status" /\ \A d \in Client \ {c} : client'[d] = client[d]
  BY <1>2 DEF NewTab, TypeInv, TypeOK
<1>4. /\ handler[h].pc = "idle" /\ \A g \in Handler \ {h} : handler'[g] = handler[g]
      /\ handler'[h].pc = "lookup" /\ handler'[h].kind = "status" /\ handler'[h].owner = c
  BY <1>1 DEF Send, NoRequest, TypeInv, TypeOK
<1>5. \A g \in Handler : handler[g].owner # c
  BY <1>2 DEF TypeInv, Listening, Waiting
<1>6. Owned'
  BY <1>4 DEF CalmInv, Owned, Inside
<1>7. Carries'
  <2> SUFFICES ASSUME NEW g \in Handler, handler'[g].pc # "idle", handler'[g].kind = "chunk"
               PROVE  g # h /\ handler[g].owner \in Client \ {c}
    BY <1>3, <1>4 DEF CalmInv, Carries
  <2>1. g # h
    BY <1>4
  <2> QED
    BY <1>4, <1>5, <2>1 DEF CalmInv, Owned
<1>8. ~Sends(c)' /\ \A d \in Client \ {c} : Sends(d)' <=> Sends(d)
  <2>1. ~Sends(c)'
    BY <1>3, <1>4, <1>5 DEF Sends
  <2>2. ASSUME NEW d \in Client \ {c} PROVE Sends(d)' <=> Sends(d)
    <3>1. handler[h].owner \notin Client
      BY <1>4 DEF CalmInv, Owned
    <3>2. \A g \in Handler : /\ handler'[g].owner = d <=> handler[g].owner = d
                             /\ handler[g].owner = d => handler'[g] = handler[g]
      BY <1>4, <3>1
    <3> QED
      BY <1>3, <3>2 DEF Sends
  <2> QED
    BY <2>1, <2>2
<1>9. Got' = Got
  BY <1>2 DEF Got, Bytes
<1>10. Whole'
  BY <1>2 DEF CalmInv, Whole
<1>11. CASE row
  <2>1. Trailing
    BY <1>11 DEF CalmInv
  <2>2. \A g \in Handler : handler'[g].pc \notin {"move", "save"}
    BY <1>4, <2>1 DEF Trailing
  <2>3. ASSUME NEW d \in Client, Sends(d)'
        PROVE  /\ Sends(d) /\ client'[d] = client[d] /\ (Replays(d) => Replays(d)') /\ (Repeats(d) => Repeats(d)')
    <3>1. d # c
      BY <1>8, <2>3
    <3>2. Sends(d) /\ client'[d] = client[d]
      BY <1>3, <1>8, <2>3, <3>1
    <3>3. Repeats(d) => Repeats(d)'
      BY <1>4, <1>9, <3>2 DEF Repeats
    <3> QED
      BY <1>9, <3>2, <3>3 DEF Replays
  <2>4. Trailing'
    BY <1>2, <2>1, <2>2, <2>3 DEF Trailing
  <2> QED
    BY <1>2, <1>3, <1>6, <1>7, <1>10, <1>11, <2>4 DEF CalmInv
<1>12. CASE ~row
  <2>1. Filling
    BY <1>12 DEF CalmInv
  <2>2. Filling'
    <3>1. Got' < Size \/ \E g \in Handler : handler'[g].pc \in {"dup", "move", "save"}
      BY <1>4, <1>9, <2>1 DEF Filling
    <3>2. \A g \in Handler : handler'[g].pc \in {"dup", "move"} => tmp' # None
      BY <1>2, <1>4, <2>1 DEF Filling
    <3>3. \E d \in Client : client'[d].at # "idle"
      BY <1>3
    <3>4. \A d \in Client : client'[d].at # "final"
      BY <1>3, <2>1 DEF Filling
    <3>5. \A d \in Client : client'[d].at \in {"ready", "chunk"} =>
            /\ client'[d].mismatches <= client'[d].offset /\ client'[d].offset <= Got'
            /\ client'[d].offset < Size
      BY <1>3, <1>9, <2>1 DEF Filling
    <3> QED
      BY <1>2, <2>1, <3>1, <3>2, <3>3, <3>4, <3>5 DEF Filling
  <2> QED
    BY <1>2, <1>3, <1>6, <1>7, <1>10, <1>12, <2>2 DEF CalmInv
<1> QED
  BY <1>11, <1>12

\* A chunk, or the empty body at the end, is sent.
LEMMA CalmLoop ==
    ASSUME TypeInv, TypeInv', CalmInv, Smooth, NEW c \in Client, Loop(c)
    PROVE  CalmInv'
<1>0. Owned /\ Carries /\ Whole
  BY DEF CalmInv
<1>1. /\ client[c].at = "ready" /\ client[c] \in Tab /\ Sends(c)
      /\ row' = row /\ tmp' = tmp /\ tmpOld' = tmpOld /\ current' = current /\ slots' = slots
  BY DEF Loop, SendChunk, SendFinal, store, disk, memory, TypeInv, TypeOK, Sends
<1>2. PICK h \in Handler, data \in Seq(0 .. Size) :
         /\ Send(c, h, "permit", "chunk", client[c].offset, data)
         /\ client'[c].at = IF data = << >> THEN "final" ELSE "chunk"
         /\ client'[c].offset = client[c].offset /\ client'[c].mismatches = client[c].mismatches
         /\ \A d \in Client \ {c} : client'[d] = client[d]
         /\ data = << >> <=> client[c].offset = Size
         /\ \A k \in 1 .. Len(data) : data[k] = client[c].offset + k
  <2>1. CASE SendFinal(c)
    <3>1. PICK h \in Handler : Send(c, h, "permit", "chunk", Size, << >>)
      BY <2>1 DEF SendFinal
    <3>2. << >> \in Seq(0 .. Size) /\ client[c].offset = Size
      BY <2>1 DEF SendFinal
    <3>3. client' = [client EXCEPT ![c].at = "final"]
      BY <2>1 DEF SendFinal
    <3>4. /\ client'[c].at = "final" /\ client'[c].offset = client[c].offset
          /\ client'[c].mismatches = client[c].mismatches
          /\ \A d \in Client \ {c} : client'[d] = client[d]
      BY <1>1, <3>3 DEF Tab, TypeInv, TypeOK
    <3>5. PICK data : data = << >>
      OBVIOUS
    <3>6. data \in Seq(0 .. Size) /\ Send(c, h, "permit", "chunk", client[c].offset, data)
      BY <3>1, <3>2, <3>5
    <3>7. \A k \in 1 .. Len(data) : data[k] = client[c].offset + k
      BY <3>5
    <3> QED
      BY <3>2, <3>4, <3>5, <3>6, <3>7
  <2>2. CASE SendChunk(c)
    <3>1. PICK end \in client[c].offset + 1 .. Size, h \in Handler :
            /\ client' = [client EXCEPT ![c].at = "chunk", ![c].end = end]
            /\ Send(c, h, "permit", "chunk", client[c].offset, SubSeq(Content, client[c].offset + 1, end))
      BY <2>2, NoFault DEF SendChunk
    <3>2. client[c].offset \in Nat /\ client[c].offset < Size /\ end \in Nat /\ end <= Size /\ client[c].offset < end
      BY <1>1, <2>2, <3>1, SizeAssumption DEF SendChunk, Tab
    <3>3. PICK data : data = SubSeq(Content, client[c].offset + 1, end)
      OBVIOUS
    <3>4. data \in Seq(0 .. Size) /\ Len(data) = end - client[c].offset
          /\ \A k \in 1 .. Len(data) : data[k] = client[c].offset + k
      <4>1. /\ Content \in Seq(0 .. Size) /\ Len(Content) = Size
            /\ \A k \in 1 .. Size : Content[k] = k
        BY ContentLength, SizeAssumption DEF Content
      <4>2. PICK m : m = client[c].offset + 1
        OBVIOUS
      <4>3. m \in Nat /\ m >= 1 /\ m <= end /\ \A k \in m .. end : Content[k] \in 0 .. Size
        BY <3>2, <4>1, <4>2, SizeAssumption
      <4>4. data = SubSeq(Content, m, end)
        BY <3>3, <4>2
      <4>5. /\ data \in Seq(0 .. Size) /\ Len(data) = end - m + 1
            /\ \A k \in 1 .. end - m + 1 : data[k] = Content[m + k - 1]
        <5>1. m \in Int /\ end \in Int
          BY <3>2, <4>3
        <5>2. /\ SubSeq(Content, m, end) \in Seq(0 .. Size)
              /\ Len(SubSeq(Content, m, end)) = IF m <= end THEN end - m + 1 ELSE 0
              /\ \A k \in 1 .. end - m + 1 : SubSeq(Content, m, end)[k] = Content[m + k - 1]
          BY ONLY <4>3, <5>1, SubSeqProperties
        <5> QED
          BY ONLY <4>3, <4>4, <5>2
      <4>6. Len(data) = end - client[c].offset
        BY <3>2, <4>2, <4>5
      <4>7. ASSUME NEW k \in 1 .. Len(data) PROVE data[k] = client[c].offset + k
        <5>1. k \in 1 .. end - m + 1 /\ m + k - 1 = client[c].offset + k /\ client[c].offset + k \in 1 .. Size
          <6>1. PICK o : o = client[c].offset
            OBVIOUS
          <6>2. o \in Nat /\ m = o + 1 /\ end \in Nat /\ end <= Size /\ Size \in Nat
            BY <3>2, <4>2, <6>1, SizeAssumption
          <6>3. k \in Nat /\ k >= 1 /\ k <= end - o
            BY <3>2, <4>6, <6>1
          <6>4. k \in 1 .. end - m + 1 /\ m + k - 1 = o + k /\ o + k \in 1 .. Size
            BY ONLY <6>2, <6>3
          <6> QED
            BY <6>1, <6>4
        <5>2. data[k] = Content[client[c].offset + k]
          BY <4>5, <5>1
        <5> QED
          BY <4>1, <5>1, <5>2
      <4> QED
        BY <4>5, <4>6, <4>7
    <3>5. data # << >> /\ client[c].offset # Size
      BY <3>2, <3>4
    <3>6. /\ client'[c].at = "chunk" /\ client'[c].offset = client[c].offset
          /\ client'[c].mismatches = client[c].mismatches
          /\ \A d \in Client \ {c} : client'[d] = client[d]
      BY <1>1, <3>1 DEF Tab, TypeInv, TypeOK
    <3> QED
      BY <3>1, <3>3, <3>4, <3>5, <3>6
  <2> QED
    BY <2>1, <2>2 DEF Loop
<1>3. client'[c].at \in {"chunk", "final"}
  BY <1>2
<1>4. /\ handler[h].pc = "idle" /\ \A g \in Handler \ {h} : handler'[g] = handler[g]
      /\ handler'[h].pc = "permit" /\ handler'[h].kind = "chunk" /\ handler'[h].owner = c
      /\ handler'[h].offset = client[c].offset /\ handler'[h].data = data
  BY <1>2 DEF Send, NoRequest, TypeInv, TypeOK
<1>5. \A g \in Handler : handler[g].owner # c
  BY <1>1 DEF TypeInv, Listening, Waiting
<1>6. Owned'
  BY <1>0, <1>4 DEF Owned, Inside
<1>7. Carries'
  <2> SUFFICES ASSUME NEW g \in Handler, handler'[g].pc # "idle", handler'[g].kind = "chunk"
               PROVE  /\ client'[handler'[g].owner].at \in {"chunk", "final"}
                      /\ handler'[g].offset = client'[handler'[g].owner].offset
                      /\ client'[handler'[g].owner].at = "chunk" => handler'[g].data # << >>
                      /\ client'[handler'[g].owner].at = "final" => handler'[g].data = << >> /\ handler'[g].offset = Size
                      /\ \A k \in 1 .. Len(handler'[g].data) : handler'[g].data[k] = handler'[g].offset + k
    BY DEF Carries
  <2>1. CASE g = h
    BY <1>2, <1>3, <1>4, <2>1
  <2>2. CASE g # h
    <3>1. handler'[g] = handler[g] /\ handler[g].owner \in Client \ {c}
      BY <1>0, <1>4, <1>5, <2>2 DEF Owned
    <3>2. client'[handler[g].owner] = client[handler[g].owner]
      BY <1>2, <3>1
    <3> QED
      BY <1>0, <3>1, <3>2 DEF Carries
  <2> QED
    BY <2>1, <2>2
<1>8. \A d \in Client \ {c} : Sends(d)' => Sends(d)
  <2> SUFFICES ASSUME NEW d \in Client \ {c}, Sends(d)' PROVE Sends(d)
    OBVIOUS
  <2>1. client'[d] = client[d]
    BY <1>2
  <2>2. \A g \in Handler : handler'[g].owner = d => g # h /\ handler'[g] = handler[g]
    BY <1>4
  <2> QED
    BY <2>1, <2>2 DEF Sends
<1>9. Got' = Got
  BY <1>1 DEF Got, Bytes
<1>10. Whole'
  BY <1>0, <1>1 DEF Whole
<1>11. \A d \in Client : client'[d].at # "error" /\ (client'[d].at = "done" => row')
  BY <1>1, <1>2, <1>3 DEF CalmInv
<1>12. CASE row
  <2>1. Trailing
    BY <1>12 DEF CalmInv
  <2>2. \A g \in Handler : handler'[g].pc \notin {"move", "save"}
    BY <1>4, <2>1 DEF Trailing
  <2>3. /\ current # None /\ slots[current].inited /\ ~slots[current].old /\ ~tmpOld
        /\ IF slots[current].done THEN Replays(c) ELSE Repeats(c)
    BY <1>1, <2>1 DEF Trailing
  <2>4. Replays(c) => Replays(c)'
    BY <1>1, <1>2, <1>9 DEF Replays
  <2>5. Repeats(c) => Repeats(c)'
    <3> SUFFICES ASSUME Repeats(c) PROVE Repeats(c)'
      OBVIOUS
    <3>1. client[c].offset = Got /\ Got < Size
      BY <1>5 DEF Repeats
    <3>2. client[c].offset # Size
      BY <3>1, GotNumber, SizeAssumption
    <3>3. client'[c].at = "chunk" /\ client'[c].offset = Got'
      BY <1>2, <1>9, <3>1, <3>2
    <3> QED
      BY <1>9, <3>1, <3>3 DEF Repeats
  <2>6. Trailing'
    BY <1>1, <1>8, <2>1, <2>2, <2>3, <2>4, <2>5, TrailingGoesOn
  <2> QED
    BY <1>1, <1>6, <1>7, <1>10, <1>11, <1>12, <2>6 DEF CalmInv
<1>13. CASE ~row
  <2>1. Filling
    BY <1>13 DEF CalmInv
  <2>2. /\ client[c].mismatches <= client[c].offset /\ client[c].offset <= Got
        /\ client[c].offset < Size
    BY <1>1, <2>1 DEF Filling
  <2>3. client'[c].at = "chunk"
    <3>1. client[c].offset # Size
      BY <1>1, <2>2, SizeAssumption DEF Tab
    <3> QED
      BY <1>2, <3>1
  <2>4. Got' < Size \/ \E g \in Handler : handler'[g].pc \in {"dup", "move", "save"}
    BY <1>4, <1>9, <2>1 DEF Filling
  <2>5. \A g \in Handler : handler'[g].pc \in {"dup", "move"} => tmp' # None
    BY <1>1, <1>4, <2>1 DEF Filling
  <2>6. Got <= Got'
    BY <1>9, GotNumber
  <2>7. (current' # None => ~slots'[current'].done /\ ~slots'[current'].old) /\ ~tmpOld'
    BY <1>1, <2>1 DEF Filling
  <2>8. /\ client'[c].mismatches <= client'[c].offset /\ client'[c].offset <= Got'
        /\ client'[c].offset < Size
    BY <1>2, <1>9, <2>2
  <2>9. Filling'
    BY <1>1, <1>2, <2>1, <2>3, <2>4, <2>5, <2>6, <2>7, <2>8, FillingGoesOn
  <2> QED
    BY <1>1, <1>6, <1>7, <1>10, <1>11, <1>13, <2>9 DEF CalmInv
<1> QED
  BY <1>12, <1>13

\* A beginning as long as the content is the content.
LEMMA BeginsWhole ==
    ASSUME NEW s \in Seq(0 .. Size), Begins(s), Len(s) = Size
    PROVE  s = Content
<1>1. s = [k \in 1 .. Len(s) |-> s[k]]
  OBVIOUS
<1> QED
  BY <1>1 DEF Begins, Content

\* A request past its lookup belongs to a tab that may yet send.
LEMMA CalmSends ==
    ASSUME TypeInv, Owned, NEW h \in Handler, handler[h].pc \notin {"idle", "lookup"}
    PROVE  Sends(handler[h].owner)
<1>1. /\ handler[h].owner \in Client /\ client[handler[h].owner].at \in Waiting
  BY CalmTab
<1> QED
  BY <1>1 DEF Sends, Waiting

\* What a step that moves no tab must do for the filling to go on.
LEMMA FillingKeeps ==
    ASSUME Filling, client' = client,
           current' # None => ~slots'[current'].done /\ ~slots'[current'].old,
           ~tmpOld', Got \in Nat, Got' \in Nat, Got <= Got',
           \E c \in Client : client[c].at # "idle",
           \A c \in Client : client[c] \in Tab,
           Got' < Size \/ \E h \in Handler : handler'[h].pc \in {"dup", "move", "save"},
           \A h \in Handler : handler'[h].pc \in {"dup", "move"} => tmp' # None
    PROVE  Filling'
<1>1. ASSUME NEW d \in Client, client[d].at \in {"ready", "chunk"}
      PROVE  /\ client[d].mismatches <= client[d].offset /\ client[d].offset <= Got'
             /\ client[d].offset < Size
  <2>1. /\ client[d].mismatches <= client[d].offset /\ client[d].offset <= Got
        /\ client[d].offset < Size
    BY <1>1 DEF Filling
  <2>2. client[d].offset \in Nat
    BY DEF Tab
  <2> QED
    BY <2>1, <2>2
<1> QED
  BY <1>1 DEF Filling

\* A step that the tabs that go on do not notice.
LEMMA TrailingKeeps ==
    ASSUME Trailing,
           \A d \in Client : Sends(d)' =>
              Sends(d) /\ client'[d] = client[d] /\ (Repeats(d) => Repeats(d)'),
           \A h \in Handler : handler'[h].pc \notin {"move", "save"},
           UNCHANGED <<tmpOld, current, slots>>, Got' = Got
    PROVE  Trailing'
<1>1. ASSUME NEW d \in Client, Sends(d)' PROVE Replays(d) => Replays(d)'
  BY <1>1 DEF Replays
<1> QED
  BY <1>1 DEF Trailing

\* A step of h that leaves its tab in place, and is not the end of a check for a duplicate.
LEMMA RepeatsOn ==
    ASSUME TypeInv, Owned, NEW h \in Handler, handler[h].pc \notin {"idle", "dup"}, client' = client,
           Got' = Got, NEW c \in Client, c = handler[h].owner, Repeats(c)
    PROVE  Repeats(c)' /\ client[c].offset = Got /\ Got < Size
<1>1. \A g \in Handler : handler[g].owner = c => g = h
  BY CalmTab
<1>2. client[c].offset = Got /\ Got < Size
  BY <1>1 DEF Repeats
<1> QED
  BY <1>2 DEF Repeats
-----------------------------------------------------------------------------
\* The status is asked for: the content is stored, or the request goes on to its slot.
LEMMA CalmLookup ==
    ASSUME TypeInv, TypeInv', CalmInv, Smooth, NEW h \in Handler, Lookup(h)
    PROVE  CalmInv'
<1>0. Owned /\ Carries /\ Whole
  BY DEF CalmInv
<1>1. handler[h].pc = "lookup" /\ handler[h].kind = "status"
  BY <1>0 DEF Lookup, Owned
<1>2. PICK c \in Client : c = handler[h].owner
  BY <1>0, <1>1, CalmTab
<1>3. client[c].at = "status" /\ client[c] \in Tab /\ \A g \in Handler : handler[g].owner = c => g = h
  BY <1>0, <1>1, <1>2, CalmTab
<1>4. /\ row' = row /\ tmp' = tmp /\ tmpOld' = tmpOld /\ current' = current /\ slots' = slots
      /\ \/ row /\ Answer(h, Reply("exists", 0))
         \/ ~row /\ Goto(h, "handle") /\ client' = client
  BY NoFault DEF Lookup, store, disk, memory
<1>5. Got' = Got /\ Whole'
  BY <1>0, <1>4 DEF Got, Bytes, Whole
<1>6. CASE row
  <2>1. Answer(h, Reply("exists", 0))
    BY <1>4, <1>6
  <2>2. /\ Owned' /\ Carries' /\ client'[c] = React(client[c], Reply("exists", 0))
        /\ \A d \in Client \ {c} : client'[d] = client[d] /\ (Sends(d)' <=> Sends(d))
        /\ Sends(c)' => client'[c].at = "ready"
        /\ handler'[h].pc = "idle" /\ \A g \in Handler \ {h} : handler'[g] = handler[g]
    BY <1>0, <1>1, <1>2, <2>1, CalmAnswers
  <2>3. client'[c].at = "done"
    BY <1>3, <2>2, CalmReacts, SizeAssumption
  <2>4. Trailing
    BY <1>6 DEF CalmInv
  <2>5. \A g \in Handler : handler'[g].pc \notin {"move", "save"}
    BY <2>2, <2>4 DEF Trailing
  <2>6. ASSUME NEW d \in Client, Sends(d)'
        PROVE  Sends(d) /\ client'[d] = client[d] /\ (Repeats(d) => Repeats(d)')
    <3>1. d # c
      BY <2>2, <2>3, <2>6
    <3>2. Sends(d) /\ client'[d] = client[d]
      BY <2>2, <2>6, <3>1
    <3>3. \A g \in Handler : handler[g].owner = d => handler'[g] = handler[g]
      BY <1>2, <2>2, <3>1
    <3> QED
      BY <1>5, <3>2, <3>3 DEF Repeats
  <2>7. Trailing'
    BY <1>4, <1>5, <2>4, <2>5, <2>6, TrailingKeeps
  <2>8. \A d \in Client : client'[d].at # "error" /\ (client'[d].at = "done" => row')
    BY <1>4, <1>6, <2>2, <2>3 DEF CalmInv
  <2> QED
    BY <1>4, <1>5, <1>6, <2>2, <2>7, <2>8 DEF CalmInv
<1>7. CASE ~row
  <2>1. Filling /\ client' = client /\ Goto(h, "handle")
    BY <1>4, <1>7 DEF CalmInv
  <2>2. /\ handler'[h].pc = "handle" /\ handler'[h].kind = "status" /\ handler'[h].owner = c
        /\ \A g \in Handler \ {h} : handler'[g] = handler[g]
    BY <1>1, <1>2, <2>1 DEF Goto, TypeInv, TypeOK, Request
  <2>3. Owned'
    BY <1>0, <2>2 DEF Owned, Inside
  <2>4. Carries'
    BY <1>0, <2>1, <2>2 DEF Carries
  <2>5. Got' < Size \/ \E g \in Handler : handler'[g].pc \in {"dup", "move", "save"}
    BY <1>1, <1>5, <2>1, <2>2 DEF Filling
  <2>6. \A g \in Handler : handler'[g].pc \in {"dup", "move"} => tmp' # None
    BY <1>4, <2>1, <2>2 DEF Filling
  <2>7. /\ Got \in Nat /\ Got' \in Nat /\ Got <= Got' /\ \A d \in Client : client[d] \in Tab
    BY <1>5, GotNumber DEF TypeInv, TypeOK
  <2>8. Filling'
    <3>1. (current' # None => ~slots'[current'].done /\ ~slots'[current'].old) /\ ~tmpOld'
      BY <1>4, <2>1 DEF Filling
    <3> QED
      BY <1>3, <2>1, <2>5, <2>6, <2>7, <3>1, FillingKeeps
  <2> QED
    BY <1>4, <1>5, <1>7, <2>1, <2>3, <2>4, <2>8 DEF CalmInv
<1> QED
  BY <1>6, <1>7

\* A step before the lock that keeps memory.
LEMMA CalmWaits ==
    ASSUME TypeInv, TypeInv', CalmInv, NEW h \in Handler, NEW c \in Client, c = handler[h].owner,
           handler[h].pc \in {"handle", "permit"}, handler'[h].pc \in {"handle", "permit", "lock"},
           UNCHANGED <<client, row, tmp, tmpOld>>,
           \A g \in Handler \ {h} : handler'[g] = handler[g],
           Owned', Carries', \A d \in Client : Sends(d)' <=> Sends(d),
           \/ current' = current /\ slots' = slots
           \/ current = None /\ current' \in Slot /\ slots' = [slots EXCEPT ![current'] = NewSlot]
    PROVE  CalmInv'
<1>0. Owned /\ Carries /\ Whole
  BY DEF CalmInv
<1>1. Sends(c) /\ client[c].at \in Waiting
  BY <1>0, CalmTab, CalmSends
<1>2. CASE current' = current /\ slots' = slots
  <2>1. Got' = Got /\ Whole'
    BY <1>0, <1>2 DEF Got, Bytes, Whole
  <2>2. CASE row
    <3>1. Trailing
      BY <2>2 DEF CalmInv
    <3>2. \A g \in Handler : handler'[g].pc \notin {"move", "save"}
      BY <3>1 DEF Trailing
    <3>3. ASSUME NEW d \in Client, Sends(d)' PROVE Repeats(d) => Repeats(d)'
      <4>1. d = c
        BY <1>1, <3>1, <3>3 DEF Trailing
      <4> QED
        BY <1>0, <2>1, <4>1, RepeatsOn
    <3>4. Trailing'
      BY <1>2, <2>1, <3>1, <3>2, <3>3, TrailingKeeps
    <3> QED
      BY <2>1, <2>2, <3>4 DEF CalmInv
  <2>3. CASE ~row
    <3>1. Filling
      BY <2>3 DEF CalmInv
    <3>2. Got' < Size \/ \E g \in Handler : handler'[g].pc \in {"dup", "move", "save"}
      BY <2>1, <3>1 DEF Filling
    <3>3. \A g \in Handler : handler'[g].pc \in {"dup", "move"} => tmp' # None
      BY <3>1 DEF Filling
    <3>4. /\ Got \in Nat /\ Got' \in Nat /\ Got <= Got' /\ \A d \in Client : client[d] \in Tab
      BY <2>1, GotNumber DEF TypeInv, TypeOK
    <3>5. (current' # None => ~slots'[current'].done /\ ~slots'[current'].old) /\ ~tmpOld'
      BY <1>2, <3>1 DEF Filling
    <3>6. Filling'
      BY <1>1, <3>1, <3>2, <3>3, <3>4, <3>5, FillingKeeps DEF Waiting
    <3> QED
      BY <2>1, <2>3, <3>6 DEF CalmInv
  <2> QED
    BY <2>2, <2>3
<1>3. CASE current = None /\ current' \in Slot /\ slots' = [slots EXCEPT ![current'] = NewSlot]
  <2>1. ~row
    BY <1>1, <1>3 DEF CalmInv, Trailing
  <2>2. Filling
    BY <2>1 DEF CalmInv
  <2>3. slots'[current'] = NewSlot /\ current' # None
    BY <1>3, NoneAssumption DEF TypeInv, TypeOK
  <2>4. ~NewSlot.inited /\ ~NewSlot.done /\ ~NewSlot.old /\ NewSlot.hashed = << >>
    BY DEF NewSlot
  <2>5. Got' = Got
    BY <1>3, <2>3, <2>4 DEF Got, Bytes
  <2>6. Begins(<< >>)
    BY SizeAssumption DEF Begins
  <2>7. Whole'
    BY <1>0, <2>3, <2>4, <2>6 DEF Whole
  <2>8. Got' < Size \/ \E g \in Handler : handler'[g].pc \in {"dup", "move", "save"}
    BY <2>2, <2>5 DEF Filling
  <2>9. \A g \in Handler : handler'[g].pc \in {"dup", "move"} => tmp' # None
    BY <2>2 DEF Filling
  <2>10. /\ Got \in Nat /\ Got' \in Nat /\ Got <= Got' /\ \A d \in Client : client[d] \in Tab
    BY <2>5, GotNumber DEF TypeInv, TypeOK
  <2>11. ~slots'[current'].done /\ ~slots'[current'].old /\ ~tmpOld'
    BY <2>2, <2>3, <2>4 DEF Filling
  <2>12. Filling'
    BY <1>1, <2>2, <2>8, <2>9, <2>10, <2>11, FillingKeeps DEF Waiting
  <2> QED
    BY <2>1, <2>7, <2>12 DEF CalmInv
<1> QED
  BY <1>2, <1>3

\* A request takes its handle or its permit.
LEMMA CalmWait ==
    ASSUME TypeInv, TypeInv', CalmInv, NEW h \in Handler, GetHandle(h) \/ Permit(h)
    PROVE  CalmInv'
<1>0. Owned /\ Carries
  BY DEF CalmInv
<1>1. /\ UNCHANGED <<client, row, tmp, tmpOld>> /\ handler[h].pc \in {"handle", "permit"}
  BY DEF GetHandle, Permit, store, disk
<1>2. PICK c \in Client : c = handler[h].owner
  BY <1>0, <1>1, CalmTab
<1>3. /\ handler'[h].owner = handler[h].owner /\ handler'[h].kind = handler[h].kind
      /\ handler'[h].offset = handler[h].offset /\ handler'[h].data = handler[h].data
      /\ handler'[h].pc \in {"handle", "permit", "lock"}
      /\ handler'[h].pc = "lock" => handler'[h].slot # None
      /\ \A g \in Handler \ {h} : handler'[g] = handler[g]
  <2>1. handler \in [Handler -> Request]
    BY DEF TypeInv, TypeOK
  <2>2. CASE GetHandle(h)
    <3>1. PICK s \in Slot :
             handler' = [handler EXCEPT ![h].slot = s,
                            ![h].pc = IF handler[h].kind = "status" THEN "permit" ELSE "lock"]
      BY <2>2 DEF GetHandle
    <3> QED
      BY <2>1, <3>1, NoneAssumption DEF Request
  <2>3. CASE Permit(h)
    <3>1. /\ handler' = [handler EXCEPT ![h].pc = IF handler[h].kind = "status" THEN "lock" ELSE "handle"]
          /\ handler[h].pc = "permit"
      BY <2>3 DEF Permit, Goto
    <3>2. handler[h].kind = "status" => handler[h].slot # None
      BY <3>1, NoneAssumption DEF TypeInv, Serving
    <3> QED
      BY <2>1, <3>1, <3>2 DEF Request
  <2> QED
    BY <2>2, <2>3
<1>4. Owned' /\ Carries' /\ \A d \in Client : Sends(d)' <=> Sends(d)
  BY <1>0, <1>1, <1>3, CalmGoesOn DEF Inside
<1>5. \/ current' = current /\ slots' = slots
      \/ current = None /\ current' \in Slot /\ slots' = [slots EXCEPT ![current'] = NewSlot]
  BY DEF GetHandle, Permit, memory
<1> QED
  BY <1>1, <1>2, <1>3, <1>4, <1>5, CalmWaits

\* A request at its lock, or inside it, as it is when nothing has failed.
LEMMA CalmServed ==
    ASSUME TypeInv, FileInv, CalmInv, NEW h \in Handler, Owns(h)
    PROVE  /\ handler[h].owner \in Client /\ client[handler[h].owner] \in Tab
           /\ Sends(handler[h].owner) /\ client[handler[h].owner].at \in Waiting
           /\ client[handler[h].owner].at = "status" <=> handler[h].kind = "status"
           /\ handler[h].kind \in {"status", "chunk"} /\ handler[h].data \in Seq(0 .. Size)
           /\ handler[h].offset + Len(handler[h].data) <= Size /\ handler[h].offset \in 0 .. Size
           /\ client[handler[h].owner].at = "chunk" =>
                 handler[h].offset = client[handler[h].owner].offset /\ handler[h].data # << >>
           /\ client[handler[h].owner].at = "final" => handler[h].data = << >> /\ handler[h].offset = Size
           /\ ~row => /\ Filling
                      /\ ~slots[current].done /\ ~slots[current].old /\ ~tmpOld /\ ~Opened(h).done
                      /\ handler[h].pc = "lock" => Got < Size
           /\ row => /\ Trailing /\ slots[current].inited /\ ~slots[current].old /\ ~tmpOld
                     /\ Opened(h).done => Replays(handler[h].owner)
                     /\ ~Opened(h).done => Repeats(handler[h].owner)
<1>1. Owned /\ Carries /\ Whole
  BY DEF CalmInv
<1>2. PICK c \in Client : c = handler[h].owner
  BY <1>1, CalmTab DEF Owns, Inside
<1>3. handler[h].pc \notin {"idle", "lookup"}
  BY DEF Owns, Inside
<1>4. /\ client[c] \in Tab /\ client[c].at \in Waiting /\ Sends(c)
      /\ client[c].at = "status" <=> handler[h].kind = "status"
  BY <1>1, <1>2, <1>3, CalmTab, CalmSends
<1>5. /\ handler[h].kind \in {"status", "chunk"} /\ handler[h].data \in Seq(0 .. Size)
      /\ handler[h].offset \in 0 .. Size /\ handler[h].offset + Len(handler[h].data) <= Size
  BY DEF TypeInv, TypeOK, Serving, Request
<1>6. /\ client[c].at = "chunk" => handler[h].offset = client[c].offset /\ handler[h].data # << >>
      /\ client[c].at = "final" => handler[h].data = << >> /\ handler[h].offset = Size
  BY <1>1, <1>2, <1>3, <1>4, <1>5 DEF Carries
<1>7. /\ current # None /\ \A g \in Handler \ {h} : handler[g].pc \notin Inside
      /\ Opened(h).done => slots[current].inited /\ slots[current].done
      /\ slots[current].inited => (Opened(h).done <=> slots[current].done)
  BY <1>1, CalmOpened
<1>8. ASSUME ~row
      PROVE  /\ Filling
             /\ ~slots[current].done /\ ~slots[current].old /\ ~tmpOld /\ ~Opened(h).done
             /\ handler[h].pc = "lock" => Got < Size
  <2>1. Filling
    BY <1>8 DEF CalmInv
  <2>2. ~slots[current].done /\ ~slots[current].old /\ ~tmpOld
    BY <1>7, <2>1 DEF Filling
  <2>3. ~Opened(h).done
    BY <1>7, <2>2
  <2>4. handler[h].pc = "lock" => Got < Size
    BY <1>7, <2>1 DEF Filling, Inside
  <2> QED
    BY <2>1, <2>2, <2>3, <2>4
<1>9. ASSUME row
      PROVE  /\ Trailing /\ slots[current].inited /\ ~slots[current].old /\ ~tmpOld
             /\ Opened(h).done => Replays(c)
             /\ ~Opened(h).done => Repeats(c)
  <2>1. Trailing
    BY <1>9 DEF CalmInv
  <2>2. /\ slots[current].inited /\ ~slots[current].old /\ ~tmpOld
        /\ slots[current].done => Replays(c)
        /\ ~slots[current].done => Repeats(c)
    BY <1>4, <2>1 DEF Trailing
  <2> QED
    BY <1>7, <2>1, <2>2
<1> QED
  BY <1>2, <1>4, <1>5, <1>6, <1>8, <1>9

\* An answer by which the filling goes on.
LEMMA AnswerFills ==
    ASSUME TypeInv, TypeInv', FileInv, CalmInv, ~row, UNCHANGED row, NEW h \in Handler, Owns(h),
           NEW c \in Client, c = handler[h].owner,
           NEW slot \in SlotState, slot.inited, ~slot.done, ~slot.old, SetSlot(h, slot), ~tmpOld',
           Begins(slot.hashed), tmp' # None => Begins(tmp'),
           NEW is, NEW n \in Nat, n <= Size, Answer(h, Reply(is, n)),
           Got <= Len(slot.hashed), Len(slot.hashed) < Size,
           client'[c].at = "ready", client'[c].offset = Len(slot.hashed),
           client'[c].mismatches <= Len(slot.hashed)
    PROVE  CalmInv'
<1>0. Owned /\ Carries /\ Whole /\ handler[h].pc # "idle"
  BY DEF CalmInv, Owns, Inside
<1>1. /\ Owned' /\ Carries' /\ \A d \in Client \ {c} : client'[d] = client[d]
      /\ handler'[h].pc = "idle" /\ \A g \in Handler \ {h} : handler'[g] = handler[g]
  BY <1>0, CalmAnswers
<1>2. /\ handler[h].slot = current /\ current \in Slot /\ current # None
      /\ \A g \in Handler \ {h} : handler[g].pc \notin Inside
  BY <1>0, CalmOpened
<1>3. current' = current /\ slots'[current'] = slot /\ Got' = Len(slot.hashed)
  BY <1>2, CalmSet
<1>4. Whole'
  BY <1>3 DEF Whole
<1>5. Filling /\ client[c].at # "idle"
  BY CalmServed DEF Waiting
<1>6. \A g \in Handler : handler'[g].pc \notin {"dup", "move"}
  BY <1>1, <1>2 DEF Inside
<1>7. Got \in Nat /\ Got' \in Nat
  BY GotNumber
<1>8. Filling'
  BY <1>1, <1>3, <1>5, <1>6, <1>7, FillingGoesOn
<1>9. \A d \in Client : client'[d].at # "error" /\ (client'[d].at = "done" => row')
  BY <1>1 DEF CalmInv
<1> QED
  BY <1>1, <1>4, <1>8, <1>9 DEF CalmInv

\* The request goes on in the lock, and the filling with it.
LEMMA GoesOnFills ==
    ASSUME TypeInv, TypeInv', FileInv, CalmInv, ~row, UNCHANGED row, NEW h \in Handler, Owns(h),
           NEW slot \in SlotState, slot.inited, ~slot.done, ~slot.old, SetSlot(h, slot), ~tmpOld',
           Begins(slot.hashed), tmp' # None => Begins(tmp'), client' = client,
           NEW p \in Inside, Goto(h, p), handler[h].kind = "chunk",
           Got <= Len(slot.hashed), Len(slot.hashed) < Size \/ p # "write",
           p \in {"dup", "move"} => tmp' # None
    PROVE  CalmInv'
<1>0. Owned /\ Carries /\ Whole /\ handler[h].pc \notin {"idle", "lookup"}
  BY DEF CalmInv, Owns, Inside
<1>1. /\ handler[h].slot = current /\ current \in Slot /\ current # None
      /\ \A g \in Handler \ {h} : handler[g].pc \notin Inside
  BY <1>0, CalmOpened
<1>2. /\ handler'[h].pc = p /\ handler'[h].owner = handler[h].owner /\ handler'[h].kind = handler[h].kind
      /\ handler'[h].offset = handler[h].offset /\ handler'[h].data = handler[h].data
      /\ handler'[h].slot = handler[h].slot
      /\ \A g \in Handler \ {h} : handler'[g] = handler[g]
  BY DEF Goto, TypeInv, TypeOK, Request
<1>3. Owned' /\ Carries'
  BY <1>0, <1>1, <1>2, CalmGoesOn DEF Inside
<1>4. current' = current /\ slots'[current'] = slot /\ Got' = Len(slot.hashed)
  BY <1>1, CalmSet
<1>5. Whole'
  BY <1>4 DEF Whole
<1>6. Filling /\ client[handler[h].owner].at # "idle" /\ handler[h].owner \in Client
  BY CalmServed DEF Waiting
<1>7. \A g \in Handler : handler'[g].pc \in {"dup", "move"} => tmp' # None
  BY <1>1, <1>2 DEF Inside
<1>8. /\ Got \in Nat /\ Got' \in Nat /\ \A d \in Client : client[d] \in Tab
  BY GotNumber DEF TypeInv, TypeOK
<1>9. Got' < Size \/ \E g \in Handler : handler'[g].pc \in {"dup", "move", "save"}
  BY <1>2, <1>4 DEF Inside
<1>10. Filling'
  BY <1>1, <1>4, <1>6, <1>7, <1>8, <1>9, FillingKeeps
<1> QED
  BY <1>3, <1>5, <1>10 DEF CalmInv

\* An answer by which the tab that goes on is through.
LEMMA AnswerEnds ==
    ASSUME TypeInv, TypeInv', FileInv, CalmInv, row, UNCHANGED row, NEW h \in Handler, Owns(h),
           NEW c \in Client, c = handler[h].owner,
           NEW slot \in SlotState, slot.inited, SetSlot(h, slot),
           Begins(slot.hashed), tmp' # None => Begins(tmp'),
           NEW is, NEW n \in Nat, n <= Size, Answer(h, Reply(is, n)), client'[c].at = "done"
    PROVE  CalmInv'
<1>0. Owned /\ Carries /\ Whole /\ handler[h].pc # "idle"
  BY DEF CalmInv, Owns, Inside
<1>1. /\ Owned' /\ Carries' /\ \A d \in Client \ {c} : client'[d] = client[d] /\ (Sends(d)' <=> Sends(d))
      /\ Sends(c)' => client'[c].at = "ready"
      /\ handler'[h].pc = "idle" /\ \A g \in Handler \ {h} : handler'[g] = handler[g]
  BY <1>0, CalmAnswers
<1>2. /\ handler[h].slot = current /\ current \in Slot /\ current # None
  BY <1>0, CalmOpened
<1>3. current' = current /\ slots'[current'] = slot
  BY <1>2, CalmSet
<1>4. Whole'
  BY <1>3 DEF Whole
<1>5. Trailing /\ Sends(c)
  BY CalmServed
<1>6. \A g \in Handler : handler'[g].pc \notin {"move", "save"}
  BY <1>1, <1>5 DEF Trailing
<1>7. Trailing'
  BY <1>1, <1>5, <1>6, TrailingEnds
<1>8. \A d \in Client : client'[d].at # "error" /\ (client'[d].at = "done" => row')
  BY <1>1 DEF CalmInv
<1> QED
  BY <1>1, <1>4, <1>7, <1>8 DEF CalmInv

\* An answer with which the tab that goes on, goes on.
LEMMA AnswerTrails ==
    ASSUME TypeInv, TypeInv', FileInv, CalmInv, row, UNCHANGED row, NEW h \in Handler, Owns(h),
           NEW c \in Client, c = handler[h].owner,
           NEW slot \in SlotState, slot.inited, ~slot.old, SetSlot(h, slot), ~tmpOld',
           Begins(slot.hashed), tmp' # None => Begins(tmp'),
           NEW is, NEW n \in Nat, n <= Size, Answer(h, Reply(is, n)), client'[c].at = "ready",
           slot.done =>
              /\ Len(slot.hashed) = Size /\ client'[c].mismatches <= Size - 1
              /\ client'[c].offset = 0 \/ client'[c].mismatches <= client'[c].offset,
           ~slot.done => client'[c].offset = Len(slot.hashed) /\ Len(slot.hashed) < Size
    PROVE  CalmInv'
<1>0. Owned /\ Carries /\ Whole /\ handler[h].pc # "idle"
  BY DEF CalmInv, Owns, Inside
<1>1. /\ Owned' /\ Carries' /\ \A d \in Client \ {c} : client'[d] = client[d] /\ (Sends(d)' <=> Sends(d))
      /\ handler'[h].pc = "idle" /\ \A g \in Handler \ {h} : handler'[g] = handler[g]
  BY <1>0, CalmAnswers
<1>2. /\ handler[h].slot = current /\ current \in Slot /\ current # None
  BY <1>0, CalmOpened
<1>3. current' = current /\ slots'[current'] = slot /\ Got' = Len(slot.hashed)
  BY <1>2, CalmSet
<1>4. Whole'
  BY <1>3 DEF Whole
<1>5. Trailing /\ Sends(c)
  BY CalmServed
<1>6. \A g \in Handler : handler'[g].pc \notin {"move", "save"}
  BY <1>1, <1>5 DEF Trailing
<1>7. slots'[current'].done => Replays(c)'
  BY <1>3 DEF Replays
<1>8. ~slots'[current'].done => Repeats(c)'
  BY <1>3 DEF Repeats
<1>9. current' # None /\ slots'[current'].inited /\ ~slots'[current'].old
  BY <1>2, <1>3
<1>10. Trailing'
  BY <1>1, <1>5, <1>6, <1>7, <1>8, <1>9, TrailingGoesOn
<1>11. \A d \in Client : client'[d].at # "error" /\ (client'[d].at = "done" => row')
  BY <1>1 DEF CalmInv
<1> QED
  BY <1>1, <1>4, <1>10, <1>11 DEF CalmInv

\* The request of the tab that goes on goes on in the lock.
LEMMA GoesOnTrails ==
    ASSUME TypeInv, TypeInv', FileInv, CalmInv, row, UNCHANGED row, NEW h \in Handler, Owns(h),
           NEW c \in Client, c = handler[h].owner,
           NEW slot \in SlotState, slot.inited, ~slot.done, ~slot.old, SetSlot(h, slot), ~tmpOld',
           Begins(slot.hashed), tmp' # None => Begins(tmp'), client' = client,
           NEW p \in {"write", "dup"}, Goto(h, p), handler[h].kind = "chunk",
           client[c].at = "chunk",
           p = "write" => client[c].offset = Len(slot.hashed) /\ Len(slot.hashed) < Size
    PROVE  CalmInv'
<1>0. Owned /\ Carries /\ Whole /\ handler[h].pc \notin {"idle", "lookup"}
  BY DEF CalmInv, Owns, Inside
<1>1. handler[h].slot = current /\ current \in Slot /\ current # None
  BY <1>0, CalmOpened
<1>2. /\ handler'[h].pc = p /\ handler'[h].owner = handler[h].owner /\ handler'[h].kind = handler[h].kind
      /\ handler'[h].offset = handler[h].offset /\ handler'[h].data = handler[h].data
      /\ handler'[h].slot = handler[h].slot
      /\ \A g \in Handler \ {h} : handler'[g] = handler[g]
  BY DEF Goto, TypeInv, TypeOK, Request
<1>3. Owned' /\ Carries' /\ \A d \in Client : Sends(d)' <=> Sends(d)
  BY <1>0, <1>1, <1>2, CalmGoesOn DEF Inside
<1>4. current' = current /\ slots'[current'] = slot /\ Got' = Len(slot.hashed)
  BY <1>1, CalmSet
<1>5. Whole'
  BY <1>4 DEF Whole
<1>6. Trailing /\ Sends(c)
  BY CalmServed
<1>7. \A g \in Handler : handler'[g].pc \notin {"move", "save"}
  BY <1>2, <1>6 DEF Trailing
<1>8. Repeats(c)'
  BY <1>2, <1>4 DEF Repeats
<1>9. current' # None /\ slots'[current'].inited /\ ~slots'[current'].old /\ ~slots'[current'].done
  BY <1>1, <1>4
<1>10. Trailing'
  BY <1>3, <1>6, <1>7, <1>8, <1>9, TrailingGoesOn
<1> QED
  BY <1>3, <1>5, <1>10 DEF CalmInv

\* The slot as the request finds it, and an empty one, are sound.
LEMMA CalmSlots ==
    ASSUME TypeInv, FileInv, CalmInv, NEW h \in Handler, Owns(h)
    PROVE  /\ Opened(h) \in SlotState /\ Opened(h).inited /\ ~Opened(h).old
           /\ Begins(Opened(h).hashed) /\ Len(Opened(h).hashed) = Got /\ Got \in Nat /\ Got <= Size
           /\ ResetSlot \in SlotState /\ ResetSlot.inited /\ ~ResetSlot.old /\ ~ResetSlot.done
           /\ ResetSlot.hashed = << >> /\ Begins(ResetSlot.hashed)
           /\ tmp # None => Begins(tmp)
<1>1. Whole
  BY DEF CalmInv
<1>2. Begins(<< >>)
  BY SizeAssumption DEF Begins
<1>3. ~ResetSlot.old
  BY DEF ResetSlot, NewSlot
<1>4. /\ Opened(h) \in SlotState /\ Opened(h).inited /\ ~Opened(h).old
      /\ Begins(Opened(h).hashed) /\ Len(Opened(h).hashed) = Got /\ Got \in 0 .. Size
  BY <1>1, CalmOpened
<1>5. Got \in Nat /\ Got <= Size
  BY <1>4, SizeAssumption
<1> QED
  BY <1>1, <1>2, <1>3, <1>4, <1>5, ResetTyped DEF Whole

\* A tab is told how much has been received.
LEMMA CalmReport ==
    ASSUME TypeInv, TypeInv', FileInv, CalmInv, NEW h \in Handler, Report(h)
    PROVE  CalmInv'
<1>1. /\ handler[h].pc = "lock" /\ handler[h].kind = "status" /\ Owns(h)
      /\ SetSlot(h, Opened(h)) /\ Answer(h, Reply("received", Got))
      /\ row' = row /\ tmp' = tmp /\ tmpOld' = tmpOld
  <2>1. handler[h].pc = "lock" /\ handler[h].kind = "status" /\ Owns(h)
    BY DEF Report, Enters, Owns
  <2> QED
    BY <2>1, CalmSlots DEF Report, store, disk
<1>2. PICK c \in Client : c = handler[h].owner
  BY <1>1, CalmServed
<1>3. client[c].at = "status" /\ client[c] \in Tab
  BY <1>1, <1>2, CalmServed
<1>4. /\ Opened(h) \in SlotState /\ Opened(h).inited /\ ~Opened(h).old
      /\ Begins(Opened(h).hashed) /\ Len(Opened(h).hashed) = Got /\ Got \in Nat /\ Got <= Size
      /\ tmp # None => Begins(tmp)
  BY <1>1, CalmSlots
<1>5. /\ client'[c].at = "ready" /\ client'[c].offset = Got /\ client'[c].mismatches = 0
  <2>1. client'[c] = React(client[c], Reply("received", Got))
    BY <1>1, <1>2 DEF Answer
  <2>2. Got \in 0 .. Size
    BY <1>4, SizeAssumption
  <2> QED
    BY <1>3, <2>1, <2>2, CalmReacts
<1>6. CASE ~row
  <2>1. ~tmpOld /\ ~Opened(h).done /\ Got < Size
    BY <1>1, <1>6, CalmServed
  <2>2. client'[c].mismatches <= Len(Opened(h).hashed)
    BY <1>4, <1>5
  <2> QED
    BY <1>1, <1>2, <1>4, <1>5, <1>6, <2>1, <2>2, AnswerFills
<1>7. CASE row
  <2>1. ~tmpOld /\ (Opened(h).done => Replays(c)) /\ (~Opened(h).done => Repeats(c))
    BY <1>1, <1>2, <1>7, CalmServed
  <2>2. Opened(h).done /\ Got = Size
    BY <1>3, <2>1 DEF Replays, Repeats
  <2>3. /\ client'[c].mismatches <= Size - 1
        /\ client'[c].offset = 0 \/ client'[c].mismatches <= client'[c].offset
    BY <1>5, <2>2, SizeAssumption
  <2> QED
    BY <1>1, <1>2, <1>4, <1>5, <1>7, <2>1, <2>2, <2>3, AnswerTrails
<1> QED
  BY <1>6, <1>7

\* The last chunk of a complete upload is answered again.
LEMMA CalmReplay ==
    ASSUME TypeInv, TypeInv', FileInv, CalmInv, NEW h \in Handler, Replay(h)
    PROVE  CalmInv'
<1>1. /\ handler[h].pc = "lock" /\ handler[h].kind = "chunk" /\ Owns(h)
      /\ SetSlot(h, Opened(h)) /\ Answer(h, Reply("created", Got)) /\ Opened(h).done
      /\ row' = row /\ tmp' = tmp /\ tmpOld' = tmpOld
  <2>1. handler[h].pc = "lock" /\ handler[h].kind = "chunk" /\ Owns(h)
    BY DEF Replay, Enters, Owns
  <2> QED
    BY <2>1, CalmSlots DEF Replay, IsReplay, store, disk
<1>2. PICK c \in Client : c = handler[h].owner
  BY <1>1, CalmServed
<1>3. client[c].at \in {"chunk", "final"} /\ client[c] \in Tab
  BY <1>1, <1>2, CalmServed DEF Waiting
<1>4. /\ Opened(h) \in SlotState /\ Opened(h).inited
      /\ Begins(Opened(h).hashed) /\ Got \in Nat /\ Got <= Size
      /\ tmp # None => Begins(tmp)
  BY <1>1, CalmSlots
<1>5. client'[c].at = "done"
  <2>1. client'[c] = React(client[c], Reply("created", Got))
    BY <1>1, <1>2 DEF Answer
  <2>2. Got \in 0 .. Size
    BY <1>4, SizeAssumption
  <2> QED
    BY <1>3, <2>1, <2>2, CalmReacts
<1>6. row
  BY <1>1, CalmServed
<1> QED
  BY <1>1, <1>2, <1>4, <1>5, <1>6, AnswerEnds

\* A tab that started over does so alone, or is sent back to the start.
LEMMA CalmReupload ==
    ASSUME TypeInv, TypeInv', FileInv, CalmInv, Smooth, Few, NEW h \in Handler, Reupload(h)
    PROVE  CalmInv'
<1>1. /\ handler[h].pc = "lock" /\ handler[h].kind = "chunk" /\ Owns(h)
      /\ Opened(h).done /\ ~IsReplay(h) /\ handler[h].data # << >> /\ row' = row
  BY DEF Reupload, Enters, Owns, store
<1>2. PICK c \in Client : c = handler[h].owner
  BY <1>1, CalmServed
<1>3. /\ client[c] \in Tab /\ client[c].at = "chunk" /\ handler[h].offset = client[c].offset
      /\ handler[h].data \in Seq(0 .. Size) /\ handler[h].offset + Len(handler[h].data) <= Size
      /\ handler[h].offset \in 0 .. Size
  BY <1>1, <1>2, CalmServed DEF Waiting
<1>4. /\ Opened(h) \in SlotState /\ Opened(h).inited /\ ~Opened(h).old
      /\ Begins(Opened(h).hashed) /\ Len(Opened(h).hashed) = Got
      /\ ResetSlot \in SlotState /\ ResetSlot.inited /\ ~ResetSlot.old /\ ~ResetSlot.done
      /\ ResetSlot.hashed = << >> /\ Begins(ResetSlot.hashed)
      /\ tmp # None => Begins(tmp)
  BY <1>1, CalmSlots
<1>5. row /\ ~tmpOld /\ Replays(c) /\ Got = Size
  BY <1>1, <1>2, CalmServed DEF Replays
<1>6. CASE handler[h].offset = 0
  <2>1. Discard(h, tmp, tmpOld) /\ Goto(h, "write") /\ client' = client
    BY <1>6 DEF Reupload
  <2>2. SetSlot(h, ResetSlot) /\ tmp' = None /\ ~tmpOld'
    BY <2>1, NoFault DEF Discard
  <2>3. client[c].offset = Len(ResetSlot.hashed) /\ Len(ResetSlot.hashed) < Size
    BY <1>3, <1>4, <1>6, SizeAssumption
  <2> QED
    BY <1>1, <1>2, <1>3, <1>4, <1>5, <2>1, <2>2, <2>3, GoesOnTrails
<1>7. CASE handler[h].offset # 0
  <2>1. SetSlot(h, Opened(h)) /\ Answer(h, Reply("mismatch", 0)) /\ tmp' = tmp /\ tmpOld' = tmpOld
    BY <1>7 DEF Reupload, disk
  <2>2. client[c].mismatches <= client[c].offset
    BY <1>3, <1>5, <1>7 DEF Replays
  <2>3. client[c].mismatches \in Nat /\ client[c].mismatches + 1 <= Size - 1
    <3>1. handler[h].offset + Len(handler[h].data) # Size
      BY <1>1, <1>4, <1>5 DEF IsReplay
    <3>2. Len(handler[h].data) \in Nat /\ Len(handler[h].data) # 0
      BY <1>1, <1>3
    <3>3. client[c].mismatches \in Nat
      BY <1>3 DEF Tab
    <3>4. /\ handler[h].offset \in Nat /\ Size \in Nat /\ handler[h].offset = client[c].offset
          /\ handler[h].offset + Len(handler[h].data) <= Size
      BY <1>3, SizeAssumption
    <3>5. PICK o, l, m : o = client[c].offset /\ l = Len(handler[h].data) /\ m = client[c].mismatches
      OBVIOUS
    <3>6. o \in Nat /\ l \in Nat \ {0} /\ m \in Nat /\ m <= o /\ o + l <= Size /\ o + l # Size /\ Size \in Nat
      BY ONLY <2>2, <3>1, <3>2, <3>3, <3>4, <3>5
    <3>7. m + 1 <= Size - 1
      BY ONLY <3>6
    <3> QED
      BY ONLY <3>3, <3>5, <3>7
  <2>4. client[c].mismatches + 1 <= MaxRetries + 2
    BY <2>3, SizeAssumption, LimitAssumption DEF Few
  <2>5. /\ client'[c].at = "ready" /\ client'[c].offset = 0
        /\ client'[c].mismatches = client[c].mismatches + 1
    <3>1. client'[c] = React(client[c], Reply("mismatch", 0))
      BY <1>2, <2>1 DEF Answer
    <3>2. 0 \in 0 .. Size
      BY SizeAssumption
    <3> QED
      BY <1>3, <2>4, <3>1, <3>2, CalmReacts
  <2>6. Len(Opened(h).hashed) = Size /\ client'[c].mismatches <= Size - 1 /\ 0 <= Size
    BY <1>4, <1>5, <2>3, <2>5, SizeAssumption
  <2> QED
    BY <1>1, <1>2, <1>4, <1>5, <2>1, <2>5, <2>6, AnswerTrails
<1> QED
  BY <1>6, <1>7

\* A chunk is let in where it continues, or its tab is sent to where the others got.
LEMMA CalmAccept ==
    ASSUME TypeInv, TypeInv', FileInv, CalmInv, Few, NEW h \in Handler, Accept(h)
    PROVE  CalmInv'
<1>1. /\ handler[h].pc = "lock" /\ handler[h].kind = "chunk" /\ Owns(h)
      /\ ~Opened(h).done /\ handler[h].data # << >> /\ SetSlot(h, Opened(h))
      /\ row' = row /\ tmp' = tmp /\ tmpOld' = tmpOld
  BY DEF Accept, Enters, Owns, store, disk
<1>2. PICK c \in Client : c = handler[h].owner
  BY <1>1, CalmServed
<1>3. client[c] \in Tab /\ client[c].at = "chunk" /\ handler[h].offset = client[c].offset
  BY <1>1, <1>2, CalmServed DEF Waiting
<1>4. /\ Opened(h) \in SlotState /\ Opened(h).inited /\ ~Opened(h).old
      /\ Begins(Opened(h).hashed) /\ Len(Opened(h).hashed) = Got /\ Got \in Nat /\ Got <= Size
      /\ tmp # None => Begins(tmp)
  BY <1>1, CalmSlots
<1>5. /\ handler[h].offset # Got => Answer(h, Reply("mismatch", Got))
      /\ handler[h].offset = Got => Goto(h, "write") /\ client' = client
  BY <1>4 DEF Accept
<1>6. CASE row
  <2>1. ~tmpOld /\ Repeats(c)
    BY <1>1, <1>2, <1>6, CalmServed
  <2>2. client[c].offset = Got /\ Got < Size
    <3>1. \A g \in Handler : handler[g].owner = c => g = h
      BY <1>1, <1>2, CalmTab DEF CalmInv
    <3> QED
      BY <1>1, <2>1, <3>1 DEF Repeats
  <2>3. Goto(h, "write") /\ client' = client
    BY <1>3, <1>5, <2>2
  <2> QED
    BY <1>1, <1>2, <1>3, <1>4, <1>6, <2>1, <2>2, <2>3, GoesOnTrails
<1>7. CASE ~row
  <2>1. ~tmpOld /\ Got < Size /\ Filling
    BY <1>1, <1>7, CalmServed
  <2>2. CASE handler[h].offset = Got
    <3>1. Goto(h, "write") /\ client' = client /\ "write" \in Inside /\ Got <= Len(Opened(h).hashed)
      BY <1>4, <1>5, <2>2 DEF Inside
    <3> QED
      BY <1>1, <1>4, <1>7, <2>1, <3>1, GoesOnFills
  <2>3. CASE handler[h].offset # Got
    <3>1. /\ client[c].mismatches \in Nat /\ client[c].offset \in Nat /\ Size \in Nat /\ MaxRetries \in Nat
          /\ client[c].mismatches <= client[c].offset /\ client[c].offset <= Got
      BY <1>3, <2>1, SizeAssumption, LimitAssumption DEF Filling, Tab
    <3>2. client[c].mismatches + 1 <= Got /\ client[c].mismatches + 1 <= MaxRetries + 2
      <4>1. client[c].offset < Got
        BY <1>3, <1>4, <2>3, <3>1
      <4> QED
        BY <1>4, <2>1, <3>1, <4>1 DEF Few
    <3>3. Answer(h, Reply("mismatch", Got))
      BY <1>5, <2>3
    <3>4. /\ client'[c].at = "ready" /\ client'[c].offset = Got
          /\ client'[c].mismatches = client[c].mismatches + 1
      <4>1. client'[c] = React(client[c], Reply("mismatch", Got))
        BY <1>2, <3>3 DEF Answer
      <4>2. Got \in 0 .. Size
        BY <1>4, SizeAssumption
      <4> QED
        BY <1>3, <3>2, <4>1, <4>2, CalmReacts
    <3>5. client'[c].mismatches <= Len(Opened(h).hashed) /\ Got <= Len(Opened(h).hashed)
      BY <1>4, <3>2, <3>4
    <3> QED
      BY <1>1, <1>2, <1>4, <1>7, <2>1, <3>3, <3>4, <3>5, AnswerFills
  <2> QED
    BY <2>2, <2>3
<1> QED
  BY <1>6, <1>7

\* Nothing is announced too long, and nobody has to ask for the end explicitly.
LEMMA CalmNever ==
    ASSUME TypeInv, FileInv, CalmInv, NEW h \in Handler
    PROVE  ~Overfull(h) /\ ~Finalize(h)
<1>1. ASSUME Overfull(h) PROVE FALSE
  <2>1. Owns(h) /\ Len(Opened(h).hashed) > Size
    BY <1>1 DEF Overfull, Enters, Owns
  <2> QED
    BY <2>1, CalmSlots, SizeAssumption
<1>2. ASSUME Finalize(h) PROVE FALSE
  <2>1. Owns(h) /\ handler[h].pc = "lock" /\ handler[h].kind = "chunk" /\ ~IsReplay(h) /\ handler[h].data = << >>
    BY <1>2 DEF Finalize, Enters, Owns
  <2>2. PICK c \in Client : c = handler[h].owner
    BY <2>1, CalmServed
  <2>3. client[c].at = "final" /\ handler[h].offset = Size
    BY <2>1, <2>2, CalmServed DEF Waiting
  <2>4. row
    BY <2>2, <2>3, CalmServed, <2>1 DEF Filling
  <2>5. Replays(c) /\ Opened(h).done
    BY <2>1, <2>2, <2>3, <2>4, CalmServed DEF Repeats
  <2>6. Len(Opened(h).hashed) = Size
    BY <2>1, <2>5, CalmSlots DEF Replays
  <2>7. handler[h].offset + Len(handler[h].data) = Size
    BY <2>1, <2>3, SizeAssumption
  <2> QED
    BY <2>1, <2>5, <2>6, <2>7 DEF IsReplay
<1> QED
  BY <1>1, <1>2

\* What is appended is the next piece of the content.
LEMMA CalmAppends ==
    ASSUME TypeInv, FileInv, CalmInv, NEW h \in Handler, handler[h].pc = "write",
           NEW hashed, hashed = Opened(h).hashed \o handler[h].data
    PROVE  /\ hashed = Bytes \o handler[h].data /\ hashed \in Seq(0 .. Size) /\ Begins(hashed)
           /\ Len(hashed) = Got + Len(handler[h].data) /\ Len(handler[h].data) \in Nat
           /\ Len(hashed) <= Size /\ Got = handler[h].offset
<1>1. Owns(h) /\ handler[h].pc \in Inside /\ handler[h].kind = "chunk"
  BY DEF Owns, Inside, CalmInv, Owned
<1>2. /\ handler[h].slot = current /\ slots[current].inited /\ ~slots[current].done
      /\ slots[current].hashed = Bytes /\ Len(slots[current].hashed) = handler[h].offset
  BY <1>1, CalmOpened DEF FileInv, Sound, TypeInv, Serving, CalmInv
<1>3. Opened(h).hashed = Bytes
  BY <1>1, <1>2, OpenedAgrees
<1>4. /\ Begins(Opened(h).hashed) /\ Len(Opened(h).hashed) = Got
      /\ Opened(h).hashed \in Seq(0 .. Size)
  BY <1>1, CalmSlots DEF SlotState
<1>5. Got = handler[h].offset
  BY <1>2, <1>3, <1>4
<1>6. /\ handler[h].data \in Seq(0 .. Size) /\ handler[h].offset + Len(handler[h].data) <= Size
  BY <1>1, CalmServed
<1>7. \A k \in 1 .. Len(handler[h].data) : handler[h].data[k] = handler[h].offset + k
  BY <1>1 DEF CalmInv, Carries
<1>8. PICK s, d : s = Opened(h).hashed /\ d = handler[h].data
  OBVIOUS
<1>9. /\ s \in Seq(0 .. Size) /\ d \in Seq(0 .. Size) /\ Len(s) = Got /\ Begins(s)
      /\ Len(s) + Len(d) <= Size /\ \A k \in 1 .. Len(d) : d[k] = Len(s) + k
  BY <1>4, <1>5, <1>6, <1>7, <1>8
<1>10. /\ s \o d \in Seq(0 .. Size) /\ Len(s \o d) = Len(s) + Len(d) /\ Len(s) \in Nat /\ Len(d) \in Nat
       /\ \A k \in 1 .. Len(s) + Len(d) : (s \o d)[k] = IF k <= Len(s) THEN s[k] ELSE d[k - Len(s)]
  BY ONLY <1>9
<1>11. Begins(s \o d)
  <2>1. Len(s \o d) <= Size
    BY <1>9, <1>10
  <2>2. ASSUME NEW k \in 1 .. Len(s \o d) PROVE (s \o d)[k] = k
    <3>1. k \in Nat /\ k >= 1 /\ k <= Len(s) + Len(d)
      BY <1>10
    <3>2. CASE k <= Len(s)
      <4>1. s[k] = k
        BY <1>9, <1>10, <3>1, <3>2 DEF Begins
      <4> QED
        BY <1>10, <3>1, <3>2, <4>1
    <3>3. CASE ~(k <= Len(s))
      <4>1. k - Len(s) \in 1 .. Len(d)
        BY <1>10, <3>1, <3>3
      <4>2. d[k - Len(s)] = Len(s) + (k - Len(s))
        BY <1>9, <4>1
      <4>3. (s \o d)[k] = d[k - Len(s)]
        BY <1>10, <3>1, <3>3
      <4> QED
        BY <1>10, <3>1, <4>2, <4>3
    <3> QED
      BY <3>2, <3>3
  <2> QED
    BY <2>1, <2>2 DEF Begins
<1>12. hashed = s \o d
  BY <1>8
<1> QED
  BY <1>3, <1>5, <1>8, <1>9, <1>10, <1>11, <1>12

\* A chunk is written.
LEMMA CalmWrite ==
    ASSUME TypeInv, TypeInv', FileInv, CalmInv, NEW h \in Handler, Write(h)
    PROVE  CalmInv'
<1>1. handler[h].pc = "write" /\ Owns(h) /\ handler[h].kind = "chunk" /\ row' = row
  BY DEF Write, Owns, Inside, CalmInv, Owned, store
<1>2. PICK hashed : hashed = Opened(h).hashed \o handler[h].data
  OBVIOUS
<1>3. /\ hashed = Bytes \o handler[h].data /\ hashed \in Seq(0 .. Size) /\ Begins(hashed)
      /\ Len(hashed) = Got + Len(handler[h].data) /\ Len(handler[h].data) \in Nat
      /\ Len(hashed) <= Size /\ Got = handler[h].offset
  BY <1>1, <1>2, CalmAppends
<1>4. PICK c \in Client : c = handler[h].owner
  BY <1>1, CalmServed
<1>5. /\ client[c] \in Tab /\ client[c].at \in {"chunk", "final"}
      /\ ~row => Filling /\ ~Opened(h).done
      /\ row => ~Opened(h).done /\ Repeats(c)
  <2>1. ~Opened(h).done
    BY <1>1, OpenedAgrees DEF Inside
  <2> QED
    BY <1>1, <1>4, <2>1, CalmServed DEF Waiting
<1>6. client[c].at = "chunk" /\ handler[h].data # << >> /\ handler[h].offset = client[c].offset
  <2>1. client[c].at # "final"
    BY <1>5 DEF Filling, Repeats
  <2> QED
    BY <1>1, <1>4, <1>5, <2>1, CalmServed
<1>7. Got \in Nat /\ Got < Len(hashed)
  <2>1. handler[h].data \in Seq(0 .. Size) /\ Got \in Nat
    BY <1>1, CalmServed, GotNumber
  <2> QED
    BY <1>3, <1>6, <2>1
<1>8. PICK slot : slot = [Opened(h) EXCEPT !.hashed = hashed]
  OBVIOUS
<1>9. slot \in SlotState /\ slot.inited /\ ~slot.done /\ ~slot.old /\ slot.hashed = hashed
  <2>1. Opened(h) \in SlotState /\ Opened(h).inited /\ ~Opened(h).old /\ ~Opened(h).done
    BY <1>1, <1>5, CalmSlots
  <2> QED
    BY ONLY <1>3, <1>8, <2>1 DEF SlotState
<1>10. CASE Len(hashed) = Size
  <2>1. hashed = Content
    BY <1>3, <1>10, BeginsWhole
  <2>2. Verify(h, hashed, hashed, FALSE)
    BY <1>2, <1>3, <1>10 DEF Write
  <2>3. SetSlot(h, slot) /\ tmp' = hashed /\ ~tmpOld' /\ Goto(h, "dup") /\ client' = client
    BY <1>8, <2>1, <2>2 DEF Verify
  <2>4. tmp' # None
    BY <1>3, <2>3, NoneAssumption
  <2>5. CASE row
    <3>1. "dup" \in {"write", "dup"} /\ "dup" # "write"
      OBVIOUS
    <3> QED
      BY <1>1, <1>3, <1>4, <1>6, <1>9, <2>3, <2>5, <3>1, GoesOnTrails
  <2>6. CASE ~row
    <3>1. "dup" \in Inside /\ "dup" # "write" /\ Got <= Len(slot.hashed)
      BY <1>3, <1>7, <1>9, <1>10, SizeAssumption DEF Inside
    <3> QED
      BY <1>1, <1>3, <1>9, <2>3, <2>4, <2>6, <3>1, GoesOnFills
  <2> QED
    BY <2>5, <2>6
<1>11. CASE Len(hashed) # Size
  <2>1. /\ SetSlot(h, slot) /\ tmp' = hashed /\ ~tmpOld' /\ Answer(h, Reply("received", Len(hashed)))
    BY <1>2, <1>3, <1>8, <1>11 DEF Write
  <2>2. Len(hashed) \in Nat /\ Len(hashed) \in 0 .. Size /\ Len(hashed) < Size
    <3>1. Len(hashed) \in Nat /\ Len(hashed) <= Size
      BY <1>3
    <3> QED
      BY ONLY <1>11, <3>1, SizeAssumption
  <2>3. /\ client'[c].at = "ready" /\ client'[c].offset = Len(hashed) /\ client'[c].mismatches = 0
    <3>1. client'[c] = React(client[c], Reply("received", Len(hashed)))
      BY <1>4, <2>1 DEF Answer
    <3>2. Len(hashed) > client[c].offset
      BY <1>3, <1>6, <1>7, <2>2
    <3> QED
      BY <1>5, <1>6, <2>2, <3>1, <3>2, CalmReacts
  <2>4. CASE row
    BY <1>1, <1>3, <1>4, <1>9, <2>1, <2>2, <2>3, <2>4, AnswerTrails
  <2>5. CASE ~row
    <3>1. Got <= Len(slot.hashed) /\ client'[c].mismatches <= Len(slot.hashed)
      BY <1>7, <1>9, <2>2, <2>3
    <3> QED
      BY <1>1, <1>3, <1>4, <1>9, <2>1, <2>2, <2>3, <2>5, <3>1, AnswerFills
  <2> QED
    BY <2>4, <2>5
<1> QED
  BY <1>10, <1>11

\* The check for a duplicate.
LEMMA CalmCheck ==
    ASSUME TypeInv, TypeInv', FileInv, CalmInv, Smooth, NEW h \in Handler, CheckDuplicate(h)
    PROVE  CalmInv'
<1>1. handler[h].pc = "dup" /\ Owns(h) /\ handler[h].kind = "chunk" /\ row' = row
  BY DEF CheckDuplicate, Owns, Inside, CalmInv, Owned, store
<1>2. PICK c \in Client : c = handler[h].owner
  BY <1>1, CalmServed
<1>3. client[c].at \in {"chunk", "final"} /\ client[c] \in Tab
  BY <1>1, <1>2, CalmServed DEF Waiting
<1>4. CASE row
  <2>1. Discard(h, tmp, tmpOld) /\ Answer(h, Reply("duplicate", 0))
    BY <1>4, NoFault DEF CheckDuplicate
  <2>2. SetSlot(h, ResetSlot) /\ tmp' = None
    BY <2>1, NoFault DEF Discard
  <2>3. client'[c].at = "done"
    <3>1. client'[c] = React(client[c], Reply("duplicate", 0))
      BY <1>2, <2>1 DEF Answer
    <3>2. 0 \in 0 .. Size
      BY SizeAssumption
    <3> QED
      BY <1>3, <3>1, <3>2, CalmReacts
  <2>4. ResetSlot \in SlotState /\ ResetSlot.inited /\ Begins(ResetSlot.hashed) /\ 0 <= Size
    BY <1>1, CalmSlots, SizeAssumption
  <2> QED
    BY <1>1, <1>2, <1>4, <2>1, <2>2, <2>3, <2>4, AnswerEnds
<1>5. CASE ~row
  <2>1. Goto(h, "move") /\ client' = client /\ UNCHANGED <<tmp, tmpOld, current, slots>>
    BY <1>5, NoFault DEF CheckDuplicate, disk, memory
  <2>2. Owned /\ Carries /\ Whole /\ Filling
    BY <1>5 DEF CalmInv
  <2>3. /\ handler'[h].pc = "move" /\ handler'[h].owner = handler[h].owner /\ handler'[h].kind = handler[h].kind
        /\ handler'[h].offset = handler[h].offset /\ handler'[h].data = handler[h].data
        /\ handler'[h].slot = handler[h].slot
        /\ \A g \in Handler \ {h} : handler'[g] = handler[g]
    BY <2>1 DEF Goto, TypeInv, TypeOK, Request
  <2>4. handler[h].slot # None
    BY <1>1, <2>2 DEF Owned, Inside
  <2>5. Owned' /\ Carries'
    BY <1>1, <2>1, <2>2, <2>3, <2>4, CalmGoesOn DEF Inside
  <2>6. Got' = Got /\ Whole'
    BY <2>1, <2>2 DEF Got, Bytes, Whole
  <2>7. tmp' # None
    BY <1>1, <2>1, <2>2 DEF Filling
  <2>8. /\ Got \in Nat /\ Got' \in Nat /\ Got <= Got' /\ \A d \in Client : client[d] \in Tab
    BY <2>6, GotNumber DEF TypeInv, TypeOK
  <2>9. (current' # None => ~slots'[current'].done /\ ~slots'[current'].old) /\ ~tmpOld'
    BY <2>1, <2>2 DEF Filling
  <2>10. \E g \in Handler : handler'[g].pc \in {"dup", "move", "save"}
    BY <2>3
  <2>11. Filling'
    BY <1>3, <2>1, <2>2, <2>7, <2>8, <2>9, <2>10, FillingKeeps
  <2> QED
    BY <1>1, <1>5, <2>1, <2>2, <2>5, <2>6, <2>11 DEF CalmInv
<1> QED
  BY <1>4, <1>5

\* The file is moved.
LEMMA CalmMove ==
    ASSUME TypeInv, TypeInv', FileInv, CalmInv, NEW h \in Handler, Move(h)
    PROVE  CalmInv'
<1>1. /\ handler[h].pc = "move" /\ Owns(h) /\ handler[h].kind = "chunk" /\ row' = row
      /\ tmp' = None /\ ~tmpOld' /\ UNCHANGED <<current, slots, client>>
      /\ handler' = [handler EXCEPT ![h].pc = "save", ![h].moved = tmp]
  BY DEF Move, Owns, Inside, CalmInv, Owned, store, memory
<1>2. ~row
  BY <1>1 DEF CalmInv, Trailing
<1>3. Owned /\ Carries /\ Whole /\ Filling
  BY <1>2 DEF CalmInv
<1>4. /\ handler'[h].pc = "save" /\ handler'[h].owner = handler[h].owner /\ handler'[h].kind = handler[h].kind
      /\ handler'[h].offset = handler[h].offset /\ handler'[h].data = handler[h].data
      /\ handler'[h].slot = handler[h].slot
      /\ \A g \in Handler \ {h} : handler'[g] = handler[g]
  BY <1>1 DEF TypeInv, TypeOK, Request
<1>5. handler[h].slot # None
  BY <1>1, <1>3 DEF Owned, Inside
<1>6. Owned' /\ Carries'
  BY <1>1, <1>3, <1>4, <1>5, CalmGoesOn DEF Inside
<1>7. /\ handler[h].slot = current /\ current # None /\ slots[current].inited
      /\ \A g \in Handler \ {h} : handler[g].pc \notin Inside
  BY <1>1, <1>3, CalmOpened DEF FileInv, Sound, Inside
<1>8. Got' = Got /\ Whole'
  BY <1>1, <1>3, <1>7 DEF Got, Whole
<1>9. handler[h].owner \in Client /\ client[handler[h].owner].at # "idle"
  BY <1>1, CalmServed DEF Waiting
<1>10. /\ Got \in Nat /\ Got' \in Nat /\ Got <= Got' /\ \A d \in Client : client[d] \in Tab
  BY <1>8, GotNumber DEF TypeInv, TypeOK
<1>11. (current' # None => ~slots'[current'].done /\ ~slots'[current'].old) /\ ~tmpOld'
  BY <1>1, <1>3 DEF Filling
<1>12. \E g \in Handler : handler'[g].pc \in {"dup", "move", "save"}
  BY <1>4
<1>13. \A g \in Handler : handler'[g].pc \in {"dup", "move"} => tmp' # None
  BY <1>4, <1>7 DEF Inside
<1>14. Filling'
  BY <1>1, <1>3, <1>9, <1>10, <1>11, <1>12, <1>13, FillingKeeps
<1> QED
  BY <1>1, <1>2, <1>3, <1>6, <1>8, <1>14 DEF CalmInv

\* Three different clients are more than two.
LEMMA AtMostTwo ==
    ASSUME Cardinality(Client) <= 2, NEW c \in Client, NEW d \in Client, NEW e \in Client,
           d # c, e # c
    PROVE  d = e
<1> SUFFICES ASSUME d # e PROVE FALSE
  OBVIOUS
<1> DEFINE pair  == {c} \cup {d}
           three == pair \cup {e}
<1>1. IsFiniteSet({c}) /\ Cardinality({c}) = 1
  BY FS_Singleton
<1>2. IsFiniteSet(pair) /\ Cardinality(pair) = 1 + 1
  <2>1. d \notin {c}
    OBVIOUS
  <2>2. IsFiniteSet({c} \cup {d}) /\ Cardinality({c} \cup {d}) = Cardinality({c}) + 1
    BY ONLY <1>1, <2>1, FS_AddElement
  <2> QED
    BY ONLY <1>1, <2>2
<1>3. Cardinality(three) = 1 + 1 + 1
  <2>1. e \notin pair
    OBVIOUS
  <2> HIDE DEF pair
  <2>2. Cardinality(pair \cup {e}) = Cardinality(pair) + 1
    BY ONLY <1>2, <2>1, FS_AddElement
  <2> QED
    BY ONLY <1>2, <2>2
<1>4. three \subseteq Client
  OBVIOUS
<1> HIDE DEF three
<1>5. Cardinality(three) <= Cardinality(Client)
  BY ONLY <1>4, ClientAssumption, FS_Subset
<1>6. Cardinality(Client) \in Nat
  BY ONLY ClientAssumption, FS_CardinalityType
<1> QED
  BY ONLY <1>3, <1>5, <1>6, Cardinality(Client) <= 2

\* Of two, one saves, and only the other may go on.
LEMMA CalmSave ==
    ASSUME TypeInv, TypeInv', FileInv, CalmInv, Few, NEW h \in Handler, Save(h)
    PROVE  CalmInv'
<1>1. /\ handler[h].pc = "save" /\ Owns(h) /\ handler[h].kind = "chunk" /\ ~row /\ row'
      /\ SetSlot(h, [Opened(h) EXCEPT !.done = TRUE]) /\ Answer(h, Reply("created", Size))
      /\ tmp' = tmp /\ tmpOld' = tmpOld
  BY DEF Save, Insert, Owns, Inside, CalmInv, Owned, disk
<1>2. PICK c \in Client : c = handler[h].owner
  BY <1>1, CalmServed
<1>3. client[c].at \in {"chunk", "final"} /\ client[c] \in Tab /\ ~tmpOld /\ Filling
  BY <1>1, <1>2, CalmServed DEF Waiting
<1>4. Owned /\ Carries /\ Whole /\ Size \in Nat /\ Size <= Size
  BY SizeAssumption DEF CalmInv
<1>5. /\ Owned' /\ Carries' /\ \A d \in Client \ {c} : client'[d] = client[d]
      /\ Sends(c)' => client'[c].at = "ready"
      /\ client'[c] = React(client[c], Reply("created", Size))
      /\ handler'[h].pc = "idle" /\ \A g \in Handler \ {h} : handler'[g] = handler[g]
  BY <1>1, <1>2, <1>4, CalmAnswers
<1>6. client'[c].at = "done"
  <2>1. Size \in 0 .. Size
    BY <1>4
  <2> QED
    BY <1>3, <1>5, <2>1, CalmReacts
<1>7. PICK slot : slot = [Opened(h) EXCEPT !.done = TRUE]
  OBVIOUS
<1>8. /\ Opened(h) \in SlotState /\ Opened(h).inited /\ ~Opened(h).old /\ Begins(Opened(h).hashed)
      /\ Len(Opened(h).hashed) = Size
  <2>1. /\ Opened(h) \in SlotState /\ Opened(h).inited /\ ~Opened(h).old /\ Begins(Opened(h).hashed)
    BY <1>1, CalmSlots
  <2>2. Opened(h).hashed = Content
    BY <1>1, OpenedAgrees DEF FileInv, Sound, Inside
  <2> QED
    BY <2>1, <2>2, ContentLength
<1>9. /\ slot \in SlotState /\ slot.inited /\ ~slot.old /\ slot.done /\ slot.hashed = Opened(h).hashed
  BY ONLY <1>7, <1>8 DEF SlotState
<1>10. /\ handler[h].slot = current /\ current \in Slot /\ current # None
       /\ \A g \in Handler \ {h} : handler[g].pc \notin Inside
  BY <1>1, <1>4, CalmOpened
<1>11. current' = current /\ slots'[current'] = slot /\ Got' = Size
  <2>1. SetSlot(h, slot)
    BY <1>1, <1>7
  <2>2. current' = current /\ slots'[current'] = slot /\ Got' = Len(slot.hashed)
    BY <1>9, <1>10, <2>1, CalmSet
  <2> QED
    BY <1>8, <1>9, <2>2
<1>12. Whole'
  BY <1>1, <1>4, <1>8, <1>9, <1>11 DEF Whole
<1>13. \A d \in Client : client'[d].at # "error" /\ (client'[d].at = "done" => row')
  BY <1>1, <1>5, <1>6 DEF CalmInv
<1>14. \A g \in Handler : handler'[g].pc \notin {"move", "save"}
  BY <1>5, <1>10 DEF Inside
<1>15. ASSUME NEW d \in Client, Sends(d)' PROVE d # c
  BY <1>5, <1>6, <1>15
<1>16. ASSUME NEW d \in Client, NEW e \in Client, d # c, e # c PROVE d = e
  <2>1. Cardinality(Client) <= 2
    BY DEF Few
  <2> QED
    BY ONLY <1>2, <1>3, <1>16, <2>1, AtMostTwo
<1>17. ASSUME NEW d \in Client, Sends(d)' PROVE Replays(d)'
  <2>1. client'[d] = client[d]
    BY <1>5, <1>15, <1>17
  <2>2. ASSUME client[d].at \in {"ready", "chunk"}
        PROVE  client[d].mismatches <= Size - 1 /\ client[d].mismatches <= client[d].offset
    <3>1. client[d].mismatches <= client[d].offset /\ client[d].offset < Size
      BY <1>3, <2>2 DEF Filling
    <3>2. client[d] \in Tab
      BY DEF TypeInv, TypeOK
    <3>3. client[d].mismatches \in Nat /\ client[d].offset \in Nat
      BY <3>2, LimitAssumption DEF Tab
    <3> QED
      BY ONLY <1>4, <3>1, <3>3
  <2> QED
    BY <1>11, <2>1, <2>2 DEF Replays
<1>18. Trailing'
  <2>1. \A d, e \in Client : Sends(d)' /\ Sends(e)' => d = e
    BY <1>15, <1>16
  <2>2. current' # None /\ slots'[current'].inited /\ ~slots'[current'].old /\ slots'[current'].done
    BY <1>9, <1>10, <1>11
  <2>3. ~tmpOld'
    BY <1>1, <1>3
  <2> QED
    BY <1>14, <1>17, <2>1, <2>2, <2>3 DEF Trailing
<1> QED
  BY <1>1, <1>5, <1>12, <1>13, <1>18 DEF CalmInv

\* Neither the move nor the save fails.
LEMMA CalmNoFailure ==
    ASSUME TypeInv, CalmInv, Smooth, NEW h \in Handler
    PROVE  /\ ~ReadFails(h) /\ ~WriteFails(h) /\ ~MoveFails(h) /\ ~SaveFails(h) /\ ~SaveUnacked(h)
           /\ ~Overlook(h) /\ ~KeepFails(h) /\ ~Drop(h) /\ ~Crash /\ ~Delete /\ \A c \in Client : ~Leave(c)
<1>1. handler[h].pc = "move" => tmp # None
  BY DEF CalmInv, Trailing, Filling
<1>2. handler[h].pc = "save" => ~row
  BY DEF CalmInv, Trailing
<1> QED
  BY <1>1, <1>2, NoFault DEF ReadFails, WriteFails, MoveFails, SaveFails, SaveUnacked, Overlook,
     KeepFails, Drop, Crash, Delete, Leave

\* Nothing grows old while a tab that sends counts on it.
LEMMA CalmAround ==
    ASSUME TypeInv, TypeInv', FileInv, CalmInv, Smooth,
           MinutesPass \/ DayPasses \/ SweepSlot \/ SweepFile
    PROVE  CalmInv'
<1>1. handler' = handler /\ client' = client /\ row' = row
  BY DEF MinutesPass, DayPasses, SweepSlot, SweepFile, store
<1>2. Owned /\ Carries /\ Whole
  BY DEF CalmInv
<1>3. Owned' /\ Carries' /\ \A d \in Client : Sends(d)' <=> Sends(d)
  BY <1>1, <1>2 DEF Owned, Carries, Sends
<1>4. Whole'
  <2>1. CASE MinutesPass
    <3>1. /\ current' = current /\ tmp' = tmp /\ current # None
          /\ slots' = [slots EXCEPT ![current].old = TRUE]
      BY <2>1 DEF MinutesPass, disk
    <3>2. slots'[current].hashed = slots[current].hashed
      BY <3>1 DEF TypeInv, TypeOK, SlotState
    <3> QED
      BY <1>2, <3>1, <3>2 DEF Whole
  <2>2. CASE DayPasses
    <3>1. /\ current' = current /\ tmp' = tmp
          /\ slots' = [s \in Slot |-> [slots[s] EXCEPT !.old = @ \/ s = current]]
      BY <2>2 DEF DayPasses
    <3>2. current # None => slots'[current].hashed = slots[current].hashed
      BY <3>1 DEF TypeInv, TypeOK, SlotState
    <3> QED
      BY <1>2, <3>1, <3>2 DEF Whole
  <2>3. CASE SweepSlot
    BY <1>2, <2>3 DEF SweepSlot, Whole, disk
  <2>4. CASE SweepFile
    BY <1>2, <2>4 DEF SweepFile, Whole, memory
  <2> QED
    BY <2>1, <2>2, <2>3, <2>4
<1>5. ASSUME MinutesPass \/ DayPasses
      PROVE  row /\ \A d \in Client : ~Sends(d)
  <2>1. TimePasses /\ (current # None \/ tmp # None)
    BY <1>5 DEF MinutesPass, DayPasses
  <2>2. /\ \A g \in Handler : handler[g].pc = "idle"
        /\ \A d \in Client : client[d].at \in {"idle", "done", "error"}
    BY <2>1, NoFault DEF TimePasses
  <2>3. \A d \in Client : ~Sends(d)
    BY <2>2 DEF Sends
  <2>4. ~row => \A d \in Client : client[d].at = "idle"
    BY <2>2 DEF CalmInv
  <2>5. row
    BY <2>1, <2>4 DEF CalmInv, Filling
  <2> QED
    BY <2>3, <2>5
<1>6. ASSUME SweepSlot PROVE row /\ \A d \in Client : ~Sends(d)
  BY <1>6 DEF SweepSlot, CalmInv, Filling, Trailing
<1>7. ASSUME SweepFile PROVE row /\ \A d \in Client : ~Sends(d)
  BY <1>7 DEF SweepFile, CalmInv, Filling, Trailing
<1>8. row /\ Trailing /\ \A d \in Client : ~Sends(d)'
  BY <1>3, <1>5, <1>6, <1>7 DEF CalmInv
<1>9. Trailing'
  BY <1>1, <1>8 DEF Trailing
<1> QED
  BY <1>1, <1>3, <1>4, <1>8, <1>9 DEF CalmInv

\* Failures are counted, and never forgotten.
LEMMA Counted ==
    ASSUME [Next]_vars
    PROVE  /\ faults' \in {faults, faults + 1}
           /\ upsets' \in {upsets, upsets + 1}
<1>1. CASE UNCHANGED vars
  BY <1>1 DEF vars, bounds
<1>2. ASSUME NEW c \in Client, Start(c) \/ Loop(c) \/ Leave(c)
      PROVE  faults' \in {faults, faults + 1} /\ upsets' = upsets
  BY <1>2 DEF Start, Loop, SendChunk, SendFinal, Leave, Fault, bounds
<1>3. ASSUME NEW h \in Handler,
             Lookup(h) \/ GetHandle(h) \/ Permit(h) \/ Report(h) \/ ReadFails(h) \/ Overlook(h)
      PROVE  faults' \in {faults, faults + 1} /\ upsets' \in {upsets, upsets + 1}
  BY <1>3 DEF Lookup, GetHandle, Permit, Report, ReadFails, Overlook, Fault, Upset, bounds
<1>4. ASSUME NEW h \in Handler, AppendChunk(h)
      PROVE  faults' \in {faults, faults + 1} /\ upsets' \in {upsets, upsets + 1}
  BY <1>4 DEF AppendChunk, Overfull, Replay, Reupload, Accept, Finalize, Write, WriteFails, Verify,
              Discard, Fault, Upset, bounds
<1>5. ASSUME NEW h \in Handler, FinalizeSlot(h)
      PROVE  faults' \in {faults, faults + 1} /\ upsets' \in {upsets, upsets + 1}
  BY <1>5 DEF FinalizeSlot, CheckDuplicate, Move, MoveFails, KeepFails, Save, SaveFails,
              SaveUnacked, Discard, Fault, Upset, bounds
<1>6. ASSUME NEW h \in Handler, Drop(h)
      PROVE  faults' \in {faults, faults + 1} /\ upsets' \in {upsets, upsets + 1}
  BY <1>6 DEF Drop, Fault, Upset
<1>7. ASSUME Crash \/ MinutesPass \/ DayPasses \/ SweepSlot \/ SweepFile \/ Delete
      PROVE  faults' \in {faults, faults + 1} /\ upsets' \in {upsets, upsets + 1}
  BY <1>7 DEF Crash, MinutesPass, DayPasses, SweepSlot, SweepFile, Delete, TimePasses, Fault, Upset
<1> QED
  BY <1>1, <1>2, <1>3, <1>4, <1>5, <1>6, <1>7 DEF Next, Serve

\* A step of a request.
LEMMA CalmServe ==
    ASSUME TypeInv, TypeInv', FileInv, CalmInv, Smooth, Few, NEW h \in Handler, Serve(h)
    PROVE  CalmInv'
<1>1. CASE Lookup(h) \/ GetHandle(h) \/ Permit(h) \/ Report(h) \/ ReadFails(h) \/ Overlook(h)
  BY <1>1, CalmLookup, CalmWait, CalmReport, CalmNoFailure
<1>2. CASE AppendChunk(h)
  BY <1>2, CalmNever, CalmReplay, CalmReupload, CalmAccept, CalmWrite, CalmNoFailure DEF AppendChunk
<1>3. CASE FinalizeSlot(h)
  BY <1>3, CalmCheck, CalmMove, CalmSave, CalmNoFailure DEF FinalizeSlot
<1> QED
  BY <1>1, <1>2, <1>3 DEF Serve

\* A step of the system.
LEMMA CalmStep ==
    ASSUME TypeInv, TypeInv', FileInv, CalmInv, Smooth, Few, [Next]_vars
    PROVE  CalmInv'
<1>1. CASE UNCHANGED vars
  <2>1. UNCHANGED <<row, tmp, tmpOld, current, slots, handler, client>>
    BY <1>1 DEF vars, store, disk, memory
  <2>2. Owned' /\ Carries' /\ Whole' /\ Got' = Got
    BY <2>1 DEF CalmInv, Owned, Carries, Whole, Got, Bytes
  <2>3. Filling => Filling'
    BY <2>1, <2>2 DEF Filling
  <2>4. Trailing => Trailing'
    <3>1. \A d \in Client : (Sends(d)' <=> Sends(d)) /\ (Repeats(d) => Repeats(d)')
      BY <2>1, <2>2 DEF Sends, Repeats
    <3>2. Trailing => \A g \in Handler : handler'[g].pc \notin {"move", "save"}
      BY <2>1 DEF Trailing
    <3> QED
      BY <2>1, <2>2, <3>1, <3>2, TrailingKeeps
  <2> QED
    BY <2>1, <2>2, <2>3, <2>4 DEF CalmInv
<1>2. ASSUME NEW c \in Client, Start(c) \/ Loop(c) PROVE CalmInv'
  BY <1>2, CalmStart, CalmLoop
<1>3. ASSUME NEW c \in Client, Leave(c) PROVE CalmInv'
  BY <1>3, NoFault DEF Leave
<1>4. ASSUME NEW h \in Handler, Serve(h) PROVE CalmInv'
  BY <1>4, CalmServe
<1>5. ASSUME NEW h \in Handler, Drop(h) PROVE CalmInv'
  BY <1>5, CalmNoFailure
<1>6. CASE Crash \/ Delete
  BY <1>6, NoFault DEF Crash, Delete
<1>7. CASE MinutesPass \/ DayPasses \/ SweepSlot \/ SweepFile
  BY <1>7, CalmAround
<1> QED
  BY <1>1, <1>2, <1>3, <1>4, <1>5, <1>6, <1>7 DEF Next

\* At the start nothing is received.
LEMMA CalmInit == Init => CalmInv
<1> SUFFICES ASSUME Init PROVE CalmInv
  OBVIOUS
<1>1. /\ row = FALSE /\ tmp = None /\ tmpOld = FALSE /\ current = None
      /\ \A h \in Handler : handler[h] = NoRequest
      /\ \A c \in Client : client[c].at = "idle"
  BY DEF Init, NewTab
<1>2. NoRequest.pc = "idle" /\ NoRequest.owner \notin Client
  BY NoneAssumption DEF NoRequest
<1>3. Owned /\ Carries /\ Whole
  BY <1>1, <1>2 DEF Owned, Carries, Whole, Inside
<1>4. Got < Size
  <2>1. Got = 0
    BY <1>1 DEF Got, Bytes
  <2> QED
    BY <2>1, SizeAssumption
<1>5. Filling
  BY <1>1, <1>2, <1>4 DEF Filling
<1> QED
  BY <1>1, <1>3, <1>5 DEF CalmInv

\* Without failures no tab gives up, when there are two at most and the content is not too
\* long for the corrections that a tab is allowed.
THEOREM UndisturbedTabsSucceed == Spec => []UndisturbedSucceeds
<1> DEFINE AllCalm == Few /\ Calm => FileInv /\ CalmInv
<1>1. Init => AllCalm
  BY FileInit, CalmInit
<1>2. TypeInv /\ TypeInv' /\ AllCalm /\ [Next]_vars => AllCalm'
  <2> SUFFICES ASSUME TypeInv, TypeInv', AllCalm, [Next]_vars, Few, faults' = 0, upsets' = 0
               PROVE  FileInv' /\ CalmInv'
    BY DEF Calm, Few
  <2>1. faults = 0 /\ upsets = 0
    <3>1. faults \in Nat /\ upsets \in Nat
      BY LimitAssumption DEF TypeInv, TypeOK
    <3> QED
      BY <3>1, Counted
  <2>2. Smooth /\ FileInv /\ CalmInv
    BY <2>1 DEF Smooth, Calm
  <2>3. FileInv'
    BY <2>2, FileStep DEF Mild, Smooth
  <2>4. CalmInv'
    BY <2>2, CalmStep
  <2> QED
    BY <2>3, <2>4
<1>3. AllCalm => UndisturbedSucceeds
  BY DEF UndisturbedSucceeds, Few, Calm, CalmInv
<1> HIDE DEF AllCalm
<1> QED
  BY <1>1, <1>2, <1>3, TypeInvariant, PTL DEF Spec
=============================================================================
