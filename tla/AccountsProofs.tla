--------------------------- MODULE AccountsProofs ---------------------------
(***************************************************************************)
(* What TLAPS proves of Accounts and GatewayLogin, for every number of     *)
(* accounts, sessions, mailed links, requests and gateway flows.           *)
(*                                                                         *)
(* BaseRight is the invariant all others rest on: the tables and requests  *)
(* have their types, ids are issued in order, a live session has an        *)
(* existing account (StoreRight), and what a request carries fits the step *)
(* it is at (Control).  On it stand, each with its own step lemmas:        *)
(*   SessionsRight  a request that is to issue a session has the password  *)
(*                  or the subject of the account, and its revocation      *)
(*                  behind it;                                             *)
(*   CacheRight     a cached row belongs to the user of its token, and a   *)
(*                  logout finds its token uncached;                       *)
(*   MailsRight     an open link, and a request that sends or follows one, *)
(*                  has the address of its account;                        *)
(*   OpenedRight    an account a gateway login opened is on its way to be  *)
(*                  linked and approved, or deleted;                       *)
(*   FlowsRight, CodesRight  flows are handed a code once, codes are       *)
(*                  numbered by age.                                       *)
(* A step is one of a request (Step) or one around the requests (Around).  *)
(* Calm(F) says that a step leaves what sessions and accounts rest on      *)
(* alone, but for the fields F of accounts.                                *)
(***************************************************************************)
EXTENDS GatewayLogin, FiniteSetTheorems, TLAPS

\* Steps that leave the media sessions in Redis as they are, or only take some out.
LEMMA MediaUntouched ==
  ASSUME MediaIndexed, redis' \subseteq redis, UNCHANGED <<index, orphaned>>
  PROVE  MediaIndexed'
BY DEF MediaIndexed

\* The requests, as they arrive.
LEMMA ArriveKeeps ==
  ASSUME NEW r \in Requests, Arrive(r)
  PROVE  UNCHANGED <<redis, index, orphaned>>
<1> USE DEF Call, mediaVars
<1>1. \A op, u, m, p : Bearer(r, op, u, m, p) => UNCHANGED <<redis, index, orphaned>>
  BY DEF Bearer
<1> QED
  BY <1>1 DEF Arrive, Register, Login, GuestSession, Logout, ForgotPassword, ResetPassword,
     VerifyEmailLink, MediaRequest, Use, SendVerificationEmail, ChangeEmail, Administer, AdminResetPassword

\* The steps of a request that have nothing to do with the media sessions.
LEMMA ProceedKeeps ==
  ASSUME NEW r \in Requests, Proceed(r),
         ~InvalidateMediaAuthUser(r), ~InvalidateMediaAuthToken(r), ~MediaFill(r), ~MediaPut(r)
  PROVE  UNCHANGED <<redis, index, orphaned>>
<1> USE DEF mediaVars
<1>1. CASE \/ FindByToken(r) \/ Fill(r) \/ Admit(r) \/ Uncache(r) \/ MediaMembers(r) \/ CountStep(r)
           \/ NameStep(r) \/ CreateStep(r) \/ LoginStep(r) \/ Revoke(r) \/ Issue(r) \/ NewGuest(r)
           \/ Ignore(r)
  BY <1>1 DEF FindByToken, Fill, Admit, Uncache, MediaMembers, CountStep, NameStep, CreateStep,
              LoginStep, Revoke, Issue, NewGuest, Ignore
<1>2. CASE \/ MergeOwner(r) \/ MergeGuest(r) \/ MediaOwner(r) \/ Forget(r) \/ DeleteTokenStep(r)
           \/ Reauthenticate(r) \/ ChangeEmailStep(r) \/ ReadAddress(r) \/ SendLink(r)
           \/ ForgetfulUser(r) \/ ResetLink(r) \/ Consume(r) \/ Verify(r) \/ SetPassword(r)
  BY <1>2 DEF MergeOwner, MergeGuest, MediaOwner, Forget, DeleteTokenStep, Reauthenticate,
              ChangeEmailStep, ReadAddress, SendLink, ForgetfulUser, ResetLink, Consume, Verify, SetPassword
<1>3. CASE DropTokens(r) \/ DropUser(r) \/ Kick(r) \/ Approve(r) \/ Toggle(r) \/ MediaLocal(r) \/ MediaRedis(r)
  BY <1>3 DEF DropTokens, DropUser, Kick, Approve, Toggle, MediaLocal, MediaRedis
<1> QED
  BY <1>1, <1>2, <1>3 DEF Proceed

\* The steps of the gateway login leave them alone too.
LEMMA SignInKeeps ==
  ASSUME NEW r \in Requests, SignIn(r)
  PROVE  UNCHANGED <<redis, index, orphaned>>
BY DEF SignIn, BySub, ByMail, Candidate, OpenAccount, LinkNew, LinkOwner, SignInOwner, OpenApprove,
       OpenMail, OpenAddress, GoOn, HandOver, unchangedHere, mediaVars

LEMMA GatewayKeeps ==
  ASSUME \/ Start \/ (\E f \in pending : PendingAfterTTL(f) \/ \E r \in Requests : Callback(r, f))
         \/ (\E c \in codes : Exchange(c)) \/ Restart
  PROVE  UNCHANGED <<redis, index, orphaned>>
BY DEF Start, PendingAfterTTL, Callback, Call, Exchange, Restart, Crash, mediaVars

\* Time takes sessions out, and a set of a user only when none of its sessions is left.
LEMMA EnvironmentMedia ==
  ASSUME MediaIndexed, Environment
  PROVE  MediaIndexed'
<1> USE DEF mediaVars
<1>1. ASSUME NEW t \in Tokens, MediaAfterTTL(t) PROVE MediaIndexed'
  BY <1>1 DEF MediaAfterTTL, MediaIndexed
<1>2. ASSUME NEW t \in Tokens, UncacheAfterTTL(t) \/ Expire(t) PROVE MediaIndexed'
  BY <1>2, MediaUntouched DEF UncacheAfterTTL, Expire
<1>3. CASE Cleanup \/ \E r \in Requests : Drop(r)
  BY <1>3, MediaUntouched DEF Cleanup, Drop
<1> QED
  BY <1>1, <1>2, <1>3 DEF Environment

\* The steps that work on the media sessions: the put writes the session and the set, the
\* removal of a session leaves the set, and the removal of a set marks what came in between.
LEMMA ProceedMedia ==
  ASSUME MediaIndexed, NEW r \in Requests, Proceed(r)
  PROVE  MediaIndexed'
<1>1. CASE InvalidateMediaAuthUser(r)
  BY <1>1 DEF InvalidateMediaAuthUser, MediaIndexed
<1>2. CASE InvalidateMediaAuthToken(r)
  BY <1>2, MediaUntouched DEF InvalidateMediaAuthToken
<1>3. CASE MediaFill(r)
  BY <1>3, MediaUntouched DEF MediaFill
<1>4. CASE MediaPut(r)
  BY <1>4 DEF MediaPut, MediaIndexed
<1> QED
  BY <1>1, <1>2, <1>3, <1>4, ProceedKeeps, MediaUntouched

\* Every media session in Redis is in the set of its user, or was put between the two
\* steps of an invalidation, whatever requests, logins, expiries and crashes meet.
THEOREM MediaIsIndexed == Spec => []MediaIndexed
<1>1. Init => MediaIndexed
  BY DEF Init, InitAccounts, MediaIndexed
<1>2. MediaIndexed /\ [Next]_vars => MediaIndexed'
  <2> SUFFICES ASSUME MediaIndexed, [Next]_vars PROVE MediaIndexed'
    OBVIOUS
  <2>1. CASE UNCHANGED vars
    BY <2>1, MediaUntouched DEF vars, mediaVars
  <2>2. ASSUME NEW r \in Requests, Arrive(r) \/ Proceed(r) \/ SignIn(r) PROVE MediaIndexed'
    BY <2>2, ArriveKeeps, ProceedMedia, SignInKeeps, MediaUntouched
  <2> QED
    BY <2>1, <2>2, EnvironmentMedia, GatewayKeeps, MediaUntouched DEF Next
<1> QED
  BY <1>1, <1>2, PTL DEF Spec

-----------------------------------------------------------------------------
(* How a request goes on.                                                  *)

\* The operations behind bearer_auth.
BearerOps == Targeted \cup {"setpw", "use", "send", "email"}

\* What a request that is to look a token up goes on with, by its operation.
LookupRight(q) ==
  /\ q.probe \in Tokens
  /\ \/ q.then = "admit" /\ q.op \in BearerOps
     \/ q.then = "forget" /\ q.op = "logout"
     \/ q.then = "mediafill" /\ q.op = "media" /\ q.token \in Tokens
     \/ q.then \in {"merge", "mergeguest"} /\ q.op \in {"register", "login"} /\ q.new \in Tokens
     \/ q.then = "mediaowner" /\ q.op = "login"

\* What is known of a request by the step it is at.
InSteps(q, steps, ops) == q.at \in steps => q.op \in ops

Control(q) ==
  /\ q.op # "gateway" => q.sub = None
  /\ q.op = "gateway" => q.sub \in Subs
  /\ InSteps(q, {"idle"}, {"idle"})
  /\ q.at \in {"lookup", "fill"} => LookupRight(q)
  /\ InSteps(q, {"admit"}, BearerOps)
  /\ InSteps(q, {"email", "setemail"}, {"email"})
  /\ InSteps(q, {"forget", "deltoken", "untoken"}, {"logout"})
  /\ InSteps(q, {"merge", "mergeguest"}, {"register", "login"})
  /\ InSteps(q, {"mediaowner", "login"}, {"login"})
  /\ InSteps(q, {"count", "name", "create"}, {"register"})
  /\ InSteps(q, {"newguest"}, {"guest"})
  /\ InSteps(q, {"kick"}, {"kick"})
  /\ InSteps(q, {"setpw"}, {"setpw", "reset"})
  /\ InSteps(q, {"consume"}, {"reset", "verify"})
  /\ InSteps(q, {"media", "mediaredis", "mediafill", "mediaput"}, {"media"})
  /\ InSteps(q, {"dropuser", "drop", "delete", "reject"}, {"delete", "reject", "gateway"})
  /\ InSteps(q, {"bysub", "bymail", "candidate", "open", "linknew", "linkowner", "owner",
                 "openapprove", "openmail", "openaddress", "code"}, {"gateway"})
  /\ q.at \in {"delete", "reject"} => q.op = q.at
  /\ q.at \in {"drop", "dropuser"} /\ q.op = "gateway" => q.then \in {"owner", "gone"}
  /\ q.at \in {"merge", "mergeguest", "code"} => q.new \in Tokens
  /\ q.at \in {"login", "revoke"} /\ q.op = "login" => q.then = "done"
  /\ q.at = "uncache" /\ q.op = "login" /\ q.then = "merged" => q.new \in Tokens
  /\ q.at \in {"media", "mediaredis", "mediafill", "mediaput"} => q.token \in Tokens
  /\ q.at = "consume" => q.link \in Links
  /\ q.at \in {"bymail", "candidate", "open"} => q.after \in 1..Len(Candidates)
  /\ q.at = "linkowner" => q.row \in User /\ q.row.id = q.user

\* A request stays one when a field is replaced.
LEMMA SetField ==
  ASSUME NEW q \in Request
  PROVE  /\ \A x \in Steps : [q EXCEPT !.at = x] \in Request
         /\ \A x \in Nexts : [q EXCEPT !.then = x] \in Request
         /\ \A x \in Tokens \cup {0} : [q EXCEPT !.token = x] \in Request
         /\ \A x \in Tokens \cup {0} : [q EXCEPT !.cookie = x] \in Request
         /\ \A x \in Tokens \cup {0} : [q EXCEPT !.probe = x] \in Request
         /\ \A x \in Accounts \cup {0} : [q EXCEPT !.user = x] \in Request
         /\ \A x \in Accounts \cup {0} : [q EXCEPT !.victim = x] \in Request
         /\ \A x \in User \cup {NoUser} : [q EXCEPT !.row = x] \in Request
         /\ \A x \in Tokens \cup {0} : [q EXCEPT !.new = x] \in Request
         /\ \A x \in Nat : [q EXCEPT !.after = x] \in Request
         /\ \A x \in Names \cup {None} : [q EXCEPT !.name = x] \in Request
         /\ \A x \in Passwords \cup {None} : [q EXCEPT !.pw = x] \in Request
         /\ \A x \in Emails \cup {None} : [q EXCEPT !.mail = x] \in Request
         /\ \A x \in Links \cup {0} : [q EXCEPT !.link = x] \in Request
         /\ \A x \in Subs \cup {None} : [q EXCEPT !.sub = x] \in Request
         /\ \A x \in BOOLEAN : [q EXCEPT !.verified = x] \in Request
         /\ \A x \in {Viewer, Admin} : [q EXCEPT !.role = x] \in Request
         /\ \A x \in SUBSET Tokens : [q EXCEPT !.members = x] \in Request
         /\ \A x \in Ops : [q EXCEPT !.op = x] \in Request
<1> USE DEF Request
<1>1. \A x \in Steps : [q EXCEPT !.at = x] \in Request
  OBVIOUS
<1>2. \A x \in Nexts : [q EXCEPT !.then = x] \in Request
  OBVIOUS
<1>3. \A x \in Tokens \cup {0} : [q EXCEPT !.token = x] \in Request
  OBVIOUS
<1>4. \A x \in Tokens \cup {0} : [q EXCEPT !.cookie = x] \in Request
  OBVIOUS
<1>5. \A x \in Tokens \cup {0} : [q EXCEPT !.probe = x] \in Request
  OBVIOUS
<1>6. \A x \in Accounts \cup {0} : [q EXCEPT !.user = x] \in Request
  OBVIOUS
<1>7. \A x \in Accounts \cup {0} : [q EXCEPT !.victim = x] \in Request
  OBVIOUS
<1>8. \A x \in User \cup {NoUser} : [q EXCEPT !.row = x] \in Request
  OBVIOUS
<1>9. \A x \in Tokens \cup {0} : [q EXCEPT !.new = x] \in Request
  OBVIOUS
<1>10. \A x \in Nat : [q EXCEPT !.after = x] \in Request
  OBVIOUS
<1>11. \A x \in Names \cup {None} : [q EXCEPT !.name = x] \in Request
  OBVIOUS
<1>12. \A x \in Passwords \cup {None} : [q EXCEPT !.pw = x] \in Request
  OBVIOUS
<1>13. \A x \in Emails \cup {None} : [q EXCEPT !.mail = x] \in Request
  OBVIOUS
<1>14. \A x \in Links \cup {0} : [q EXCEPT !.link = x] \in Request
  OBVIOUS
<1>15. \A x \in Subs \cup {None} : [q EXCEPT !.sub = x] \in Request
  OBVIOUS
<1>16. \A x \in BOOLEAN : [q EXCEPT !.verified = x] \in Request
  OBVIOUS
<1>17. \A x \in {Viewer, Admin} : [q EXCEPT !.role = x] \in Request
  OBVIOUS
<1>18. \A x \in SUBSET Tokens : [q EXCEPT !.members = x] \in Request
  OBVIOUS
<1>19. \A x \in Ops : [q EXCEPT !.op = x] \in Request
  OBVIOUS
<1> QED
  BY <1>1, <1>2, <1>3, <1>4, <1>5, <1>6, <1>7, <1>8, <1>9, <1>10, <1>11, <1>12, <1>13, <1>14, <1>15,
     <1>16, <1>17, <1>18, <1>19

\* An idle request is in order.
LEMMA IdleRight == Idle \in Request /\ Control(Idle)
<1>1. Idle \in Request
  BY IdsAssumption DEF Idle, Request, NoUser, Viewer, Admin, Ops, Steps, Nexts
<1> QED
  BY <1>1 DEF Idle, Control, InSteps

ReqRight == req \in [Requests -> Request] /\ \A s \in Requests : Control(req[s])

\* A request that goes on in order leaves all of them so.
LEMMA GoRight ==
  ASSUME ReqRight, NEW r \in Requests, NEW n \in Request, Control(n), Go(r, n)
  PROVE  ReqRight'
BY DEF ReqRight, Go

\* What a request that has just come starts from.
LEMMA AskedRight ==
  ASSUME NEW op \in Ops, NEW at \in Steps
  PROVE  /\ Asked(op, at) \in Request
         /\ Asked(op, at).op = op /\ Asked(op, at).at = at /\ Asked(op, at).sub = None
         /\ Asked(op, at).then = "done"
<1>1. [Idle EXCEPT !.op = op] \in Request
  BY SetField, IdleRight
<1>2. Asked(op, at) \in Request
  BY <1>1, SetField DEF Asked
<1> QED
  BY <1>2 DEF Asked, Idle

\* The fields of a request.
Fields == {"op", "at", "then", "token", "cookie", "probe", "user", "victim", "row", "new", "after",
           "name", "pw", "mail", "link", "sub", "verified", "role", "members", "crossed"}

\* From q to n only some fields change.
Alters(q, n, fields) == \A f \in Fields \ fields : n[f] = q[f]

\* A step of a request changes some of its fields, and marks others at most.
Becomes(r, fields) ==
  /\ req' \in [Requests -> Request]
  /\ Alters(req[r], req'[r], fields)
  /\ \A o \in Requests \ {r} :
       Alters(req[o], req'[o], {"crossed"}) /\ req[o].crossed \subseteq req'[o].crossed

Moves(r, steps) == Becomes(r, {"at"}) /\ req'[r].at \in steps
Ends(r) == Becomes(r, Fields) /\ req'[r] = Idle

\* How a request goes on: with other fields, to another step, or to its end.
LEMMA GoBecomes ==
  ASSUME ReqRight, NEW r \in Requests, NEW n \in Request, Go(r, n),
         NEW F, Alters(req[r], n, F)
  PROVE  Becomes(r, F) /\ req'[r] = n
BY DEF ReqRight, Go, Becomes, Alters, Fields, Request

LEMMA DoneEnds == ASSUME ReqRight, NEW r \in Requests, Done(r) PROVE Ends(r)
<1>1. Alters(req[r], Idle, Fields)
  BY DEF Alters
<1> QED
  BY <1>1, GoBecomes, IdleRight DEF Done, Ends

LEMMA MoveMoves ==
  ASSUME ReqRight, NEW r \in Requests, NEW s \in Steps, Move(r, s)
  PROVE  Becomes(r, {"at"}) /\ req'[r].at = s
<1>1. req[r] \in Request
  BY DEF ReqRight
<1>2. Alters(req[r], [req[r] EXCEPT !.at = s], {"at"}) /\ [req[r] EXCEPT !.at = s].at = s
  BY <1>1 DEF Request, Alters, Fields
<1> QED
  BY <1>1, <1>2, GoBecomes, SetField DEF Move

\* What the others do stays right; so does a request that ends.
LEMMA BecomesRight ==
  ASSUME ReqRight, NEW r \in Requests, NEW F, Becomes(r, F), Control(req'[r])
  PROVE  ReqRight'
<1>1. ASSUME NEW o \in Requests \ {r} PROVE Control(req'[o])
  BY <1>1 DEF ReqRight, Becomes, Alters, Fields, Control, InSteps, LookupRight
<1> QED
  BY <1>1 DEF ReqRight, Becomes

\* The end of a request, and the moves that no other field decides, are in order.
LEMMA EndsRight == ASSUME ReqRight, NEW r \in Requests, Ends(r) PROVE ReqRight'
BY BecomesRight, IdleRight DEF Ends

LEMMA MovesRight ==
  ASSUME ReqRight, NEW r \in Requests, Becomes(r, {"at"}),
         <<req[r].at, req'[r].at>> \in
           {<<"name", "create">>, <<"forget", "deltoken">>, <<"deltoken", "untoken">>,
            <<"email", "setemail">>, <<"delete", "dropuser">>, <<"reject", "dropuser">>,
            <<"drop", "dropuser">>, <<"dropuser", "uncache">>, <<"kick", "uncache">>,
            <<"setpw", "uncache">>, <<"media", "mediaredis">>, <<"mediafill", "mediaput">>,
            <<"bymail", "candidate">>, <<"linknew", "openapprove">>, <<"linkowner", "owner">>,
            <<"openapprove", "issue">>, <<"openapprove", "openmail">>, <<"openmail", "issue">>,
            <<"openmail", "openaddress">>, <<"openaddress", "issue">>,
            <<"uncache", "issue">>, <<"uncache", "unmedia">>, <<"unindex", "issue">>,
            <<"unmedia", "issue">>}
  PROVE  ReqRight'
<1>1. Control(req'[r])
  BY DEF ReqRight, Becomes, Alters, Fields, Control, InSteps
<1> QED
  BY <1>1, BecomesRight

\* The steps that end a request or take it to the next step, and change nothing else in it.
LEMMA FillEffect == ASSUME ReqRight, NEW r \in Requests, Fill(r)
  PROVE req[r].at = "fill" /\ Moves(r, {req[r].then}) /\ ReqRight'
<1>1. req[r].at = "fill" /\ req[r].then \in Steps
  BY DEF Fill, At, ReqRight, Request, Control, LookupRight, Steps
<1>2. Moves(r, {req[r].then})
  BY <1>1, MoveMoves DEF Fill, Moves
<1>3. Control(req'[r])
  BY <1>1, <1>2 DEF ReqRight, Moves, Becomes, Alters, Fields, Control, InSteps, LookupRight, BearerOps, Targeted
<1> QED
  BY <1>1, <1>2, <1>3, BecomesRight DEF Moves

\* The steps that only move their request on, with where they come from and lead to.
LEMMA MoveEffects ==
  ASSUME ReqRight, NEW r \in Requests
  PROVE  /\ NameStep(r) => req[r].at = "name" /\ (Ends(r) \/ Moves(r, {"create"}))
         /\ Forget(r) => req[r].at = "forget" /\ Moves(r, {"deltoken"})
         /\ DeleteTokenStep(r) => req[r].at = "deltoken" /\ Moves(r, {"untoken"})
         /\ Reauthenticate(r) => req[r].at = "email" /\ (Ends(r) \/ Moves(r, {"setemail"}))
         /\ DropTokens(r) => req[r].at \in {"delete", "reject", "drop"} /\ Moves(r, {"dropuser"})
         /\ DropUser(r) => req[r].at = "dropuser" /\ Moves(r, {"uncache"})
         /\ Kick(r) => req[r].at = "kick" /\ Moves(r, {"uncache"})
         /\ MediaLocal(r) => req[r].at = "media" /\ (Ends(r) \/ Moves(r, {"mediaredis"}))
         /\ MediaFill(r) => req[r].at = "mediafill" /\ (Ends(r) \/ Moves(r, {"mediaput"}))
         /\ OpenApprove(r) => req[r].at = "openapprove" /\ Moves(r, {"issue", "openmail"})
         /\ OpenMail(r) => req[r].at = "openmail" /\ Moves(r, {"issue", "openaddress"})
<1> USE DoneEnds, MoveMoves DEF Moves, At, Steps
<1>1. NameStep(r) => req[r].at = "name" /\ (Ends(r) \/ Moves(r, {"create"}))
  BY DEF NameStep
<1>2. Forget(r) => req[r].at = "forget" /\ Moves(r, {"deltoken"})
  BY DEF Forget
<1>3. DeleteTokenStep(r) => req[r].at = "deltoken" /\ Moves(r, {"untoken"})
  BY DEF DeleteTokenStep
<1>4. Reauthenticate(r) => req[r].at = "email" /\ (Ends(r) \/ Moves(r, {"setemail"}))
  BY DEF Reauthenticate
<1>5. DropTokens(r) => req[r].at \in {"delete", "reject", "drop"} /\ Moves(r, {"dropuser"})
  BY DEF DropTokens
<1>6. DropUser(r) => req[r].at = "dropuser" /\ Moves(r, {"uncache"})
  BY DEF DropUser
<1>7. Kick(r) => req[r].at = "kick" /\ Moves(r, {"uncache"})
  BY DEF Kick
<1>8. MediaLocal(r) => req[r].at = "media" /\ (Ends(r) \/ Moves(r, {"mediaredis"}))
  BY DEF MediaLocal
<1>9. MediaFill(r) => req[r].at = "mediafill" /\ (Ends(r) \/ Moves(r, {"mediaput"}))
  BY DEF MediaFill
<1>10. OpenApprove(r) => req[r].at = "openapprove" /\ Moves(r, {"issue", "openmail"})
  BY DEF OpenApprove, AfterApprove, Move
<1>11. OpenMail(r) => req[r].at = "openmail" /\ Moves(r, {"issue", "openaddress"})
  BY DEF OpenMail, Move
<1> QED
  BY <1>1, <1>2, <1>3, <1>4, <1>5, <1>6, <1>7, <1>8, <1>9, <1>10, <1>11

\* The steps that only end it.
LEMMA EndEffects ==
  ASSUME ReqRight, NEW r \in Requests,
         \/ InvalidateMediaAuthToken(r) \/ SendLink(r) \/ ResetLink(r) \/ Verify(r) \/ Approve(r)
         \/ Toggle(r) \/ MediaPut(r) \/ HandOver(r) \/ Drop(r)
  PROVE  Ends(r)
BY DoneEnds DEF InvalidateMediaAuthToken, SendLink, ResetLink, Verify, Approve, Toggle, MediaPut, HandOver, Drop

\* A step that also looks a token up.
LEMMA SeekBecomes ==
  ASSUME NEW q \in Request, NEW t \in Tokens \cup {0}, NEW s \in Nexts
  PROVE  LET n == Seek(q, t, s)
         IN /\ n \in Request /\ Alters(q, n, {"at", "probe", "then"})
            /\ n.at = "lookup" /\ n.probe = t /\ n.then = s
<1>1. Seek(q, t, s) \in Request
  BY SetField DEF Seek, Steps
<1> QED
  BY <1>1 DEF Seek, Request, Alters, Fields

\* The look-up of a token: nothing known, a cached row, or a row to be cached.
LEMMA FindEffect ==
  ASSUME StoreTypeOK, ReqRight, NEW r \in Requests, FindByToken(r)
  PROVE  /\ req[r].at = "lookup" /\ Becomes(r, {"at", "row"})
         /\ \/ req'[r].at = req[r].then /\ req'[r].row = NoUser
            \/ req'[r].at = req[r].then /\ req'[r].row = cache[req[r].probe] /\ req'[r].row # NoUser
            \/ req'[r].at = "fill" /\ req'[r].row \in FindUserByToken(req[r].probe)
         /\ ReqRight'
<1> DEFINE q == req[r]
           n(a, u) == [q EXCEPT !.at = a, !.row = u]
<1>1. q \in Request /\ Control(q) /\ q.at = "lookup"
  BY DEF ReqRight, FindByToken, At
<1>2. q.probe \in Tokens /\ q.then \in Steps
  BY <1>1 DEF Control, LookupRight, Steps
<1>3. FindUserByToken(q.probe) \subseteq User
  BY DEF FindUserByToken, Existing, StoreTypeOK
<1>4. cache[q.probe] \in User \cup {NoUser}
  BY <1>2 DEF StoreTypeOK
<1>5. ASSUME NEW a \in Steps, NEW u \in User \cup {NoUser}
      PROVE  n(a, u) \in Request /\ Alters(q, n(a, u), {"at", "row"}) /\ n(a, u).at = a /\ n(a, u).row = u
  <2>1. n(a, u) \in Request
    BY <1>1, SetField
  <2> QED
    BY <1>1, <2>1 DEF Request, Alters, Fields
<1>6. \/ Go(r, n(q.then, NoUser))
      \/ cache[q.probe] # NoUser /\ Go(r, n(q.then, cache[q.probe]))
      \/ \E u \in FindUserByToken(q.probe) : Go(r, n("fill", u))
  BY DEF FindByToken
<1>7. "fill" \in Steps
  BY DEF Steps
<1> HIDE DEF n
<1>8. /\ Becomes(r, {"at", "row"})
      /\ \/ req'[r].at = q.then /\ req'[r].row = NoUser
         \/ req'[r].at = q.then /\ req'[r].row = cache[q.probe] /\ req'[r].row # NoUser
         \/ req'[r].at = "fill" /\ req'[r].row \in FindUserByToken(q.probe)
  BY <1>2, <1>3, <1>4, <1>5, <1>6, <1>7, GoBecomes
<1>9. Control(req'[r])
  BY <1>1, <1>8 DEF Becomes, Alters, Fields, Control, InSteps, LookupRight, BearerOps, Targeted
<1> QED
  BY <1>1, <1>8, <1>9, BecomesRight

\* bearer_auth lets a request through to its operation, or ends it.
LEMMA AdmitEffect ==
  ASSUME StoreTypeOK, ReqRight, NEW r \in Requests, Admit(r)
  PROVE  /\ req[r].at = "admit" /\ ReqRight'
         /\ \/ Ends(r)
            \/ /\ Becomes(r, {"at", "user"}) /\ req'[r].at = req[r].op
               /\ req[r].op \in BearerOps \ {"use"}
<1> DEFINE q == req[r]
           n == [q EXCEPT !.at = q.op, !.user = IF q.op \in AdminOnly THEN q.victim ELSE q.row.id]
<1>1. q \in Request /\ Control(q) /\ q.at = "admit"
  BY DEF ReqRight, Admit, At
<1>2. q.op \in BearerOps
  BY <1>1 DEF Control, InSteps
<1>3. CASE Done(r)
  BY <1>1, <1>3, DoneEnds, EndsRight
<1>4. CASE q.row # NoUser /\ q.op # "use" /\ Go(r, n)
  <2>1. q.op \in Steps
    BY <1>2, <1>4 DEF BearerOps, Targeted, Steps
  <2>0. q.row.id \in Accounts
    <3>1. q.row \in User
      BY <1>1, <1>4 DEF Request
    <3> QED
      BY <3>1 DEF User
  <2>2. n \in Request
    <3>1. (IF q.op \in AdminOnly THEN q.victim ELSE q.row.id) \in Accounts \cup {0}
      BY <1>1, <2>0 DEF Request
    <3> QED
      BY <1>1, <2>1, <3>1, SetField
  <2>3. Alters(q, n, {"at", "user"}) /\ n.at = q.op
    BY <1>1, <2>2 DEF Request, Alters, Fields
  <2>4. Becomes(r, {"at", "user"}) /\ req'[r].at = q.op
    BY <1>4, <2>2, <2>3, GoBecomes
  <2>5. Control(req'[r])
    BY <1>1, <1>2, <1>4, <2>4 DEF Becomes, Alters, Fields, Control, InSteps, LookupRight, BearerOps, Targeted
  <2> QED
    BY <1>1, <1>2, <1>4, <2>4, <2>5, BecomesRight
<1> QED
  BY <1>3, <1>4 DEF Admit

\* After the uncaching of an account each operation goes its own way.
LEMMA UncacheEffect ==
  ASSUME ReqRight, NEW r \in Requests, Uncache(r)
  PROVE  /\ req[r].at = "uncache" /\ ReqRight'
         /\ \/ Ends(r)
            \/ /\ Becomes(r, {"at", "probe", "then"}) /\ req'[r].at = "lookup"
               /\ req'[r].then = "mediaowner" /\ req[r].op = "login"
            \/ Moves(r, {"issue"}) /\ (req[r].op = "email" \/ (req[r].op = "login" /\ req[r].then # "merged"))
            \/ Moves(r, {"owner"}) /\ req[r].op = "gateway" /\ req[r].then = "owner"
            \/ Moves(r, {"unmedia"}) /\ (req[r].op = "gateway" => req[r].then \notin {"owner", "gone"})
<1> DEFINE q == req[r]
<1>1. q \in Request /\ Control(q) /\ q.at = "uncache" /\ Go(r, AfterUncache(r))
  BY DEF ReqRight, Uncache, At
<1>2. CASE q.op = "login" /\ q.then = "merged"
  <2>1. q.new \in Tokens /\ "mediaowner" \in Nexts
    BY <1>1, <1>2 DEF Control, Nexts
  <2>2. Go(r, Seek(q, q.new, "mediaowner"))
    BY <1>1, <1>2 DEF AfterUncache
  <2>3. /\ Becomes(r, {"at", "probe", "then"}) /\ req'[r].at = "lookup" /\ req'[r].probe = q.new
        /\ req'[r].then = "mediaowner"
    BY <1>1, <2>1, <2>2, SeekBecomes, GoBecomes
  <2>4. Control(req'[r])
    BY <1>1, <1>2, <2>1, <2>3 DEF Becomes, Alters, Fields, Control, InSteps, LookupRight
  <2> QED
    BY <1>1, <1>2, <2>3, <2>4, BecomesRight
<1>3. CASE q.op \in {"register", "reject"}
  BY <1>1, <1>3, DoneEnds, EndsRight DEF AfterUncache, Done
<1>4. CASE q.op = "email" \/ (q.op = "login" /\ q.then # "merged")
  <2>1. AfterUncache(r) = [q EXCEPT !.at = "issue"]
    <3>1. CASE q.op = "email"
      BY <3>1 DEF AfterUncache
    <3>2. CASE q.op = "login" /\ q.then # "merged"
      BY <3>2 DEF AfterUncache
    <3> QED
      BY <1>4, <3>1, <3>2
  <2>2. Move(r, "issue")
    BY <1>1, <2>1 DEF Move
  <2>3. Moves(r, {"issue"})
    BY <2>2, MoveMoves DEF Moves, Steps
  <2>4. ReqRight'
    BY <1>1, <2>3, MovesRight DEF Moves
  <2> QED
    BY <1>1, <1>4, <2>3, <2>4
<1>5. CASE q.op = "gateway" /\ q.then = "owner"
  <2>1. Move(r, "owner")
    BY <1>1, <1>5 DEF AfterUncache, Move
  <2>2. Moves(r, {"owner"})
    BY <2>1, MoveMoves DEF Moves, Steps
  <2>3. Control(req'[r])
    BY <1>1, <1>5, <2>2 DEF Moves, Becomes, Alters, Fields, Control, InSteps
  <2> QED
    BY <1>1, <1>5, <2>2, <2>3, BecomesRight DEF Moves
<1>6. CASE /\ ~(q.op = "login" /\ q.then = "merged") /\ q.op \notin {"register", "reject"}
           /\ ~(q.op = "email" \/ (q.op = "login" /\ q.then # "merged"))
           /\ ~(q.op = "gateway" /\ q.then \in {"owner", "gone"})
  <2>1. Move(r, "unmedia")
    BY <1>1, <1>6 DEF AfterUncache, Move
  <2> QED
    BY <1>1, <1>6, <2>1, MoveMoves, MovesRight DEF Moves, Steps
<1>7. CASE q.op = "gateway" /\ q.then = "gone"
  BY <1>1, <1>7, DoneEnds, EndsRight DEF AfterUncache, Done
<1> QED
  BY <1>2, <1>3, <1>4, <1>5, <1>6, <1>7

\* Accounts are numbered from one, only issued tokens have a user, and live ones an existing one.
StoreRight ==
  /\ \A u \in Existing : users[u].id = u /\ u < seq.account
  /\ \A t \in Tokens : t >= seq.token => tokens[t].user = 0
  /\ \A t \in Tokens : Live(t) => tokens[t].user \in Existing

\* The steps on the media sessions of a user, and the one that looks their token up.
LEMMA MediaEffects ==
  ASSUME StoreTypeOK, index \in SUBSET Tokens, ReqRight, NEW r \in Requests
  PROVE  /\ MediaMembers(r) => /\ req[r].at = "unmedia" /\ ReqRight'
                               /\ Becomes(r, {"at", "members"}) /\ req'[r].at = "unindex"
         /\ InvalidateMediaAuthUser(r) =>
              /\ req[r].at = "unindex" /\ ReqRight'
              /\ Ends(r) \/ (Moves(r, {"issue"}) /\ req[r].op = "gateway")
         /\ MediaRedis(r) =>
              /\ req[r].at = "mediaredis" /\ ReqRight'
              /\ Ends(r) \/ (Becomes(r, {"at", "probe", "then"}) /\ req'[r].at = "lookup"
                    /\ req[r].op = "media")
<1> DEFINE q == req[r]
<1>1. q \in Request /\ Control(q)
  BY DEF ReqRight
<1>2. ASSUME MediaMembers(r)
      PROVE  /\ req[r].at = "unmedia" /\ ReqRight'
             /\ Becomes(r, {"at", "members"}) /\ req'[r].at = "unindex"
  <2>0. PICK M \in SUBSET Tokens : Go(r, [q EXCEPT !.at = "unindex", !.members = M])
    BY <1>2 DEF MediaMembers
  <2> DEFINE n == [q EXCEPT !.at = "unindex", !.members = M]
  <2>1. n \in Request
    <3>1. "unindex" \in Steps
      BY DEF Steps
    <3> QED
      BY <1>1, <3>1, SetField
  <2>2. Alters(q, n, {"at", "members"}) /\ n.at = "unindex"
    BY <1>1, <2>1 DEF Request, Alters, Fields
  <2>3. q.at = "unmedia" /\ Go(r, n)
    BY <1>2, <2>0 DEF MediaMembers, At
  <2>4. Becomes(r, {"at", "members"}) /\ req'[r].at = "unindex"
    BY <2>1, <2>2, <2>3, GoBecomes
  <2>5. Control(req'[r])
    BY <1>1, <2>3, <2>4 DEF Becomes, Alters, Fields, Control, InSteps
  <2> QED
    BY <2>3, <2>4, <2>5, BecomesRight
<1>3. ASSUME InvalidateMediaAuthUser(r)
      PROVE  /\ req[r].at = "unindex" /\ ReqRight'
             /\ Ends(r) \/ (Moves(r, {"issue"}) /\ req[r].op = "gateway")
  <2>1. q.at = "unindex" /\ Go(r, AfterUnmedia(r))
    BY <1>3 DEF InvalidateMediaAuthUser, At
  <2>2. CASE q.op = "gateway"
    <3>1. Moves(r, {"issue"})
      BY <2>1, <2>2, MoveMoves DEF AfterUnmedia, Move, Moves, Steps
    <3>2. ReqRight'
      BY <2>1, <3>1, MovesRight DEF Moves
    <3> QED
      BY <2>1, <2>2, <3>1, <3>2
  <2>3. CASE q.op # "gateway"
    BY <2>1, <2>3, DoneEnds, EndsRight DEF AfterUnmedia, Done
  <2> QED
    BY <2>2, <2>3
<1>4. ASSUME MediaRedis(r)
      PROVE  /\ req[r].at = "mediaredis" /\ ReqRight'
             /\ Ends(r) \/ (Becomes(r, {"at", "probe", "then"}) /\ req'[r].at = "lookup" /\ req[r].op = "media")
  <2>1. q.at = "mediaredis" /\ (Done(r) \/ Go(r, Seek(q, q.token, "mediafill")))
    BY <1>4 DEF MediaRedis, At
  <2>2. CASE Done(r)
    BY <2>1, <2>2, DoneEnds, EndsRight
  <2>3. CASE Go(r, Seek(q, q.token, "mediafill"))
    <3>1. q.token \in Tokens /\ q.op = "media" /\ "mediafill" \in Nexts
      BY <1>1, <2>1 DEF Control, InSteps, Nexts
    <3>2. /\ Becomes(r, {"at", "probe", "then"}) /\ req'[r].at = "lookup" /\ req'[r].probe = q.token
          /\ req'[r].then = "mediafill"
      BY <1>1, <2>3, <3>1, SeekBecomes, GoBecomes
    <3>3. Control(req'[r])
      BY <1>1, <3>1, <3>2 DEF Becomes, Alters, Fields, Control, InSteps, LookupRight
    <3> QED
      BY <2>1, <3>1, <3>2, <3>3, BecomesRight
  <2> QED
    BY <2>1, <2>2, <2>3
<1> QED
  BY <1>2, <1>3, <1>4

\* What each of the other steps does to its request and to the accounts.
LEMMA CountStepEffect ==
  ASSUME StoreTypeOK, StoreRight, ReqRight, NEW r \in Requests, CountStep(r)
  PROVE  /\ req[r].at = "count" /\ ReqRight'
         /\ Becomes(r, {"at", "role"}) /\ req'[r].at = "name"
<1> DEFINE q == req[r]
<1>1. q \in Request /\ Control(q) /\ q.at = "count"
  BY DEF ReqRight, CountStep, At
<1> DEFINE n == [q EXCEPT !.at = "name",
                         !.role = IF CountUsers = 0 /\ AllowFirstAdmin THEN Admin ELSE Viewer]
<1>2. n \in Request
  BY <1>1, SetField DEF Steps
<1>3. Alters(q, n, {"at", "role"}) /\ n.at = "name"
  BY <1>1, <1>2 DEF Request, Alters, Fields
<1>4. Becomes(r, {"at", "role"}) /\ req'[r].at = "name"
  BY <1>2, <1>3, GoBecomes DEF CountStep
<1>5. Control(req'[r])
  BY <1>1, <1>4 DEF Becomes, Alters, Fields, Control, InSteps
<1> QED
  BY <1>1, <1>4, <1>5, BecomesRight

LEMMA CreateStepEffect ==
  ASSUME StoreTypeOK, StoreRight, ReqRight, NEW r \in Requests, CreateStep(r)
  PROVE  /\ req[r].at = "create" /\ ReqRight'
         /\ \/ Ends(r) /\ UNCHANGED users
            \/ Ends(r) /\ CreateUser(req[r].name, req[r].pw, req[r].role)
            \/ /\ CreateUser(req[r].name, req[r].pw, req[r].role)
               /\ Becomes(r, {"at", "user"}) /\ req'[r].at = "issue" /\ req'[r].user = seq.account
<1> DEFINE q == req[r]
<1>1. q \in Request /\ Control(q) /\ q.at = "create"
  BY DEF ReqRight, CreateStep, At
<1>2. CASE Done(r) \/ Go(r, Idle)
  BY <1>1, <1>2, DoneEnds, EndsRight DEF CreateStep, Done, store
<1>3. CASE seq.account \in Accounts /\ Go(r, [q EXCEPT !.at = "issue", !.user = seq.account])
  <2> DEFINE n == [q EXCEPT !.at = "issue", !.user = seq.account]
  <2>1. n \in Request
    BY <1>1, <1>3, SetField DEF Steps
  <2>2. Alters(q, n, {"at", "user"}) /\ n.at = "issue" /\ n.user = seq.account
    BY <1>1, <2>1 DEF Request, Alters, Fields
  <2>3. Becomes(r, {"at", "user"}) /\ req'[r].at = "issue" /\ req'[r].user = seq.account
    BY <1>3, <2>1, <2>2, GoBecomes
  <2>4. Control(req'[r])
    BY <1>1, <2>3 DEF Becomes, Alters, Fields, Control, InSteps
  <2>5. CreateUser(req[r].name, req[r].pw, req[r].role) \/ (Ends(r) /\ UNCHANGED users)
    BY DoneEnds DEF CreateStep, store
  <2> QED
    BY <1>1, <2>3, <2>4, <2>5, BecomesRight
<1> QED
  BY <1>2, <1>3 DEF CreateStep, CreateUser

LEMMA LoginStepEffect ==
  ASSUME StoreTypeOK, StoreRight, ReqRight, NEW r \in Requests, LoginStep(r)
  PROVE  /\ req[r].at = "login" /\ ReqRight'
         /\ \/ Ends(r)
            \/ \E u \in Existing :
                 /\ users[u].pw = req[r].pw
                 /\ Becomes(r, {"at", "user", "victim", "after"}) /\ req'[r].at \in {"revoke", "issue"}
                 /\ req'[r].user = u /\ req'[r].victim = u
                 /\ req'[r].at = "issue" => req'[r].after = 0
<1> DEFINE q == req[r]
<1>0. seq.token - 1 \in Nat
  BY DEF StoreTypeOK
<1>1. q \in Request /\ Control(q) /\ q.at = "login"
  BY DEF ReqRight, LoginStep, At
<1>2. CASE Done(r)
  BY <1>1, <1>2, DoneEnds, EndsRight
<1>3. ASSUME NEW u \in Existing, users[u].pw = q.pw, NEW a \in {"revoke", "issue"}, NEW k \in Nat,
             a = "issue" => k = 0,
             Go(r, [q EXCEPT !.user = users[u].id, !.victim = users[u].id, !.at = a, !.after = k])
      PROVE  /\ ReqRight'
             /\ Becomes(r, {"at", "user", "victim", "after"}) /\ req'[r].at \in {"revoke", "issue"}
             /\ req'[r].user = u /\ req'[r].victim = u
             /\ req'[r].at = "issue" => req'[r].after = 0
  <2> DEFINE n == [q EXCEPT !.user = u, !.victim = u, !.at = a, !.after = k]
  <2>0. Go(r, n) /\ u \in Accounts
    BY <1>3 DEF StoreRight, Existing
  <2>1. n \in Request
    BY <1>1, <2>0, SetField DEF Steps
  <2>2. Alters(q, n, {"at", "user", "victim", "after"}) /\ n.at = a /\ n.user = u /\ n.victim = u /\ n.after = k
    BY <1>1, <2>1 DEF Request, Alters, Fields
  <2>3. /\ Becomes(r, {"at", "user", "victim", "after"}) /\ req'[r].at = a
        /\ req'[r].user = u /\ req'[r].victim = u /\ req'[r].after = k
    BY <2>0, <2>1, <2>2, GoBecomes
  <2>4. Control(req'[r])
    BY <1>1, <2>3 DEF Becomes, Alters, Fields, Control, InSteps
  <2> QED
    BY <1>3, <2>3, <2>4, BecomesRight
<1>4. \/ Done(r)
      \/ \E u \in Existing, a \in {"revoke", "issue"}, k \in {seq.token - 1, 0} :
           /\ users[u].pw = q.pw /\ (a = "issue" => k = 0)
           /\ Go(r, [q EXCEPT !.user = users[u].id, !.victim = users[u].id, !.at = a, !.after = k])
  <2>1. SUFFICES ASSUME ~Done(r)
                 PROVE  \E u \in Existing, a \in {"revoke", "issue"}, k \in {seq.token - 1, 0} :
                          /\ users[u].pw = q.pw /\ (a = "issue" => k = 0)
                          /\ Go(r, [q EXCEPT !.user = users[u].id, !.victim = users[u].id, !.at = a, !.after = k])
    OBVIOUS
  <2>2. PICK u \in Existing :
          /\ users[u].pw = q.pw
          /\ Go(r, [q EXCEPT !.user = users[u].id, !.victim = users[u].id,
                   !.at = IF users[u].role < Admin THEN "revoke" ELSE "issue",
                   !.after = IF users[u].role < Admin THEN seq.token - 1 ELSE 0])
    BY <2>1 DEF LoginStep, FindByUsername
  <2>3. CASE users[u].role < Admin
    BY <2>2, <2>3
  <2>4. CASE ~(users[u].role < Admin)
    BY <2>2, <2>4
  <2> QED
    BY <2>3, <2>4
<1> QED
  BY <1>0, <1>1, <1>2, <1>3, <1>4

LEMMA RevokeEffect ==
  ASSUME StoreTypeOK, StoreRight, ReqRight, NEW r \in Requests, Revoke(r)
  PROVE  /\ req[r].at = "revoke" /\ ReqRight'
         /\ Becomes(r, {"at", "after"}) /\ req'[r].at = "uncache" /\ req'[r].after = seq.token - 1
<1> DEFINE q == req[r]
<1>1. q \in Request /\ Control(q) /\ q.at = "revoke"
  BY DEF ReqRight, Revoke, At
<1> DEFINE a == seq.token - 1
           n == [q EXCEPT !.at = "uncache", !.after = a]
<1>2. a \in Nat /\ Go(r, n)
  BY DEF StoreTypeOK, Revoke
<1> HIDE DEF a
<1>3. n \in Request
  BY <1>1, <1>2, SetField DEF Steps
<1>4. Alters(q, n, {"at", "after"}) /\ n.at = "uncache" /\ n.after = a
  BY <1>1, <1>3 DEF Request, Alters, Fields
<1>5. Becomes(r, {"at", "after"}) /\ req'[r].at = "uncache" /\ req'[r].after = a
  BY <1>2, <1>3, <1>4, GoBecomes
<1>6. Control(req'[r])
  BY <1>1, <1>5 DEF Becomes, Alters, Fields, Control, InSteps
<1>7. ReqRight'
  BY <1>5, <1>6, BecomesRight
<1> QED
  BY <1>1, <1>5, <1>7 DEF a

LEMMA NewGuestEffect ==
  ASSUME StoreTypeOK, StoreRight, ReqRight, NEW r \in Requests, NewGuest(r)
  PROVE  /\ req[r].at = "newguest" /\ ReqRight'
         /\ Becomes(r, {"at", "user"}) /\ req'[r].at = "issue" /\ req'[r].user = seq.account
<1> DEFINE q == req[r]
<1>1. q \in Request /\ Control(q) /\ q.at = "newguest"
  BY DEF ReqRight, NewGuest, At
<1> DEFINE n == [q EXCEPT !.at = "issue", !.user = seq.account]
<1>2. seq.account \in Accounts /\ Go(r, n)
  BY DEF NewGuest, CreateGuestUser
<1>3. n \in Request
  BY <1>1, <1>2, SetField DEF Steps
<1>4. Alters(q, n, {"at", "user"}) /\ n.at = "issue" /\ n.user = seq.account
  BY <1>1, <1>3 DEF Request, Alters, Fields
<1>5. Becomes(r, {"at", "user"}) /\ req'[r].at = "issue" /\ req'[r].user = seq.account
  BY <1>2, <1>3, <1>4, GoBecomes
<1>6. Control(req'[r])
  BY <1>1, <1>5 DEF Becomes, Alters, Fields, Control, InSteps
<1> QED
  BY <1>1, <1>5, <1>6, BecomesRight

LEMMA IssueEffect ==
  ASSUME StoreTypeOK, StoreRight, ReqRight, NEW r \in Requests, Issue(r)
  PROVE  /\ req[r].at = "issue" /\ ReqRight'
         /\ \/ Ends(r) /\ req[r].op \notin {"register", "login", "email", "gateway"}
            \/ /\ Becomes(r, {"at", "probe", "then", "new"}) /\ req'[r].at = "lookup"
               /\ req'[r].then = "merge" /\ req[r].op \in {"register", "login"}
            \/ Moves(r, {"unmedia"}) /\ req[r].op = "email"
            \/ Becomes(r, {"at", "new"}) /\ req'[r].at = "code" /\ req[r].op = "gateway"
<1> DEFINE q == req[r]
<1>1. q \in Request /\ Control(q) /\ q.at = "issue"
  BY DEF ReqRight, Issue, At
<1>2. seq.token \in Tokens /\ Go(r, AfterIssue(r))
  BY DEF Issue, CreateToken
<1>3. CASE q.op \in {"register", "login"}
  <2> DEFINE m == Seek(q, seq.token, "merge")
             n == [m EXCEPT !.new = seq.token]
  <2>1. /\ m \in Request /\ Alters(q, m, {"at", "probe", "then"})
        /\ m.at = "lookup" /\ m.probe = seq.token /\ m.then = "merge"
    <3>1. "merge" \in Nexts
      BY DEF Nexts
    <3> QED
      BY <1>1, <1>2, <3>1, SeekBecomes
  <2>2. Go(r, n)
    BY <1>2, <1>3 DEF AfterIssue
  <2> HIDE DEF m
  <2>3. n \in Request
    BY <1>2, <2>1, SetField
  <2>4. /\ Alters(m, n, {"new"}) /\ n.new = seq.token
    BY <2>1, <2>3 DEF Request, Alters, Fields
  <2>5. /\ Alters(q, n, {"at", "probe", "then", "new"})
        /\ n.at = "lookup" /\ n.probe = seq.token /\ n.then = "merge"
    BY <2>1, <2>4 DEF Alters, Fields
  <2>6. /\ Becomes(r, {"at", "probe", "then", "new"}) /\ req'[r].at = "lookup"
        /\ req'[r].then = "merge" /\ req'[r].probe = seq.token /\ req'[r].new = seq.token
    BY <2>2, <2>3, <2>4, <2>5, GoBecomes
  <2>7. Control(req'[r])
    BY <1>1, <1>2, <1>3, <2>6 DEF Becomes, Alters, Fields, Control, InSteps, LookupRight
  <2> QED
    BY <1>1, <1>3, <2>6, <2>7, BecomesRight
<1>4. CASE q.op = "email"
  <2>1. Moves(r, {"unmedia"})
    BY <1>2, <1>4, MoveMoves DEF AfterIssue, Move, Moves, Steps
  <2>2. Control(req'[r])
    BY <1>1, <2>1 DEF Moves, Becomes, Alters, Fields, Control, InSteps
  <2> QED
    BY <1>1, <1>4, <2>1, <2>2, BecomesRight DEF Moves
<1>5. CASE q.op = "gateway"
  <2> DEFINE n == [q EXCEPT !.at = "code", !.new = seq.token]
  <2>1. n \in Request
    BY <1>1, <1>2, SetField DEF Steps
  <2>2. Alters(q, n, {"at", "new"}) /\ n.at = "code" /\ n.new = seq.token
    BY <1>1, <2>1 DEF Request, Alters, Fields
  <2>3. Go(r, n)
    BY <1>2, <1>5 DEF AfterIssue
  <2>4. Becomes(r, {"at", "new"}) /\ req'[r].at = "code" /\ req'[r].new = seq.token
    BY <2>1, <2>2, <2>3, GoBecomes
  <2>5. Control(req'[r])
    BY <1>1, <1>2, <1>5, <2>4 DEF Becomes, Alters, Fields, Control, InSteps
  <2> QED
    BY <1>1, <1>5, <2>4, <2>5, BecomesRight
<1>6. CASE q.op \notin {"register", "login", "email", "gateway"}
  BY <1>1, <1>2, <1>6, DoneEnds, EndsRight DEF AfterIssue, Done
<1> QED
  BY <1>3, <1>4, <1>5, <1>6

LEMMA MergeOwnerEffect ==
  ASSUME StoreTypeOK, StoreRight, ReqRight, NEW r \in Requests, MergeOwner(r)
  PROVE  /\ req[r].at = "merge" /\ ReqRight'
         /\ \/ Ends(r)
            \/ /\ Becomes(r, {"at", "probe", "then"}) /\ req'[r].at = "lookup"
               /\ req'[r].then = "mediaowner" /\ req[r].op = "login"
            \/ /\ Becomes(r, {"at", "probe", "then", "user"}) /\ req'[r].at = "lookup"
               /\ req'[r].then = "mergeguest"
<1> DEFINE q == req[r]
<1>1. q \in Request /\ Control(q) /\ q.at = "merge"
  BY DEF ReqRight, MergeOwner, At
<1>2. q.op \in {"register", "login"} /\ q.new \in Tokens
  BY <1>1 DEF Control, InSteps
<1>3. CASE Go(r, AfterMerge(r)) /\ q.op = "login"
  <2>1. Go(r, Seek(q, q.new, "mediaowner")) /\ "mediaowner" \in Nexts
    BY <1>3 DEF AfterMerge, Nexts
  <2>2. /\ Becomes(r, {"at", "probe", "then"}) /\ req'[r].at = "lookup" /\ req'[r].probe = q.new
        /\ req'[r].then = "mediaowner"
    BY <1>1, <1>2, <2>1, SeekBecomes, GoBecomes
  <2>3. Control(req'[r])
    BY <1>1, <1>2, <1>3, <2>2 DEF Becomes, Alters, Fields, Control, InSteps, LookupRight
  <2> QED
    BY <1>1, <1>3, <2>2, <2>3, BecomesRight
<1>4. CASE Go(r, AfterMerge(r)) /\ q.op # "login"
  BY <1>1, <1>4, DoneEnds, EndsRight DEF AfterMerge, Done
<1>5. CASE /\ q.row # NoUser /\ q.cookie # 0
           /\ Go(r, [Seek(q, q.cookie, "mergeguest") EXCEPT !.user = q.row.id])
  <2> DEFINE m == Seek(q, q.cookie, "mergeguest")
             n == [m EXCEPT !.user = q.row.id]
  <2>1. q.cookie \in Tokens /\ q.row \in User
    BY <1>1, <1>5 DEF Request
  <2>2. q.row.id \in Accounts /\ "mergeguest" \in Nexts
    BY <2>1 DEF User, Nexts
  <2>3. /\ m \in Request /\ Alters(q, m, {"at", "probe", "then"})
        /\ m.at = "lookup" /\ m.probe = q.cookie /\ m.then = "mergeguest"
    BY <1>1, <2>1, <2>2, SeekBecomes
  <2>4. Go(r, n)
    BY <1>5
  <2> HIDE DEF m
  <2>5. n \in Request
    BY <2>2, <2>3, SetField
  <2>6. Alters(m, n, {"user"})
    BY <2>3, <2>5 DEF Request, Alters, Fields
  <2>7. /\ Alters(q, n, {"at", "probe", "then", "user"})
        /\ n.at = "lookup" /\ n.probe = q.cookie /\ n.then = "mergeguest"
    BY <2>3, <2>6 DEF Alters, Fields
  <2> HIDE DEF n
  <2>8. /\ Becomes(r, {"at", "probe", "then", "user"}) /\ req'[r].at = "lookup"
        /\ req'[r].then = "mergeguest" /\ req'[r].probe = q.cookie
    BY <2>4, <2>5, <2>7, GoBecomes
  <2>9. Control(req'[r])
    BY <1>1, <1>2, <2>1, <2>8 DEF Becomes, Alters, Fields, Control, InSteps, LookupRight
  <2> QED
    BY <1>1, <2>8, <2>9, BecomesRight
<1> QED
  BY <1>3, <1>4, <1>5 DEF MergeOwner

LEMMA MergeGuestEffect ==
  ASSUME StoreTypeOK, StoreRight, ReqRight, NEW r \in Requests, MergeGuest(r)
  PROVE  /\ req[r].at = "mergeguest" /\ ReqRight'
         /\ \/ Ends(r) /\ UNCHANGED <<users, tokens>>
            \/ /\ Becomes(r, {"at", "probe", "then"}) /\ req'[r].at = "lookup"
               /\ req'[r].then = "mediaowner" /\ req[r].op = "login" /\ UNCHANGED <<users, tokens>>
            \/ /\ Becomes(r, {"at", "victim", "then"}) /\ req'[r].at = "uncache"
               /\ req'[r].then = "merged" /\ req[r].op \in {"register", "login"}
               /\ req'[r].victim \in Existing /\ RemoveUser(req'[r].victim)
<1> DEFINE q == req[r]
<1>1. q \in Request /\ Control(q) /\ q.at = "mergeguest"
  BY DEF ReqRight, MergeGuest, At
<1>2. q.op \in {"register", "login"} /\ q.new \in Tokens
  BY <1>1 DEF Control, InSteps
<1>3. CASE Go(r, AfterMerge(r)) /\ q.op = "login" /\ UNCHANGED <<users, tokens>>
  <2>1. Go(r, Seek(q, q.new, "mediaowner")) /\ "mediaowner" \in Nexts
    BY <1>3 DEF AfterMerge, Nexts
  <2>2. /\ Becomes(r, {"at", "probe", "then"}) /\ req'[r].at = "lookup" /\ req'[r].probe = q.new
        /\ req'[r].then = "mediaowner"
    BY <1>1, <1>2, <2>1, SeekBecomes, GoBecomes
  <2>3. Control(req'[r])
    BY <1>1, <1>2, <1>3, <2>2 DEF Becomes, Alters, Fields, Control, InSteps, LookupRight
  <2> QED
    BY <1>1, <1>3, <2>2, <2>3, BecomesRight
<1>4. CASE Go(r, AfterMerge(r)) /\ q.op # "login" /\ UNCHANGED <<users, tokens>>
  BY <1>1, <1>4, DoneEnds, EndsRight DEF AfterMerge, Done
<1>5. CASE /\ q.row.id \in Existing /\ RemoveUser(q.row.id)
           /\ Go(r, [q EXCEPT !.at = "uncache", !.victim = q.row.id, !.then = "merged"])
  <2>0. q.row.id \in Accounts
    BY <1>5 DEF Existing
  <2> DEFINE n == [q EXCEPT !.at = "uncache", !.victim = q.row.id, !.then = "merged"]
  <2>1. Go(r, n)
    BY <1>5
  <2>2. n \in Request
    BY <1>1, <2>0, SetField DEF Steps, Nexts
  <2>3. Alters(q, n, {"at", "victim", "then"}) /\ n.at = "uncache" /\ n.victim = q.row.id /\ n.then = "merged"
    BY <1>1, <2>2 DEF Request, Alters, Fields
  <2> HIDE DEF n
  <2>4. Becomes(r, {"at", "victim", "then"}) /\ req'[r].at = "uncache" /\ req'[r].then = "merged"
        /\ req'[r].victim = q.row.id
    BY <2>1, <2>2, <2>3, GoBecomes
  <2>5. Control(req'[r])
    BY <1>1, <1>2, <1>5, <2>4 DEF Becomes, Alters, Fields, Control, InSteps, LookupRight
  <2> QED
    BY <1>1, <1>2, <1>5, <2>4, <2>5, BecomesRight
<1> QED
  BY <1>3, <1>4, <1>5 DEF MergeGuest

LEMMA MediaOwnerEffect ==
  ASSUME StoreTypeOK, StoreRight, ReqRight, NEW r \in Requests, MediaOwner(r)
  PROVE  /\ req[r].at = "mediaowner" /\ ReqRight'
         /\ \/ Ends(r)
            \/ Becomes(r, {"at", "victim"}) /\ req'[r].at = "unmedia" /\ req[r].op = "login"
<1> DEFINE q == req[r]
<1>1. q \in Request /\ Control(q) /\ q.at = "mediaowner"
  BY DEF ReqRight, MediaOwner, At
<1>2. q.op = "login"
  BY <1>1 DEF Control, InSteps
<1>3. CASE Done(r)
  BY <1>1, <1>3, DoneEnds, EndsRight
<1>4. CASE q.row # NoUser /\ Go(r, [q EXCEPT !.at = "unmedia", !.victim = q.row.id])
  <2>0. q.row.id \in Accounts
    <3>1. q.row \in User
      BY <1>1, <1>4 DEF Request
    <3> QED
      BY <3>1 DEF User
  <2> DEFINE n == [q EXCEPT !.at = "unmedia", !.victim = q.row.id]
  <2>1. Go(r, n)
    BY <1>4
  <2>2. n \in Request
    BY <1>1, <2>0, SetField DEF Steps, Nexts
  <2>3. Alters(q, n, {"at", "victim"}) /\ n.at = "unmedia"
    BY <1>1, <2>2 DEF Request, Alters, Fields
  <2> HIDE DEF n
  <2>4. Becomes(r, {"at", "victim"}) /\ req'[r].at = "unmedia"
    BY <2>1, <2>2, <2>3, GoBecomes
  <2>5. Control(req'[r])
    BY <1>1, <1>2, <2>4 DEF Becomes, Alters, Fields, Control, InSteps, LookupRight
  <2> QED
    BY <1>1, <1>2, <2>4, <2>5, BecomesRight
<1> QED
  BY <1>3, <1>4 DEF MediaOwner

LEMMA ReadAddressEffect ==
  ASSUME StoreTypeOK, StoreRight, ReqRight, NEW r \in Requests, ReadAddress(r)
  PROVE  /\ req[r].at = "send" /\ ReqRight'
         /\ \/ Ends(r)
            \/ /\ Becomes(r, {"at", "mail"}) /\ req'[r].at = "sendlink"
               /\ req[r].user \in Existing /\ req'[r].mail = users[req[r].user].email
<1> DEFINE q == req[r]
<1>1. q \in Request /\ Control(q) /\ q.at = "send"
  BY DEF ReqRight, ReadAddress, At
<1>2. CASE Done(r)
  BY <1>1, <1>2, DoneEnds, EndsRight
<1>3. CASE /\ q.user \in Existing
           /\ Go(r, [q EXCEPT !.at = "sendlink", !.mail = users[q.user].email])
  <2> DEFINE m == users[q.user].email
  <2>0. m \in Emails \cup {None}
    <3>1. users[q.user] \in User
      BY <1>3 DEF Existing, StoreTypeOK
    <3> QED
      BY <3>1 DEF User
  <2> DEFINE n == [q EXCEPT !.at = "sendlink", !.mail = m]
  <2>1. Go(r, n)
    BY <1>3
  <2>2. n \in Request
    BY <1>1, <2>0, SetField DEF Steps, Nexts
  <2>3. Alters(q, n, {"at", "mail"}) /\ n.at = "sendlink" /\ n.mail = m
    BY <1>1, <2>2 DEF Request, Alters, Fields
  <2> HIDE DEF n
  <2>4. Becomes(r, {"at", "mail"}) /\ req'[r].at = "sendlink" /\ req'[r].mail = m
    BY <2>1, <2>2, <2>3, GoBecomes
  <2>5. Control(req'[r])
    BY <1>1, <1>3, <2>4 DEF Becomes, Alters, Fields, Control, InSteps, LookupRight
  <2> QED
    BY <1>1, <1>3, <2>4, <2>5, BecomesRight
<1> QED
  BY <1>2, <1>3 DEF ReadAddress, GetEmail

LEMMA ForgetfulUserEffect ==
  ASSUME StoreTypeOK, StoreRight, ReqRight, NEW r \in Requests, ForgetfulUser(r)
  PROVE  /\ req[r].at = "byemail" /\ ReqRight'
         /\ \/ Ends(r)
            \/ Becomes(r, {"at", "user"}) /\ req'[r].at = "resetlink" /\ req'[r].user \in Existing
<1> DEFINE q == req[r]
<1>1. q \in Request /\ Control(q) /\ q.at = "byemail"
  BY DEF ReqRight, ForgetfulUser, At
<1>2. CASE Done(r)
  BY <1>1, <1>2, DoneEnds, EndsRight
<1>3. ASSUME NEW u \in Existing, Go(r, [q EXCEPT !.at = "resetlink", !.user = users[u].id])
      PROVE  /\ ReqRight'
             /\ Becomes(r, {"at", "user"}) /\ req'[r].at = "resetlink" /\ req'[r].user \in Existing
  <2>0. u \in Accounts /\ users[u].id = u
    BY DEF StoreRight, Existing
  <2> DEFINE n == [q EXCEPT !.at = "resetlink", !.user = u]
  <2>1. Go(r, n)
    BY <1>3, <2>0
  <2>2. n \in Request
    BY <1>1, <2>0, SetField DEF Steps, Nexts
  <2>3. Alters(q, n, {"at", "user"}) /\ n.at = "resetlink" /\ n.user = u
    BY <1>1, <2>2 DEF Request, Alters, Fields
  <2> HIDE DEF n
  <2>4. Becomes(r, {"at", "user"}) /\ req'[r].at = "resetlink" /\ req'[r].user = u
    BY <2>1, <2>2, <2>3, GoBecomes
  <2>5. Control(req'[r])
    BY <1>1, <1>3, <2>4 DEF Becomes, Alters, Fields, Control, InSteps, LookupRight
  <2> QED
    BY <1>1, <1>3, <2>4, <2>5, BecomesRight
<1> QED
  BY <1>1, <1>2, <1>3 DEF ForgetfulUser, FindByEmail

LEMMA ConsumeEffect ==
  ASSUME StoreTypeOK, StoreRight, ReqRight, NEW r \in Requests, Consume(r)
  PROVE  /\ req[r].at = "consume" /\ ReqRight'
         /\ \/ Ends(r) /\ UNCHANGED links
            \/ LET l == req[r].link
               IN /\ l \in Links /\ ConsumeLink(l) /\ links[l].user \in Existing
                  /\ Becomes(r, {"at", "user", "victim", "mail"})
                  /\ req'[r].user = links[l].user /\ req'[r].mail = links[l].mail
                  /\ \/ req'[r].at = "setpw" /\ req[r].op = "reset" /\ req'[r].victim = links[l].user
                     \/ req'[r].at = "verify" /\ req[r].op = "verify" /\ Usable(l, "verify")
<1> DEFINE q == req[r]
<1>1. q \in Request /\ Control(q) /\ q.at = "consume"
  BY DEF ReqRight, Consume, At
<1>2. q.op \in {"reset", "verify"} /\ q.link \in Links
  BY <1>1 DEF Control, InSteps
<1>3. CASE Done(r) /\ UNCHANGED links
  BY <1>1, <1>3, DoneEnds, EndsRight
<1> DEFINE l == q.link
           a == IF q.op = "reset" THEN "setpw" ELSE "verify"
           found == IF q.op = "reset" THEN FindValidResetToken(l) ELSE FindValidEmailVerificationToken(l)
<1>4. CASE /\ found /\ ConsumeLink(l)
           /\ Go(r, [q EXCEPT !.at = a, !.user = links[l].user, !.victim = links[l].user,
              !.mail = links[l].mail])
  <2> DEFINE u == links[l].user
             m == links[l].mail
  <2>0. u \in Existing /\ u \in Accounts /\ m \in Emails \cup {None} /\ a \in Steps
    <3>1. links[l] \in Link
      BY <1>2 DEF StoreTypeOK
    <3>2. u \in Existing
      BY <1>4 DEF FindValidResetToken, FindValidEmailVerificationToken, Usable
    <3> QED
      BY <3>1, <3>2 DEF Link, Existing, Steps
  <2> DEFINE n == [q EXCEPT !.at = a, !.user = u, !.victim = u, !.mail = m]
  <2>1. Go(r, n)
    BY <1>4
  <2> HIDE DEF a, u, m
  <2>2. n \in Request
    BY <1>1, <2>0, SetField DEF Steps, Nexts
  <2>3. Alters(q, n, {"at", "user", "victim", "mail"}) /\ n.at = a /\ n.user = u /\ n.victim = u /\ n.mail = m
    BY <1>1, <2>2 DEF Request, Alters, Fields
  <2> HIDE DEF n
  <2>4. Becomes(r, {"at", "user", "victim", "mail"}) /\ req'[r].at = a /\ req'[r].user = u
        /\ req'[r].victim = u /\ req'[r].mail = m
    BY <2>1, <2>2, <2>3, GoBecomes
  <2>5. Control(req'[r])
    BY <1>1, <1>2, <2>4 DEF a, Becomes, Alters, Fields, Control, InSteps, LookupRight
  <2> QED
    BY <1>1, <1>2, <1>4, <2>0, <2>4, <2>5, BecomesRight DEF FindValidEmailVerificationToken, a, u, m
<1> QED
  BY <1>3, <1>4 DEF Consume

\* A changed address or password marks the other requests of the account.
LEMMA CrossBecomes ==
  ASSUME ReqRight, NEW r \in Requests, NEW u, NEW what \in {"address", "password"}, NEW n \in Request,
         NEW F, Alters(req[r], n, F), Cross(r, u, what, n)
  PROVE  /\ Becomes(r, F) /\ req'[r] = n
         /\ \A o \in Requests \ {r} :
              req[o].at # "idle" /\ req[o].user = u => what \in req'[o].crossed
<1>1. ASSUME NEW o \in Requests \ {r}
      PROVE  /\ req'[o] \in Request /\ Alters(req[o], req'[o], {"crossed"})
             /\ req[o].crossed \subseteq req'[o].crossed
             /\ req[o].at # "idle" /\ req[o].user = u => what \in req'[o].crossed
  <2>1. req[o] \in Request /\ req[o].crossed \in SUBSET {"address", "password"}
    BY DEF ReqRight, Request
  <2>2. CASE req[o].at # "idle" /\ req[o].user = u
    <3> DEFINE c == req[o].crossed \cup {what}
               m == [req[o] EXCEPT !.crossed = c]
    <3>1. req'[o] = m
      BY <2>1, <2>2 DEF Cross
    <3>2. c \in SUBSET {"address", "password"}
      BY <2>1
    <3> HIDE DEF c
    <3>3. m \in Request
      BY <2>1, <3>2 DEF Request
    <3>4. Alters(req[o], m, {"crossed"}) /\ m.crossed = c
      BY <2>1, <3>3 DEF Request, Alters, Fields
    <3> QED
      BY <3>1, <3>3, <3>4 DEF c
  <2>3. CASE ~(req[o].at # "idle" /\ req[o].user = u)
    BY <2>1, <2>3 DEF Cross, Alters
  <2> QED
    BY <2>2, <2>3
<1>2. req'[r] = n
  BY DEF Cross
<1>3. req' \in [Requests -> Request]
  <2>1. DOMAIN req' = Requests /\ req' = [s \in Requests |-> req'[s]]
    BY DEF Cross
  <2> QED
    BY <1>1, <1>2, <2>1
<1> QED
  BY <1>1, <1>2, <1>3 DEF Becomes

LEMMA ChangeEmailStepEffect ==
  ASSUME StoreTypeOK, StoreRight, ReqRight, NEW r \in Requests, ChangeEmailStep(r)
  PROVE  /\ req[r].at = "setemail" /\ ReqRight'
         /\ \/ Ends(r) /\ UNCHANGED <<users, links>>
            \/ /\ UpdateEmail(req[r].user, req[r].mail)
               /\ Becomes(r, {"at", "victim", "after"}) /\ req'[r].at = "revoke" /\ req[r].op = "email"
               /\ req'[r].victim = req[r].user
               /\ \A o \in Requests \ {r} :
                    req[o].at # "idle" /\ req[o].user = req[r].user => "address" \in req'[o].crossed
<1> DEFINE q == req[r]
<1>1. q \in Request /\ Control(q) /\ q.at = "setemail"
  BY DEF ReqRight, ChangeEmailStep, At
<1> DEFINE a == seq.token - 1
           n == [q EXCEPT !.at = "revoke", !.victim = q.user, !.after = a]
<1>a. a \in Nat
  BY DEF StoreTypeOK
<1>2. CASE Done(r) /\ UNCHANGED <<users, links>>
  BY <1>1, <1>2, DoneEnds, EndsRight
<1>3. CASE UpdateEmail(q.user, q.mail) /\ Cross(r, q.user, "address", n)
  <2> HIDE DEF a
  <2>0. q.user \in Accounts \cup {0}
    BY <1>1 DEF Request
  <2>1. n \in Request
    BY <1>1, <1>a, <2>0, SetField DEF Steps
  <2>2. Alters(q, n, {"at", "victim", "after"}) /\ n.at = "revoke" /\ n.victim = q.user
    BY <1>1, <2>1 DEF Request, Alters, Fields
  <2> HIDE DEF n
  <2>3. /\ Becomes(r, {"at", "victim", "after"}) /\ req'[r] = n
        /\ \A o \in Requests \ {r} :
             req[o].at # "idle" /\ req[o].user = q.user => "address" \in req'[o].crossed
    BY <1>3, <2>1, <2>2, CrossBecomes
  <2>4. Control(req'[r])
    BY <1>1, <2>2, <2>3 DEF Becomes, Alters, Fields, Control, InSteps
  <2>5. ReqRight' /\ q.op = "email"
    BY <1>1, <2>3, <2>4, BecomesRight DEF Control, InSteps
  <2> QED
    BY <1>1, <1>3, <2>2, <2>3, <2>5
<1> QED
  BY <1>2, <1>3 DEF ChangeEmailStep

LEMMA SetPasswordEffect ==
  ASSUME StoreTypeOK, StoreRight, ReqRight, NEW r \in Requests, SetPassword(r)
  PROVE  /\ req[r].at = "setpw" /\ ReqRight'
         /\ \/ Ends(r) /\ UNCHANGED <<users, tokens>>
            \/ /\ UpdatePassword(req[r].victim, req[r].pw) /\ RevokeTokensByUserId(req[r].victim)
               /\ req[r].victim \in Existing
               /\ Moves(r, {"uncache"}) /\ req[r].op \in {"setpw", "reset"}
               /\ \A o \in Requests \ {r} :
                    req[o].at # "idle" /\ req[o].user = req[r].victim => "password" \in req'[o].crossed
<1> DEFINE q == req[r]
<1>1. q \in Request /\ Control(q) /\ q.at = "setpw"
  BY DEF ReqRight, SetPassword, At
<1> DEFINE n == [q EXCEPT !.at = "uncache"]
<1>2. CASE Done(r) /\ UNCHANGED <<users, tokens>>
  BY <1>1, <1>2, DoneEnds, EndsRight
<1>3. CASE /\ UpdatePassword(q.victim, q.pw) /\ RevokeTokensByUserId(q.victim)
           /\ q.victim \in Existing /\ Cross(r, q.victim, "password", n)
  <2>1. n \in Request
    BY <1>1, SetField DEF Steps
  <2>2. Alters(q, n, {"at"}) /\ n.at = "uncache"
    BY <1>1, <2>1 DEF Request, Alters, Fields
  <2> HIDE DEF n
  <2>3. /\ Becomes(r, {"at"}) /\ req'[r] = n
        /\ \A o \in Requests \ {r} :
             req[o].at # "idle" /\ req[o].user = q.victim => "password" \in req'[o].crossed
    BY <1>3, <2>1, <2>2, CrossBecomes
  <2>4. ReqRight' /\ q.op \in {"setpw", "reset"}
    BY <1>1, <2>2, <2>3, MovesRight DEF Control, InSteps
  <2> QED
    BY <1>1, <1>3, <2>2, <2>3, <2>4 DEF Moves
<1> QED
  BY <1>2, <1>3 DEF SetPassword

\* The session of a gateway login for the account u: for a viewer after the others are revoked.
Grants(r, u) ==
  /\ Becomes(r, {"at", "user", "victim", "then", "after"})
  /\ req'[r].at \in {"revoke", "issue"} /\ req'[r].user = u /\ req'[r].victim = u
  /\ req'[r].then = "done" /\ (req'[r].at = "issue" => req'[r].after = 0)

\* An account that was found is granted a session, unless it is not approved.
LEMMA GrantedEffect ==
  ASSUME StoreTypeOK, ReqRight, NEW r \in Requests, req[r].op = "gateway", NEW row \in User,
         Go(r, Granted(r, row))
  PROVE  ReqRight' /\ (Ends(r) \/ Grants(r, row.id))
<1> DEFINE q == req[r]
           a == IF row.role < Admin THEN "revoke" ELSE "issue"
           u == row.id
           k == IF row.role < Admin THEN seq.token - 1 ELSE 0
           n == [q EXCEPT !.at = a, !.user = u, !.victim = u, !.then = "done", !.after = k]
<1>1. q \in Request /\ Control(q) /\ row.id \in Accounts
  BY DEF ReqRight, User
<1>0. k \in Nat /\ (a = "issue" => k = 0)
  BY DEF StoreTypeOK
<1>2. CASE ~row.approved
  BY <1>2, DoneEnds, EndsRight DEF Granted, Done
<1>3. CASE row.approved
  <2>1. Go(r, n) /\ a \in {"revoke", "issue"}
    BY <1>3 DEF Granted
  <2> HIDE DEF a, k
  <2>2. n \in Request
    BY <1>0, <1>1, <2>1, SetField DEF Steps, Nexts
  <2>3. /\ Alters(q, n, {"at", "user", "victim", "then", "after"})
        /\ n.at = a /\ n.user = u /\ n.victim = u /\ n.then = "done" /\ n.after = k
    BY <1>1, <2>2 DEF Request, Alters, Fields
  <2> HIDE DEF n
  <2>4. Grants(r, u)
    BY <1>0, <2>1, <2>2, <2>3, GoBecomes DEF Grants
  <2>5. Control(req'[r])
    BY <1>1, <2>1, <2>4 DEF Grants, Becomes, Alters, Fields, Control, InSteps
  <2> QED
    BY <2>4, <2>5, BecomesRight DEF Grants
<1> QED
  BY <1>2, <1>3

LEMMA SignInOwnerEffect ==
  ASSUME StoreTypeOK, StoreRight, ReqRight, NEW r \in Requests, SignInOwner(r)
  PROVE  /\ req[r].at = "owner" /\ ReqRight'
         /\ \/ Ends(r)
            \/ \E u \in Existing : users[u].sub = req[r].sub /\ Grants(r, u)
<1> DEFINE q == req[r]
<1>1. q \in Request /\ Control(q) /\ q.at = "owner"
  BY DEF ReqRight, SignInOwner, At
<1>2. q.op = "gateway"
  BY <1>1 DEF Control, InSteps
<1>3. ASSUME NEW u \in Existing, users[u].sub = q.sub, Go(r, Granted(r, users[u]))
      PROVE  ReqRight' /\ (Ends(r) \/ Grants(r, u))
  <2>1. users[u] \in User /\ users[u].id = u
    BY DEF StoreRight, StoreTypeOK, Existing
  <2> QED
    BY <1>2, <1>3, <2>1, GrantedEffect
<1>4. CASE Done(r)
  BY <1>1, <1>4, DoneEnds, EndsRight
<1> QED
  BY <1>1, <1>3, <1>4 DEF SignInOwner, FindByGatewaySub

LEMMA BySubEffect ==
  ASSUME StoreTypeOK, StoreRight, ReqRight, NEW r \in Requests, BySub(r)
  PROVE  /\ req[r].at = "bysub" /\ ReqRight'
         /\ \/ Ends(r)
            \/ \E u \in Existing : users[u].sub = req[r].sub /\ Grants(r, u)
            \/ Becomes(r, {"at", "after"}) /\ req'[r].at \in {"bymail", "candidate"}
<1> DEFINE q == req[r]
<1>1. q \in Request /\ Control(q) /\ q.at = "bysub"
  BY DEF ReqRight, BySub, At
<1>2. q.op = "gateway"
  BY <1>1 DEF Control, InSteps
<1>3. ASSUME NEW u \in Existing, users[u].sub = q.sub, Go(r, Granted(r, users[u]))
      PROVE  ReqRight' /\ (Ends(r) \/ Grants(r, u))
  <2>1. users[u] \in User /\ users[u].id = u
    BY DEF StoreRight, StoreTypeOK, Existing
  <2> QED
    BY <1>2, <1>3, <2>1, GrantedEffect
<1> DEFINE a == IF q.verified /\ q.mail # None THEN "bymail" ELSE "candidate"
<1>4. CASE Go(r, [q EXCEPT !.after = 1, !.at = a])
  <2>0. a \in {"bymail", "candidate"} /\ 1 \in 1..Len(Candidates)
    BY GatewayAssumption
  <2> DEFINE n == [q EXCEPT !.after = 1, !.at = a]
  <2>1. Go(r, n)
    BY <1>4
  <2> HIDE DEF a
  <2>2. n \in Request
    BY <1>1, <2>0, SetField DEF Steps, Nexts
  <2>3. Alters(q, n, {"at", "after"}) /\ n.at = a /\ n.after = 1
    BY <1>1, <2>2 DEF Request, Alters, Fields
  <2> HIDE DEF n
  <2>4. Becomes(r, {"at", "after"}) /\ req'[r].at = a /\ req'[r].after = 1
    BY <2>1, <2>2, <2>3, GoBecomes
  <2>5. Control(req'[r])
    BY <1>1, <1>2, <2>0, <2>4 DEF Becomes, Alters, Fields, Control, InSteps, LookupRight
  <2> QED
    BY <1>1, <1>2, <2>0, <2>4, <2>5, BecomesRight
<1> QED
  BY <1>1, <1>3, <1>4 DEF BySub, FindByGatewaySub

LEMMA ByMailEffect ==
  ASSUME StoreTypeOK, StoreRight, ReqRight, NEW r \in Requests, ByMail(r)
  PROVE  /\ req[r].at = "bymail" /\ ReqRight'
         /\ \/ Moves(r, {"candidate"})
            \/ \E u \in Existing : /\ Becomes(r, {"at", "row", "user"}) /\ req'[r].at = "linkowner"
                                   /\ req'[r].user = u
<1> DEFINE q == req[r]
<1>1. q \in Request /\ Control(q) /\ q.at = "bymail"
  BY DEF ReqRight, ByMail, At
<1>2. q.op = "gateway"
  BY <1>1 DEF Control, InSteps
<1>3. CASE Move(r, "candidate")
  <2>1. Moves(r, {"candidate"})
    BY <1>3, MoveMoves DEF Moves, Steps
  <2> QED
    BY <1>1, <2>1, MovesRight DEF Moves
<1>4. ASSUME NEW u \in Existing, Go(r, [q EXCEPT !.at = "linkowner", !.row = users[u], !.user = users[u].id])
      PROVE  /\ ReqRight'
             /\ Becomes(r, {"at", "row", "user"}) /\ req'[r].at = "linkowner" /\ req'[r].user = u
  <2> DEFINE w == users[u]
  <2>0. w \in User /\ u \in Accounts /\ w.id = u
    BY DEF StoreRight, StoreTypeOK, Existing
  <2> DEFINE n == [q EXCEPT !.at = "linkowner", !.row = w, !.user = u]
  <2>1. Go(r, n)
    BY <1>4, <2>0
  <2> HIDE DEF w
  <2>2. n \in Request
    BY <1>1, <2>0, SetField DEF Steps, Nexts
  <2>3. Alters(q, n, {"at", "row", "user"}) /\ n.at = "linkowner" /\ n.row = w /\ n.user = u
    BY <1>1, <2>2 DEF Request, Alters, Fields
  <2> HIDE DEF n
  <2>4. Becomes(r, {"at", "row", "user"}) /\ req'[r].at = "linkowner" /\ req'[r].row = w /\ req'[r].user = u
    BY <2>1, <2>2, <2>3, GoBecomes
  <2>5. Control(req'[r])
    BY <1>1, <1>2, <2>0, <2>4 DEF Becomes, Alters, Fields, Control, InSteps, LookupRight
  <2> QED
    BY <1>1, <1>2, <2>0, <2>4, <2>5, BecomesRight
<1> QED
  BY <1>1, <1>3, <1>4 DEF ByMail, FindByEmail

LEMMA NextCandidateEffect ==
  ASSUME ReqRight, NEW r \in Requests, req[r].at \in {"candidate", "open"}, NextCandidate(r)
  PROVE  /\ ReqRight'
         /\ \/ Ends(r)
            \/ Becomes(r, {"at", "after"}) /\ req'[r].at = "candidate"
<1> DEFINE q == req[r]
           a == q.after + 1
<1>1. q \in Request /\ Control(q) /\ q.after \in 1..Len(Candidates) /\ q.op = "gateway"
  BY DEF ReqRight, Control, InSteps
<1>2. CASE Done(r)
  BY <1>2, DoneEnds, EndsRight
<1>3. CASE q.after < Len(Candidates) /\ Go(r, [q EXCEPT !.at = "candidate", !.after = a])
  <2>0. a \in Nat /\ a \in 1..Len(Candidates)
    BY <1>1, <1>3, GatewayAssumption
  <2> DEFINE n == [q EXCEPT !.at = "candidate", !.after = a]
  <2>1. Go(r, n)
    BY <1>3
  <2> HIDE DEF a
  <2>2. n \in Request
    BY <1>1, <2>0, SetField DEF Steps, Nexts
  <2>3. Alters(q, n, {"at", "after"}) /\ n.at = "candidate" /\ n.after = a
    BY <1>1, <2>2 DEF Request, Alters, Fields
  <2> HIDE DEF n
  <2>4. Becomes(r, {"at", "after"}) /\ req'[r].at = "candidate" /\ req'[r].after = a
    BY <2>1, <2>2, <2>3, GoBecomes
  <2>5. Control(req'[r])
    BY <1>1, <2>0, <2>4 DEF Becomes, Alters, Fields, Control, InSteps, LookupRight
  <2> QED
    BY <1>1, <2>0, <2>4, <2>5, BecomesRight
<1>4. [q EXCEPT !.at = "candidate", !.after = @ + 1] = [q EXCEPT !.at = "candidate", !.after = q.after + 1]
  OBVIOUS
<1> QED
  BY <1>2, <1>3, <1>4 DEF NextCandidate

LEMMA CandidateEffect ==
  ASSUME StoreTypeOK, StoreRight, ReqRight, NEW r \in Requests, Candidate(r)
  PROVE  /\ req[r].at = "candidate" /\ ReqRight'
         /\ \/ Ends(r)
            \/ Becomes(r, {"at", "after"}) /\ req'[r].at = "candidate"
            \/ Becomes(r, {"at", "name"}) /\ req'[r].at = "open"
<1> DEFINE q == req[r]
<1>1. q \in Request /\ Control(q) /\ q.at = "candidate"
  BY DEF ReqRight, Candidate, At
<1> DEFINE c == Candidates[q.after]
<1>2. CASE NextCandidate(r)
  BY <1>1, <1>2, NextCandidateEffect
<1>3. CASE Go(r, [q EXCEPT !.at = "open", !.name = c])
  <2>0. c \in Names /\ q.op = "gateway"
    BY <1>1, GatewayAssumption DEF Control, InSteps
  <2> DEFINE n == [q EXCEPT !.at = "open", !.name = c]
  <2>1. Go(r, n)
    BY <1>3
  <2> HIDE DEF c
  <2>2. n \in Request
    BY <1>1, <2>0, SetField DEF Steps, Nexts
  <2>3. Alters(q, n, {"at", "name"}) /\ n.at = "open"
    BY <1>1, <2>2 DEF Request, Alters, Fields
  <2> HIDE DEF n
  <2>4. Becomes(r, {"at", "name"}) /\ req'[r].at = "open"
    BY <2>1, <2>2, <2>3, GoBecomes
  <2>5. Control(req'[r])
    BY <1>1, <2>0, <2>4 DEF Becomes, Alters, Fields, Control, InSteps, LookupRight
  <2> QED
    BY <1>1, <2>0, <2>4, <2>5, BecomesRight
<1> QED
  BY <1>2, <1>3 DEF Candidate

LEMMA OpenAccountEffect ==
  ASSUME StoreTypeOK, StoreRight, ReqRight, NEW r \in Requests, OpenAccount(r)
  PROVE  /\ req[r].at = "open" /\ ReqRight'
         /\ \/ (Ends(r) \/ (Becomes(r, {"at", "after"}) /\ req'[r].at = "candidate"))
               /\ UNCHANGED <<users, seq, opened>>
            \/ /\ CreateUser(req[r].name, None, Viewer)
               /\ opened' = opened \cup {seq.account}
               /\ Becomes(r, {"at", "user", "victim", "after"}) /\ req'[r].at = "linknew"
               /\ req'[r].user = seq.account /\ req'[r].victim = seq.account /\ req'[r].after = 0
<1> DEFINE q == req[r]
<1>1. q \in Request /\ Control(q) /\ q.at = "open"
  BY DEF ReqRight, OpenAccount, At
<1>2. CASE NextCandidate(r) /\ UNCHANGED <<users, seq, opened>>
  BY <1>1, <1>2, NextCandidateEffect
<1> DEFINE u == seq.account
<1>3. CASE /\ CreateUser(q.name, None, Viewer) /\ opened' = opened \cup {u}
           /\ Go(r, [q EXCEPT !.at = "linknew", !.user = u, !.victim = u, !.after = 0])
  <2>0. u \in Accounts /\ q.op = "gateway"
    BY <1>1, <1>3 DEF CreateUser, Control, InSteps
  <2> DEFINE n == [q EXCEPT !.at = "linknew", !.user = u, !.victim = u, !.after = 0]
  <2>1. Go(r, n)
    BY <1>3
  <2> HIDE DEF u
  <2>2. n \in Request
    BY <1>1, <2>0, SetField DEF Steps, Nexts
  <2>3. Alters(q, n, {"at", "user", "victim", "after"}) /\ n.at = "linknew" /\ n.user = u
        /\ n.victim = u /\ n.after = 0
    BY <1>1, <2>2 DEF Request, Alters, Fields
  <2> HIDE DEF n
  <2>4. Becomes(r, {"at", "user", "victim", "after"}) /\ req'[r].at = "linknew" /\ req'[r].user = u
        /\ req'[r].victim = u /\ req'[r].after = 0
    BY <2>1, <2>2, <2>3, GoBecomes
  <2>5. Control(req'[r])
    BY <1>1, <1>3, <2>0, <2>4 DEF Becomes, Alters, Fields, Control, InSteps, LookupRight
  <2> QED
    BY <1>1, <1>3, <2>0, <2>4, <2>5, BecomesRight DEF u
<1> QED
  BY <1>2, <1>3 DEF OpenAccount

LEMMA LinkNewEffect ==
  ASSUME StoreTypeOK, StoreRight, ReqRight, NEW r \in Requests, LinkNew(r)
  PROVE  /\ req[r].at = "linknew" /\ ReqRight'
         /\ \/ CanLink(r) /\ LinkGatewaySub(req[r].user, req[r].sub) /\ Moves(r, {"openapprove"})
            \/ UNCHANGED users /\ Becomes(r, {"at", "then"}) /\ req'[r].at = "drop" /\ req'[r].then = "owner"
<1> DEFINE q == req[r]
<1>1. q \in Request /\ Control(q) /\ q.at = "linknew"
  BY DEF ReqRight, LinkNew, At
<1>2. q.op = "gateway"
  BY <1>1 DEF Control, InSteps
<1>3. CASE CanLink(r) /\ LinkGatewaySub(q.user, q.sub) /\ Move(r, "openapprove")
  <2>1. Moves(r, {"openapprove"})
    BY <1>3, MoveMoves DEF Moves, Steps
  <2>2. ReqRight'
    BY <1>1, <2>1, MovesRight DEF Moves
  <2> QED
    BY <1>1, <1>3, <2>1, <2>2
<1>4. CASE UNCHANGED users /\ Go(r, [q EXCEPT !.at = "drop", !.then = "owner"])
  <2> DEFINE n == [q EXCEPT !.at = "drop", !.then = "owner"]
  <2>1. Go(r, n)
    BY <1>4
  <2>2. n \in Request
    BY <1>1, SetField DEF Steps, Nexts
  <2>3. Alters(q, n, {"at", "then"}) /\ n.at = "drop" /\ n.then = "owner"
    BY <1>1, <2>2 DEF Request, Alters, Fields
  <2> HIDE DEF n
  <2>4. Becomes(r, {"at", "then"}) /\ req'[r].at = "drop" /\ req'[r].then = "owner"
    BY <2>1, <2>2, <2>3, GoBecomes
  <2>5. Control(req'[r])
    BY <1>1, <1>2, <1>4, <2>4 DEF Becomes, Alters, Fields, Control, InSteps, LookupRight
  <2> QED
    BY <1>1, <1>2, <1>4, <2>4, <2>5, BecomesRight
<1> QED
  BY <1>3, <1>4 DEF LinkNew

LEMMA LinkOwnerEffect ==
  ASSUME StoreTypeOK, StoreRight, ReqRight, NEW r \in Requests, LinkOwner(r)
  PROVE  /\ req[r].at = "linkowner" /\ ReqRight'
         /\ \/ /\ CanLink(r) /\ LinkGatewaySub(req[r].user, req[r].sub)
               /\ Ends(r) \/ Grants(r, req[r].user)
            \/ UNCHANGED users /\ Moves(r, {"owner"})
<1> DEFINE q == req[r]
<1>1. q \in Request /\ Control(q) /\ q.at = "linkowner"
  BY DEF ReqRight, LinkOwner, At
<1>2. q.op = "gateway" /\ q.row \in User /\ q.row.id = q.user
  BY <1>1 DEF Control, InSteps
<1>3. CASE CanLink(r) /\ LinkGatewaySub(q.user, q.sub) /\ Go(r, Granted(r, q.row))
  BY <1>1, <1>2, <1>3, GrantedEffect
<1>4. CASE UNCHANGED users /\ Move(r, "owner")
  <2>1. Moves(r, {"owner"})
    BY <1>4, MoveMoves DEF Moves, Steps
  <2>2. ReqRight'
    BY <1>1, <2>1, MovesRight DEF Moves
  <2> QED
    BY <1>1, <1>4, <2>1, <2>2
<1> QED
  BY <1>3, <1>4 DEF LinkOwner

LEMMA OpenAddressEffect ==
  ASSUME StoreTypeOK, StoreRight, ReqRight, NEW r \in Requests, OpenAddress(r)
  PROVE  /\ req[r].at = "openaddress" /\ ReqRight'
         /\ Moves(r, {"issue"})
         /\ \/ UNCHANGED <<users, links>>
            \/ /\ UpdateEmail(req[r].user, req[r].mail)
               /\ \A o \in Requests \ {r} :
                    req[o].at # "idle" /\ req[o].user = req[r].user => "address" \in req'[o].crossed
<1> DEFINE q == req[r]
<1>1. q \in Request /\ Control(q) /\ q.at = "openaddress"
  BY DEF ReqRight, OpenAddress, At
<1> DEFINE n == [q EXCEPT !.at = "issue"]
<1>2. CASE Move(r, "issue") /\ UNCHANGED <<users, links>>
  <2>1. Moves(r, {"issue"})
    BY <1>2, MoveMoves DEF Moves, Steps
  <2>2. ReqRight'
    BY <1>1, <2>1, MovesRight DEF Moves
  <2> QED
    BY <1>1, <1>2, <2>1, <2>2
<1>3. CASE UpdateEmail(q.user, q.mail) /\ Cross(r, q.user, "address", n)
  <2>1. n \in Request
    BY <1>1, SetField DEF Steps
  <2>2. Alters(q, n, {"at"}) /\ n.at = "issue"
    BY <1>1, <2>1 DEF Request, Alters, Fields
  <2> HIDE DEF n
  <2>3. /\ Becomes(r, {"at"}) /\ req'[r] = n
        /\ \A o \in Requests \ {r} :
             req[o].at # "idle" /\ req[o].user = q.user => "address" \in req'[o].crossed
    BY <1>3, <2>1, <2>2, CrossBecomes
  <2>4. Moves(r, {"issue"}) /\ ReqRight'
    BY <1>1, <2>2, <2>3, MovesRight DEF Moves
  <2> QED
    BY <1>1, <1>3, <2>3, <2>4
<1> QED
  BY <1>2, <1>3 DEF OpenAddress

\* Where a request goes on when a failure is ignored.
LEMMA IgnoreEffect ==
  ASSUME ReqRight, NEW r \in Requests, Ignore(r)
  PROVE  /\ ReqRight'
         /\ \/ /\ req[r].at = "lookup" /\ Becomes(r, {"at", "row"})
               /\ req'[r].at = req[r].then /\ req'[r].row = NoUser
            \/ /\ req[r].at = "mergeguest"
               /\ \/ Ends(r)
                  \/ /\ Becomes(r, {"at", "probe", "then"}) /\ req'[r].at = "lookup"
                     /\ req'[r].then = "mediaowner" /\ req[r].op = "login"
            \/ req[r].at = "deltoken" /\ Moves(r, {"untoken"})
            \/ /\ req[r].at \in {"unmedia", "unindex"}
               /\ Ends(r) \/ (Moves(r, {"issue"}) /\ req[r].op = "gateway")
<1> DEFINE q == req[r]
<1>1. q \in Request /\ Control(q)
  BY DEF ReqRight
<1>2. CASE /\ q.at = "lookup" /\ q.then \in {"forget", "merge", "mergeguest", "mediaowner"}
           /\ Go(r, [q EXCEPT !.at = q.then, !.row = NoUser])
  <2> DEFINE n == [q EXCEPT !.at = q.then, !.row = NoUser]
  <2>1. n \in Request
    <3>1. q.then \in Steps
      BY <1>2 DEF Steps
    <3> QED
      BY <1>1, <3>1, SetField
  <2>2. Alters(q, n, {"at", "row"}) /\ n.at = q.then /\ n.row = NoUser
    BY <1>1, <2>1 DEF Request, Alters, Fields
  <2>3. Go(r, n)
    BY <1>2
  <2> HIDE DEF n
  <2>4. Becomes(r, {"at", "row"}) /\ req'[r].at = q.then /\ req'[r].row = NoUser
    BY <2>1, <2>2, <2>3, GoBecomes
  <2>5. Control(req'[r])
    BY <1>1, <1>2, <2>4 DEF Becomes, Alters, Fields, Control, InSteps, LookupRight, BearerOps, Targeted
  <2> QED
    BY <1>2, <2>4, <2>5, BecomesRight
<1>3. CASE q.at = "mergeguest" /\ Go(r, AfterMerge(r))
  <2>1. q.op \in {"register", "login"} /\ q.new \in Tokens
    BY <1>1, <1>3 DEF Control, InSteps
  <2>2. CASE q.op = "login"
    <3>1. Go(r, Seek(q, q.new, "mediaowner")) /\ "mediaowner" \in Nexts
      BY <1>3, <2>2 DEF AfterMerge, Nexts
    <3>2. /\ Becomes(r, {"at", "probe", "then"}) /\ req'[r].at = "lookup" /\ req'[r].probe = q.new
          /\ req'[r].then = "mediaowner"
      BY <1>1, <2>1, <3>1, SeekBecomes, GoBecomes
    <3>3. Control(req'[r])
      BY <1>1, <2>1, <2>2, <3>2 DEF Becomes, Alters, Fields, Control, InSteps, LookupRight
    <3> QED
      BY <1>3, <2>2, <3>2, <3>3, BecomesRight
  <2>3. CASE q.op # "login"
    BY <1>3, <2>3, DoneEnds, EndsRight DEF AfterMerge, Done
  <2> QED
    BY <2>2, <2>3
<1>4. CASE q.at = "deltoken" /\ Move(r, "untoken")
  <2>1. Moves(r, {"untoken"})
    BY <1>4, MoveMoves DEF Moves, Steps
  <2> QED
    BY <1>4, <2>1, MovesRight DEF Moves
<1>5. CASE q.at \in {"unmedia", "unindex"} /\ Go(r, AfterUnmedia(r))
  <2>1. CASE q.op = "gateway"
    <3>1. Moves(r, {"issue"})
      BY <1>5, <2>1, MoveMoves DEF AfterUnmedia, Move, Moves, Steps
    <3> QED
      BY <1>5, <2>1, <3>1, MovesRight DEF Moves
  <2>2. CASE q.op # "gateway"
    BY <1>5, <2>2, DoneEnds, EndsRight DEF AfterUnmedia, Done
  <2> QED
    BY <2>1, <2>2
<1> QED
  BY <1>2, <1>3, <1>4, <1>5 DEF Ignore, At

LEMMA GoOnEffect ==
  ASSUME ReqRight, NEW r \in Requests, GoOn(r)
  PROVE  /\ ReqRight' /\ req[r].op = "gateway"
         /\ \/ /\ req[r].at = "revoke" /\ Becomes(r, {"at", "after"})
               /\ req'[r].at = "unmedia" /\ req'[r].after = 0
            \/ /\ req[r].at = "linknew" /\ Becomes(r, {"at", "then"})
               /\ req'[r].at = "drop" /\ req'[r].then = "gone"
            \/ req[r].at \in {"drop", "dropuser"} /\ (Ends(r) \/ Moves(r, {"owner"}))
            \/ req[r].at = "openapprove" /\ Moves(r, {"issue", "openmail"})
            \/ req[r].at \in {"openmail", "openaddress"} /\ Moves(r, {"issue"})
<1> DEFINE q == req[r]
<1>1. q \in Request /\ Control(q) /\ q.op = "gateway"
  BY DEF ReqRight, GoOn
<1>2. CASE q.at = "revoke" /\ Go(r, [q EXCEPT !.at = "unmedia", !.after = 0])
  <2> DEFINE n == [q EXCEPT !.at = "unmedia", !.after = 0]
  <2>1. n \in Request
    BY <1>1, SetField DEF Steps
  <2>2. Alters(q, n, {"at", "after"}) /\ n.at = "unmedia" /\ n.after = 0
    BY <1>1, <2>1 DEF Request, Alters, Fields
  <2>3. Go(r, n)
    BY <1>2
  <2> HIDE DEF n
  <2>4. Becomes(r, {"at", "after"}) /\ req'[r].at = "unmedia" /\ req'[r].after = 0
    BY <2>1, <2>2, <2>3, GoBecomes
  <2>5. Control(req'[r])
    BY <1>1, <1>2, <2>4 DEF Becomes, Alters, Fields, Control, InSteps, LookupRight
  <2> QED
    BY <1>1, <1>2, <2>4, <2>5, BecomesRight
<1>3. CASE q.at = "linknew" /\ Go(r, [q EXCEPT !.at = "drop", !.then = "gone"])
  <2> DEFINE n == [q EXCEPT !.at = "drop", !.then = "gone"]
  <2>1. n \in Request
    BY <1>1, SetField DEF Steps, Nexts
  <2>2. Alters(q, n, {"at", "then"}) /\ n.at = "drop" /\ n.then = "gone"
    BY <1>1, <2>1 DEF Request, Alters, Fields
  <2>3. Go(r, n)
    BY <1>3
  <2> HIDE DEF n
  <2>4. Becomes(r, {"at", "then"}) /\ req'[r].at = "drop" /\ req'[r].then = "gone"
    BY <2>1, <2>2, <2>3, GoBecomes
  <2>5. Control(req'[r])
    BY <1>1, <1>3, <2>4 DEF Becomes, Alters, Fields, Control, InSteps, LookupRight
  <2> QED
    BY <1>1, <1>3, <2>4, <2>5, BecomesRight
<1>4. CASE q.at \in {"drop", "dropuser"} /\ Go(r, AfterUncache(r))
  <2>1. q.then \in {"owner", "gone"}
    BY <1>1, <1>4 DEF Control
  <2>2. CASE q.then = "owner"
    <3>1. Move(r, "owner")
      BY <1>1, <1>4, <2>2 DEF AfterUncache, Move
    <3>2. Moves(r, {"owner"})
      BY <3>1, MoveMoves DEF Moves, Steps
    <3>3. Control(req'[r])
      BY <1>1, <2>2, <3>2 DEF Moves, Becomes, Alters, Fields, Control, InSteps
    <3> QED
      BY <1>1, <1>4, <3>2, <3>3, BecomesRight DEF Moves
  <2>3. CASE q.then = "gone"
    BY <1>1, <1>4, <2>3, DoneEnds, EndsRight DEF AfterUncache, Done
  <2> QED
    BY <2>1, <2>2, <2>3
<1>5. CASE q.at = "openapprove" /\ Go(r, AfterApprove(r))
  <2>1. Move(r, "issue") \/ Move(r, "openmail")
    BY <1>5 DEF AfterApprove, Move
  <2>2. Moves(r, {"issue", "openmail"})
    BY <2>1, MoveMoves DEF Moves, Steps
  <2> QED
    BY <1>1, <1>5, <2>2, MovesRight DEF Moves
<1>6. CASE q.at \in {"openmail", "openaddress"} /\ Move(r, "issue")
  <2>1. Moves(r, {"issue"})
    BY <1>6, MoveMoves DEF Moves, Steps
  <2> QED
    BY <1>1, <1>6, <2>1, MovesRight DEF Moves
<1> QED
  BY <1>2, <1>3, <1>4, <1>5, <1>6 DEF GoOn, At

\* The first steps of the requests.
Entries == {"count", "login", "newguest", "lookup", "byemail", "consume", "media", "bysub"}

\* A new request takes an idle place.
Starts(r) ==
  /\ req[r].at = "idle" /\ Becomes(r, Fields) /\ req'[r].at \in Entries /\ req'[r].crossed = {}
  /\ req'[r].after = 0 /\ UNCHANGED <<store, cache, mediaVars, history>>
  /\ scene' = [scene EXCEPT !.calls = @ - 1]

\* A request that is in order and new starts in an idle place.
LEMMA CallStarts ==
  ASSUME ReqRight, NEW r \in Requests, req[r].at = "idle", NEW q \in Request, Control(q),
         q.at \in Entries, q.crossed = {}, q.after = 0, Call(r, q)
  PROVE  Starts(r) /\ ReqRight' /\ req'[r] = q
<1>1. Alters(req[r], q, Fields)
  BY DEF Alters
<1>2. Becomes(r, Fields) /\ req'[r] = q
  BY <1>1, GoBecomes DEF Call
<1> QED
  BY <1>2, BecomesRight DEF Starts, Call

\* So do the requests behind bearer_auth, all those that arrive, and the callbacks.
LEMMA BearerStarts ==
  ASSUME ReqRight, NEW r \in Requests, req[r].at = "idle", NEW op \in BearerOps,
         NEW u \in Accounts \cup {0}, NEW m \in Emails \cup {None}, NEW p \in Passwords \cup {None},
         Bearer(r, op, u, m, p)
  PROVE  Starts(r) /\ ReqRight' /\ req'[r].sub = None
<1> DEFINE a == Asked(op, "lookup")
<1>1. op \in Ops /\ "lookup" \in Steps
  BY DEF BearerOps, Ops, Targeted, Steps
<1>2. a \in Request /\ a.op = op /\ a.at = "lookup" /\ a.sub = None /\ a.crossed = {} /\ a.after = 0
  BY <1>1, AskedRight DEF Asked, Idle
<1> HIDE DEF a
<1>3. PICK t \in Issued : Call(r, Seek([a EXCEPT !.token = t, !.victim = u, !.mail = m, !.pw = p], t, "admit"))
  BY DEF Bearer, a
<1>4. t \in Tokens
  BY DEF Issued
<1> DEFINE b == [a EXCEPT !.token = t, !.victim = u, !.mail = m, !.pw = p]
           n == Seek(b, t, "admit")
<1>5. b \in Request
  BY <1>2, <1>4, SetField
<1>6. b.op = op /\ b.sub = None /\ b.crossed = {} /\ b.after = 0
  BY <1>2 DEF Request
<1> HIDE DEF b
<1>6a. "admit" \in Nexts
  BY DEF Nexts
<1>7. /\ n \in Request /\ Alters(b, n, {"at", "probe", "then"})
      /\ n.at = "lookup" /\ n.probe = t /\ n.then = "admit"
  BY <1>4, <1>5, <1>6a, SeekBecomes
<1>8. Call(r, n)
  BY <1>3 DEF b
<1> HIDE DEF n
<1>9. n.op = op /\ n.sub = None /\ n.crossed = {} /\ n.after = 0
  BY <1>6, <1>7 DEF Alters, Fields
<1>10. Control(n)
  BY <1>4, <1>7, <1>9 DEF Control, InSteps, LookupRight, BearerOps, Targeted
<1> QED
  BY <1>7, <1>8, <1>9, <1>10, CallStarts DEF Entries

LEMMA ArriveStarts ==
  ASSUME ReqRight, NEW r \in Requests, Arrive(r)
  PROVE  Starts(r) /\ ReqRight' /\ req'[r].sub = None
<1>0. req[r].at = "idle"
  BY DEF Arrive, Free, At
<1>1. ASSUME Register(r) PROVE Starts(r) /\ ReqRight' /\ req'[r].sub = None
  <2> DEFINE a == Asked("register", "count")
  <2>1. a \in Request /\ a.op = "register" /\ a.at = "count" /\ a.sub = None /\ a.crossed = {} /\ a.after = 0
    BY AskedRight DEF Asked, Idle, Ops, Steps
  <2> HIDE DEF a
  <2>2. PICK n \in Names, p \in Passwords, k \in Tokens \cup {0} :
          Call(r, [a EXCEPT !.name = n, !.pw = p, !.cookie = k])
    BY <1>1 DEF Register, Typed, Cookies, Issued, a
  <2> DEFINE q == [a EXCEPT !.name = n, !.pw = p, !.cookie = k]
  <2>3. q \in Request
    BY <2>1, SetField
  <2>4. q.op = "register" /\ q.at = "count" /\ q.sub = None /\ q.crossed = {} /\ q.after = 0
    BY <2>1 DEF Request
  <2>5. Control(q)
    BY <2>4 DEF Control, InSteps
  <2> QED
    BY <1>0, <2>2, <2>3, <2>4, <2>5, CallStarts DEF Entries
<1>2. ASSUME Login(r) PROVE Starts(r) /\ ReqRight' /\ req'[r].sub = None
  <2> DEFINE a == Asked("login", "login")
  <2>1. a \in Request /\ a.op = "login" /\ a.at = "login" /\ a.sub = None /\ a.crossed = {}
        /\ a.after = 0 /\ a.then = "done"
    BY AskedRight DEF Asked, Idle, Ops, Steps
  <2> HIDE DEF a
  <2>2. PICK n \in Names, p \in Passwords, k \in Tokens \cup {0} :
          Call(r, [a EXCEPT !.name = n, !.pw = p, !.cookie = k])
    BY <1>2 DEF Login, Typed, Cookies, Issued, a
  <2> DEFINE q == [a EXCEPT !.name = n, !.pw = p, !.cookie = k]
  <2>3. q \in Request
    BY <2>1, SetField
  <2>4. q.op = "login" /\ q.at = "login" /\ q.sub = None /\ q.crossed = {} /\ q.after = 0 /\ q.then = "done"
    BY <2>1 DEF Request
  <2>5. Control(q)
    BY <2>4 DEF Control, InSteps
  <2> QED
    BY <1>0, <2>2, <2>3, <2>4, <2>5, CallStarts DEF Entries
<1>3. ASSUME GuestSession(r) PROVE Starts(r) /\ ReqRight' /\ req'[r].sub = None
  <2> DEFINE q == Asked("guest", "newguest")
  <2>1. q \in Request /\ q.op = "guest" /\ q.at = "newguest" /\ q.sub = None /\ q.crossed = {} /\ q.after = 0
    BY AskedRight DEF Asked, Idle, Ops, Steps
  <2>2. Call(r, q)
    BY <1>3 DEF GuestSession
  <2> HIDE DEF q
  <2>3. Control(q)
    BY <2>1 DEF Control, InSteps
  <2> QED
    BY <1>0, <2>1, <2>2, <2>3, CallStarts DEF Entries
<1>4. ASSUME Logout(r) PROVE Starts(r) /\ ReqRight' /\ req'[r].sub = None
  <2> DEFINE a == Asked("logout", "lookup")
  <2>1. a \in Request /\ a.op = "logout" /\ a.sub = None /\ a.crossed = {} /\ a.after = 0
    BY AskedRight DEF Asked, Idle, Ops, Steps
  <2> HIDE DEF a
  <2>2. PICK t \in Tokens : Call(r, Seek([a EXCEPT !.token = t], t, "forget"))
    BY <1>4 DEF Logout, Issued, a
  <2> DEFINE b == [a EXCEPT !.token = t]
             q == Seek(b, t, "forget")
  <2>3. b \in Request
    BY <2>1, SetField
  <2>4. b.op = "logout" /\ b.sub = None /\ b.crossed = {} /\ b.after = 0
    BY <2>1 DEF Request
  <2> HIDE DEF b
  <2>5. "forget" \in Nexts
    BY DEF Nexts
  <2>6. /\ q \in Request /\ Alters(b, q, {"at", "probe", "then"})
        /\ q.at = "lookup" /\ q.probe = t /\ q.then = "forget"
    BY <2>3, <2>5, SeekBecomes
  <2>7. Call(r, q)
    BY <2>2 DEF b
  <2> HIDE DEF q
  <2>8. q.op = "logout" /\ q.sub = None /\ q.crossed = {} /\ q.after = 0
    BY <2>4, <2>6 DEF Alters, Fields
  <2>9. Control(q)
    BY <2>6, <2>8 DEF Control, InSteps, LookupRight
  <2> QED
    BY <1>0, <2>6, <2>7, <2>8, <2>9, CallStarts DEF Entries
<1>5. ASSUME ForgotPassword(r) PROVE Starts(r) /\ ReqRight' /\ req'[r].sub = None
  <2> DEFINE a == Asked("forgot", "byemail")
  <2>1. a \in Request /\ a.op = "forgot" /\ a.at = "byemail" /\ a.sub = None /\ a.crossed = {} /\ a.after = 0
    BY AskedRight DEF Asked, Idle, Ops, Steps
  <2> HIDE DEF a
  <2>2. PICK m \in Emails : Call(r, [a EXCEPT !.mail = m])
    BY <1>5 DEF ForgotPassword, Typed, a
  <2> DEFINE q == [a EXCEPT !.mail = m]
  <2>3. q \in Request
    BY <2>1, SetField
  <2>4. q.op = "forgot" /\ q.at = "byemail" /\ q.sub = None /\ q.crossed = {} /\ q.after = 0
    BY <2>1 DEF Request
  <2>5. Control(q)
    BY <2>4 DEF Control, InSteps
  <2> QED
    BY <1>0, <2>2, <2>3, <2>4, <2>5, CallStarts DEF Entries
<1>6. ASSUME ResetPassword(r) PROVE Starts(r) /\ ReqRight' /\ req'[r].sub = None
  <2> DEFINE a == Asked("reset", "consume")
  <2>1. a \in Request /\ a.op = "reset" /\ a.at = "consume" /\ a.sub = None /\ a.crossed = {} /\ a.after = 0
    BY AskedRight DEF Asked, Idle, Ops, Steps
  <2> HIDE DEF a
  <2>2. PICK l \in Links, p \in Passwords : Call(r, [a EXCEPT !.link = l, !.pw = p])
    BY <1>6 DEF ResetPassword, Typed, Sent, a
  <2> DEFINE q == [a EXCEPT !.link = l, !.pw = p]
  <2>3. q \in Request
    BY <2>1, SetField
  <2>4. q.op = "reset" /\ q.at = "consume" /\ q.sub = None /\ q.crossed = {} /\ q.after = 0 /\ q.link = l
    BY <2>1 DEF Request
  <2>5. Control(q)
    BY <2>4 DEF Control, InSteps
  <2> QED
    BY <1>0, <2>2, <2>3, <2>4, <2>5, CallStarts DEF Entries
<1>7. ASSUME VerifyEmailLink(r) PROVE Starts(r) /\ ReqRight' /\ req'[r].sub = None
  <2> DEFINE a == Asked("verify", "consume")
  <2>1. a \in Request /\ a.op = "verify" /\ a.at = "consume" /\ a.sub = None /\ a.crossed = {} /\ a.after = 0
    BY AskedRight DEF Asked, Idle, Ops, Steps
  <2> HIDE DEF a
  <2>2. PICK l \in Links : Call(r, [a EXCEPT !.link = l])
    BY <1>7 DEF VerifyEmailLink, Sent, a
  <2> DEFINE q == [a EXCEPT !.link = l]
  <2>3. q \in Request
    BY <2>1, SetField
  <2>4. q.op = "verify" /\ q.at = "consume" /\ q.sub = None /\ q.crossed = {} /\ q.after = 0 /\ q.link = l
    BY <2>1 DEF Request
  <2>5. Control(q)
    BY <2>4 DEF Control, InSteps
  <2> QED
    BY <1>0, <2>2, <2>3, <2>4, <2>5, CallStarts DEF Entries
<1>8. ASSUME MediaRequest(r) PROVE Starts(r) /\ ReqRight' /\ req'[r].sub = None
  <2> DEFINE a == Asked("media", "media")
  <2>1. a \in Request /\ a.op = "media" /\ a.at = "media" /\ a.sub = None /\ a.crossed = {} /\ a.after = 0
    BY AskedRight, NoneAssumption DEF Asked, Idle, Ops, Steps
  <2> HIDE DEF a
  <2>2. PICK t \in Tokens : Call(r, [a EXCEPT !.token = t])
    BY <1>8 DEF MediaRequest, Issued, a
  <2> DEFINE q == [a EXCEPT !.token = t]
  <2>3. q \in Request
    BY <2>1, SetField
  <2>4. q.op = "media" /\ q.at = "media" /\ q.sub = None /\ q.crossed = {} /\ q.after = 0 /\ q.token = t
    BY <2>1 DEF Request
  <2>5. Control(q)
    BY <2>4 DEF Control, InSteps
  <2> QED
    BY <1>0, <2>2, <2>3, <2>4, <2>5, CallStarts DEF Entries
<1>9. ASSUME \/ Use(r) \/ SendVerificationEmail(r) \/ ChangeEmail(r) \/ Administer(r)
             \/ AdminResetPassword(r)
      PROVE  Starts(r) /\ ReqRight' /\ req'[r].sub = None
  <2>1. \E op \in BearerOps, u \in Accounts \cup {0}, m \in Emails \cup {None}, p \in Passwords \cup {None} :
          Bearer(r, op, u, m, p)
    <3> USE DEF BearerOps, Targeted, Typed, Existing
    <3>1. CASE Use(r) \/ SendVerificationEmail(r)
      BY <3>1 DEF Use, SendVerificationEmail
    <3>2. CASE ChangeEmail(r)
      BY <3>2 DEF ChangeEmail
    <3>3. CASE Administer(r)
      BY <3>3 DEF Administer
    <3>4. CASE AdminResetPassword(r)
      BY <3>4 DEF AdminResetPassword
    <3> QED
      BY <1>9, <3>1, <3>2, <3>3, <3>4
  <2> QED
    BY <1>0, <2>1, BearerStarts
<1> QED
  BY <1>1, <1>2, <1>3, <1>4, <1>5, <1>6, <1>7, <1>8, <1>9 DEF Arrive

LEMMA CallbackStarts ==
  ASSUME ReqRight, NEW r \in Requests, NEW f \in pending, Callback(r, f)
  PROVE  Starts(r) /\ ReqRight' /\ req'[r].op = "gateway"
<1>0. req[r].at = "idle"
  BY DEF Callback, Free, At
<1> DEFINE a == Asked("gateway", "bysub")
<1>1. a \in Request /\ a.op = "gateway" /\ a.at = "bysub" /\ a.crossed = {} /\ a.after = 0
  BY AskedRight DEF Asked, Idle, Ops, Steps
<1> HIDE DEF a
<1>2. PICK s \in Subs, m \in Emails \cup {None}, v \in BOOLEAN :
        Call(r, [a EXCEPT !.sub = s, !.mail = m, !.verified = v])
  BY DEF Callback, Typed, a
<1> DEFINE q == [a EXCEPT !.sub = s, !.mail = m, !.verified = v]
<1>3. q \in Request
  BY <1>1, SetField
<1>4. q.op = "gateway" /\ q.at = "bysub" /\ q.sub = s /\ q.crossed = {} /\ q.after = 0
  BY <1>1 DEF Request
<1>5. Control(q)
  BY <1>4 DEF Control, InSteps
<1>6. req'[r] = q
  BY <1>2 DEF Call, Go, ReqRight
<1> QED
  BY <1>0, <1>2, <1>3, <1>4, <1>5, <1>6, CallStarts DEF Entries

\* A crash leaves every place idle.
LEMMA CrashRight == ASSUME Forgotten PROVE ReqRight' /\ \A r \in Requests : req'[r] = Idle
BY IdleRight DEF Forgotten, ReqRight

-----------------------------------------------------------------------------
(* The tables.                                                             *)

\* What the statements do to the tables.
LEMMA UpdateStore ==
  ASSUME StoreTypeOK, StoreRight, NEW u, NEW row, u \in Existing => row \in User /\ row.id = u,
         Update(u, row), UNCHANGED <<tokens, seq>>,
         links' \in [Links -> Link], cache' \in [Tokens -> User \cup {NoUser}]
  PROVE  /\ StoreTypeOK' /\ StoreRight' /\ Existing' = Existing
         /\ \A v \in Accounts : v # u => users'[v] = users[v]
         /\ u \in Existing => users'[u] = row
<1>1. users' \in [Accounts -> User \cup {NoUser}] /\ \A v \in Accounts : v # u => users'[v] = users[v]
  BY DEF StoreTypeOK, Update, Existing
<1>2. /\ u \in Existing => users'[u] = row
      /\ u \in Accounts \ Existing => users'[u] = users[u]
  BY DEF StoreTypeOK, Update, Existing
<1>3. NoUser \notin User
  BY IdsAssumption DEF NoUser, User
<1>4. Existing' = Existing
  BY <1>1, <1>2, <1>3 DEF StoreTypeOK, Existing
<1>5. StoreTypeOK'
  BY <1>1 DEF StoreTypeOK
<1>6. StoreRight'
  BY <1>1, <1>2, <1>4 DEF StoreRight, Live, Existing
<1> QED
  BY <1>1, <1>2, <1>4, <1>5, <1>6

\* What each kind of statement does to the tables: accounts and sessions untouched,
LEMMA QuietStore ==
  ASSUME StoreTypeOK, StoreRight, UNCHANGED <<users, tokens>>,
         seq' \in [account : Nat \ {0}, token : Nat \ {0}, link : Nat \ {0}],
         seq'.account = seq.account, seq'.token = seq.token,
         links' \in [Links -> Link], cache' \in [Tokens -> User \cup {NoUser}]
  PROVE  StoreTypeOK' /\ StoreRight' /\ Existing' = Existing
BY DEF StoreTypeOK, StoreRight, Existing, Live

\* sessions put out of use, accounts added or removed, a session issued, links mailed or used.
LEMMA SettleStore ==
  ASSUME StoreTypeOK, StoreRight, NEW T, NEW status \in {"revoked", "expired", "deleted"},
         Settle(T, status), UNCHANGED <<users, seq>>,
         links' \in [Links -> Link], cache' \in [Tokens -> User \cup {NoUser}]
  PROVE  /\ StoreTypeOK' /\ StoreRight' /\ Existing' = Existing
         /\ \A t \in Tokens :
              /\ tokens'[t].user = tokens[t].user /\ tokens'[t].after = tokens[t].after
              /\ tokens'[t].pw = tokens[t].pw /\ tokens'[t].sub = tokens[t].sub
              /\ Live(t)' <=> Live(t) /\ t \notin T
<1>1. ASSUME NEW t \in Tokens
      PROVE  /\ tokens'[t] \in Token
             /\ tokens'[t].user = tokens[t].user /\ tokens'[t].after = tokens[t].after
             /\ tokens'[t].pw = tokens[t].pw /\ tokens'[t].sub = tokens[t].sub
             /\ tokens'[t].status = "live" <=> tokens[t].status = "live" /\ t \notin T
  <2>1. tokens[t] \in Token
    BY DEF StoreTypeOK
  <2>2. CASE t \in T
    <3>1. tokens'[t] = [tokens[t] EXCEPT !.status = status]
      BY <2>2 DEF Settle
    <3> QED
      BY <2>1, <2>2, <3>1 DEF Token
  <2>3. CASE t \notin T
    BY <2>1, <2>3 DEF Settle
  <2> QED
    BY <2>2, <2>3
<1>2. tokens' \in [Tokens -> Token]
  BY <1>1 DEF Settle
<1>3. StoreTypeOK' /\ Existing' = Existing
  BY <1>2 DEF StoreTypeOK, Existing
<1>4. \A t \in Tokens : Live(t)' <=> Live(t) /\ t \notin T
  BY <1>1 DEF Live
<1>5. StoreRight'
  BY <1>1, <1>3, <1>4 DEF StoreRight
<1> QED
  BY <1>1, <1>3, <1>4, <1>5

LEMMA AddStore ==
  ASSUME StoreTypeOK, StoreRight, seq.account \in Accounts, NEW row \in User, row.id = seq.account,
         users' = [users EXCEPT ![seq.account] = row], seq' = [seq EXCEPT !.account = @ + 1],
         UNCHANGED <<tokens, links, cache>>
  PROVE  /\ StoreTypeOK' /\ StoreRight' /\ Existing' = Existing \cup {seq.account}
         /\ seq.account \notin Existing
         /\ seq'.account = seq.account + 1 /\ seq'.token = seq.token
         /\ \A v \in Accounts : v # seq.account => users'[v] = users[v]
         /\ users'[seq.account] = row
<1>0. seq \in [account : Nat \ {0}, token : Nat \ {0}, link : Nat \ {0}]
  BY DEF StoreTypeOK
<1>1. seq' \in [account : Nat \ {0}, token : Nat \ {0}, link : Nat \ {0}]
      /\ seq'.account = seq.account + 1 /\ seq'.token = seq.token
  BY <1>0
<1>2. /\ users' \in [Accounts -> User \cup {NoUser}] /\ users'[seq.account] = row
      /\ \A v \in Accounts : v # seq.account => users'[v] = users[v]
  BY DEF StoreTypeOK
<1>3. NoUser \notin User
  BY IdsAssumption DEF NoUser, User
<1>4. Existing' = Existing \cup {seq.account}
  BY <1>2, <1>3 DEF Existing
<1>5. StoreTypeOK'
  BY <1>1, <1>2 DEF StoreTypeOK
<1>6. seq.account \notin Existing
  BY <1>0 DEF StoreRight
<1>7. \A u \in Existing' : users'[u].id = u /\ u < seq'.account
  <2>1. \A u \in Existing : u \in Nat /\ u # seq.account /\ users'[u] = users[u]
    BY <1>2, <1>6, IdsAssumption DEF Existing
  <2> QED
    BY <1>0, <1>1, <1>2, <1>4, <2>1 DEF StoreRight
<1>8. StoreRight'
  BY <1>1, <1>4, <1>7 DEF StoreRight, Live
<1> QED
  BY <1>1, <1>2, <1>4, <1>5, <1>6, <1>8

LEMMA RemoveStore ==
  ASSUME StoreTypeOK, StoreRight, NEW u, RemoveUser(u), UNCHANGED <<links, seq, cache>>
  PROVE  /\ StoreTypeOK' /\ StoreRight' /\ Existing' = Existing \ {u}
         /\ \A v \in Accounts : v # u => users'[v] = users[v]
         /\ \A t \in Tokens :
              /\ tokens'[t].user = tokens[t].user /\ tokens'[t].after = tokens[t].after
              /\ tokens'[t].pw = tokens[t].pw /\ tokens'[t].sub = tokens[t].sub
              /\ Live(t)' <=> Live(t) /\ tokens[t].user # u
<1>1. ASSUME NEW t \in Tokens
      PROVE  /\ tokens'[t] \in Token
             /\ tokens'[t].user = tokens[t].user /\ tokens'[t].after = tokens[t].after
             /\ tokens'[t].pw = tokens[t].pw /\ tokens'[t].sub = tokens[t].sub
             /\ tokens'[t].status = "live" <=> tokens[t].status = "live" /\ tokens[t].user # u
  <2>1. tokens[t] \in Token
    BY DEF StoreTypeOK
  <2>2. CASE tokens[t].user = u
    <3>1. tokens'[t] = [tokens[t] EXCEPT !.status = "deleted"]
      BY <2>2 DEF RemoveUser
    <3> QED
      BY <2>1, <2>2, <3>1 DEF Token
  <2>3. CASE tokens[t].user # u
    BY <2>1, <2>3 DEF RemoveUser
  <2> QED
    BY <2>2, <2>3
<1>2. tokens' \in [Tokens -> Token]
  BY <1>1 DEF RemoveUser
<1>3. /\ users' \in [Accounts -> User \cup {NoUser}]
      /\ u \in Accounts => users'[u] = NoUser
      /\ \A v \in Accounts : v # u => users'[v] = users[v]
  BY DEF StoreTypeOK, RemoveUser
<1>4. StoreTypeOK'
  BY <1>2, <1>3 DEF StoreTypeOK
<1>5. Existing' = Existing \ {u}
  BY <1>3 DEF Existing
<1>6. \A t \in Tokens : Live(t)' <=> Live(t) /\ tokens[t].user # u
  BY <1>1 DEF Live
<1>7. StoreRight'
  BY <1>1, <1>3, <1>5, <1>6 DEF StoreRight, Existing
<1> QED
  BY <1>1, <1>3, <1>4, <1>5, <1>6, <1>7

LEMMA IssueStore ==
  ASSUME StoreTypeOK, StoreRight, NEW u \in Accounts \cup {0}, NEW after \in Nat,
         NEW pw \in Passwords \cup {None}, NEW sub \in Subs \cup {None},
         CreateToken(u, after, pw, sub), UNCHANGED <<users, links, cache>>
  PROVE  /\ StoreTypeOK' /\ StoreRight' /\ Existing' = Existing
         /\ seq.token \in Tokens /\ seq'.token = seq.token + 1 /\ seq'.account = seq.account
         /\ \A t \in Tokens \ {seq.token} : tokens'[t] = tokens[t]
         /\ tokens'[seq.token].user = u /\ tokens'[seq.token].after = after
         /\ tokens'[seq.token].pw = pw /\ tokens'[seq.token].sub = sub
         /\ ((tokens'[seq.token].status = "live") <=> (u \in Existing))
         /\ ~Live(seq.token)
<1>0. seq \in [account : Nat \ {0}, token : Nat \ {0}, link : Nat \ {0}] /\ seq.token \in Tokens
  BY DEF StoreTypeOK, CreateToken
<1>1. /\ seq' \in [account : Nat \ {0}, token : Nat \ {0}, link : Nat \ {0}]
      /\ seq'.account = seq.account /\ seq'.token = seq.token + 1
  BY <1>0 DEF CreateToken
<1> DEFINE s == IF u \in Existing THEN "live" ELSE "deleted"
           n == [user |-> u, after |-> after, pw |-> pw, sub |-> sub, status |-> s]
<1>2. n \in Token
  <2>1. s \in {"live", "deleted"}
    OBVIOUS
  <2> HIDE DEF s
  <2> QED
    BY <2>1 DEF Token
<1>3. tokens' = [tokens EXCEPT ![seq.token] = n]
  BY DEF CreateToken
<1>4. n.user = u /\ n.after = after /\ n.pw = pw /\ n.sub = sub /\ (n.status = "live" <=> u \in Existing)
  OBVIOUS
<1> HIDE DEF n
<1>5. /\ tokens' \in [Tokens -> Token] /\ tokens'[seq.token] = n
      /\ \A t \in Tokens \ {seq.token} : tokens'[t] = tokens[t]
  BY <1>0, <1>2, <1>3 DEF StoreTypeOK
<1>6. StoreTypeOK' /\ Existing' = Existing
  <2>1. Existing' = Existing
    BY DEF Existing
  <2>2. tokens' \in [Tokens -> Token]
    BY <1>5
  <2> QED
    BY <1>1, <2>1, <2>2 DEF StoreTypeOK
<1>7. (tokens'[seq.token].status = "live") <=> u \in Existing
  BY <1>4, <1>5
<1>8. \A t \in Tokens : t >= seq'.token => t # seq.token /\ t >= seq.token
  BY <1>0, <1>1, IdsAssumption
<1>9. StoreRight'
  <2>1. \A v \in Existing' : users'[v].id = v /\ v < seq'.account
    BY <1>1, <1>6 DEF StoreRight
  <2>2. \A t \in Tokens : t >= seq'.token => tokens'[t].user = 0
    BY <1>5, <1>8 DEF StoreRight
  <2>3. ASSUME NEW t \in Tokens, Live(t)' PROVE tokens'[t].user \in Existing'
    BY <1>4, <1>5, <1>6, <1>7, <2>3 DEF StoreRight, Live
  <2> QED
    BY <2>1, <2>2, <2>3 DEF StoreRight
<1>10. ~Live(seq.token)
  BY <1>0, IdsAssumption DEF StoreRight, Existing
<1> QED
  BY <1>0, <1>1, <1>4, <1>5, <1>6, <1>7, <1>9, <1>10

LEMMA UseLinksTyped ==
  ASSUME StoreTypeOK, NEW kind, NEW u
  PROVE  /\ UseLinks(kind, u) \in [Links -> Link]
         /\ \A l \in Links :
              LET n == UseLinks(kind, u)[l]
              IN /\ n.kind = links[l].kind /\ n.user = links[l].user /\ n.mail = links[l].mail
                 /\ IF links[l].kind = kind /\ links[l].user = u THEN n.used ELSE n = links[l]
<1>1. ASSUME NEW l \in Links
      PROVE  LET n == UseLinks(kind, u)[l]
             IN /\ n \in Link /\ n.kind = links[l].kind /\ n.user = links[l].user /\ n.mail = links[l].mail
                /\ IF links[l].kind = kind /\ links[l].user = u THEN n.used ELSE n = links[l]
  <2>1. links[l] \in Link
    BY DEF StoreTypeOK
  <2>2. CASE links[l].kind = kind /\ links[l].user = u
    <3>1. UseLinks(kind, u)[l] = [links[l] EXCEPT !.used = TRUE]
      BY <2>2 DEF UseLinks
    <3> QED
      BY <2>1, <2>2, <3>1 DEF Link
  <2>3. CASE ~(links[l].kind = kind /\ links[l].user = u)
    <3>1. UseLinks(kind, u)[l] = links[l]
      BY <2>3 DEF UseLinks
    <3> QED
      BY <2>1, <2>3, <3>1
  <2> QED
    BY <2>2, <2>3
<1>2. UseLinks(kind, u) = [l \in Links |-> UseLinks(kind, u)[l]]
  BY DEF UseLinks
<1>3. UseLinks(kind, u) \in [Links -> Link]
  BY <1>1, <1>2
<1> QED
  BY <1>1, <1>3

LEMMA LinkStore ==
  ASSUME StoreTypeOK, StoreRight, NEW kind \in {"verify", "reset"}, NEW u \in Accounts \cup {0},
         NEW mail \in Emails \cup {None}, CreateLink(kind, u, mail),
         UNCHANGED <<users, tokens, cache>>
  PROVE  /\ StoreTypeOK' /\ StoreRight' /\ Existing' = Existing
         /\ seq.link \in Links /\ seq'.account = seq.account /\ seq'.token = seq.token
         /\ links'[seq.link] = [kind |-> kind, user |-> u, used |-> FALSE, mail |-> mail]
         /\ \A l \in Links \ {seq.link} : ~links'[l].used => links'[l] = links[l]
<1>1. seq \in [account : Nat \ {0}, token : Nat \ {0}, link : Nat \ {0}] /\ seq.link \in Links
  BY DEF StoreTypeOK, CreateLink
<1>2. /\ seq' \in [account : Nat \ {0}, token : Nat \ {0}, link : Nat \ {0}]
      /\ seq'.account = seq.account /\ seq'.token = seq.token
  BY <1>1 DEF CreateLink
<1> DEFINE n == [kind |-> kind, user |-> u, used |-> FALSE, mail |-> mail]
<1>3. n \in Link
  BY DEF Link
<1> HIDE DEF n
<1>4. links' = [UseLinks(kind, u) EXCEPT ![seq.link] = n]
  BY DEF CreateLink, n
<1>5. /\ links' \in [Links -> Link] /\ links'[seq.link] = n
      /\ \A l \in Links \ {seq.link} : links'[l] = UseLinks(kind, u)[l]
  BY <1>1, <1>3, <1>4, UseLinksTyped
<1>6. \A l \in Links \ {seq.link} : ~links'[l].used => links'[l] = links[l]
  BY <1>5, UseLinksTyped
<1>7. cache' \in [Tokens -> User \cup {NoUser}]
  BY DEF StoreTypeOK
<1>8. StoreTypeOK' /\ StoreRight' /\ Existing' = Existing
  BY <1>2, <1>5, <1>7, QuietStore
<1> QED
  BY <1>1, <1>2, <1>5, <1>6, <1>8 DEF n

LEMMA ConsumeTyped ==
  ASSUME StoreTypeOK, NEW l \in Links, ConsumeLink(l)
  PROVE  /\ links' \in [Links -> Link]
         /\ \A k \in Links : ~links'[k].used => links'[k] = links[k]
<1>1. links[l] \in Link
  BY DEF StoreTypeOK
<1>2. [links[l] EXCEPT !.used = TRUE] \in Link /\ [links[l] EXCEPT !.used = TRUE].used = TRUE
  BY <1>1 DEF Link
<1>3. links' = [links EXCEPT ![l] = [links[l] EXCEPT !.used = TRUE]]
  BY DEF ConsumeLink
<1> HIDE DEF ConsumeLink
<1> QED
  BY <1>2, <1>3 DEF StoreTypeOK

\* What a step leaves of the store: sessions keep what they are and do not come back to
\* life, and neither do accounts, whose password, address and verification stay, but
\* for those in F; a new account is not verified.
Calm(F) ==
  /\ StoreTypeOK' /\ StoreRight'
  /\ seq'.token = seq.token /\ seq.account <= seq'.account
  /\ \A t \in Tokens :
       /\ tokens'[t].user = tokens[t].user /\ tokens'[t].after = tokens[t].after
       /\ tokens'[t].pw = tokens[t].pw /\ tokens'[t].sub = tokens[t].sub
       /\ Live(t)' => Live(t)
  /\ \A u \in Existing' :
       IF u < seq.account
       THEN /\ u \in Existing
            /\ users[u].sub # None => users'[u].sub = users[u].sub
            /\ users[u].approved => users'[u].approved
            /\ \A f \in {"pw", "email", "verified"} \ F : users'[u][f] = users[u][f]
       ELSE ~users'[u].verified

\* The same statements, as far as they are calm.
LEMMA QuietCalm ==
  ASSUME StoreTypeOK, StoreRight, UNCHANGED <<users, tokens>>,
         seq' \in [account : Nat \ {0}, token : Nat \ {0}, link : Nat \ {0}],
         seq'.account = seq.account, seq'.token = seq.token,
         links' \in [Links -> Link], cache' \in [Tokens -> User \cup {NoUser}]
  PROVE  Calm({})
<1>1. StoreTypeOK' /\ StoreRight' /\ Existing' = Existing
  BY QuietStore
<1>2. \A u \in Existing : u < seq.account
  BY DEF StoreRight
<1>3. seq.account <= seq'.account
  BY DEF StoreTypeOK
<1> QED
  BY <1>1, <1>2, <1>3 DEF Calm, Live

LEMMA UpdateCalm ==
  ASSUME StoreTypeOK, StoreRight, NEW u, NEW row, NEW F,
         u \in Existing =>
           /\ row \in User /\ row.id = u
           /\ users[u].sub # None => row.sub = users[u].sub
           /\ users[u].approved => row.approved
           /\ \A f \in {"pw", "email", "verified"} \ F : row[f] = users[u][f],
         Update(u, row), UNCHANGED <<tokens, seq>>,
         links' \in [Links -> Link], cache' \in [Tokens -> User \cup {NoUser}]
  PROVE  Calm(F) /\ Existing' = Existing
<1>1. /\ StoreTypeOK' /\ StoreRight' /\ Existing' = Existing
      /\ \A v \in Accounts : v # u => users'[v] = users[v]
      /\ u \in Existing => users'[u] = row
  BY UpdateStore
<1>2. \A v \in Existing : v < seq.account /\ v \in Accounts
  BY DEF StoreRight, Existing
<1>3. seq.account <= seq'.account
  BY DEF StoreTypeOK
<1>4. ASSUME NEW v \in Existing
      PROVE  /\ users[v].sub # None => users'[v].sub = users[v].sub
             /\ users[v].approved => users'[v].approved
             /\ \A f \in {"pw", "email", "verified"} \ F : users'[v][f] = users[v][f]
  BY <1>1, <1>2
<1> QED
  BY <1>1, <1>2, <1>3, <1>4 DEF Calm, Live

LEMMA SettleCalm ==
  ASSUME StoreTypeOK, StoreRight, NEW T, NEW status \in {"revoked", "expired", "deleted"},
         Settle(T, status), UNCHANGED <<users, links, seq, cache>>
  PROVE  Calm({}) /\ \A t \in T \cap Tokens : ~Live(t)'
<1>1. links' \in [Links -> Link] /\ cache' \in [Tokens -> User \cup {NoUser}]
  BY DEF StoreTypeOK
<1>2. /\ StoreTypeOK' /\ StoreRight' /\ Existing' = Existing
      /\ \A t \in Tokens :
           /\ tokens'[t].user = tokens[t].user /\ tokens'[t].after = tokens[t].after
           /\ tokens'[t].pw = tokens[t].pw /\ tokens'[t].sub = tokens[t].sub
           /\ Live(t)' <=> Live(t) /\ t \notin T
  BY <1>1, SettleStore
<1>3. \A u \in Existing : u < seq.account
  BY DEF StoreRight
<1>4. seq.account <= seq'.account
  BY DEF StoreTypeOK
<1> QED
  BY <1>2, <1>3, <1>4 DEF Calm

LEMMA AddCalm ==
  ASSUME StoreTypeOK, StoreRight, seq.account \in Accounts, NEW row \in User, row.id = seq.account,
         ~row.verified,
         users' = [users EXCEPT ![seq.account] = row], seq' = [seq EXCEPT !.account = @ + 1],
         UNCHANGED <<tokens, links, cache>>
  PROVE  /\ Calm({}) /\ Existing' = Existing \cup {seq.account}
         /\ seq'.account = seq.account + 1 /\ seq.account \in Nat
<1>1. /\ StoreTypeOK' /\ StoreRight' /\ Existing' = Existing \cup {seq.account}
      /\ seq.account \notin Existing
      /\ seq'.account = seq.account + 1 /\ seq'.token = seq.token
      /\ \A v \in Accounts : v # seq.account => users'[v] = users[v]
      /\ users'[seq.account] = row
  BY AddStore
<1>2. \A u \in Existing : u < seq.account /\ u \in Accounts
  BY DEF StoreRight, Existing
<1>3. seq.account <= seq'.account /\ seq.account \in Nat
  BY <1>1 DEF StoreTypeOK
<1> QED
  BY <1>1, <1>2, <1>3 DEF Calm, Live

LEMMA RemoveCalm ==
  ASSUME StoreTypeOK, StoreRight, NEW u, RemoveUser(u), UNCHANGED <<links, seq, cache>>
  PROVE  /\ Calm({}) /\ Existing' = Existing \ {u}
         /\ \A t \in Tokens : Live(t)' <=> Live(t) /\ tokens[t].user # u
<1>1. /\ StoreTypeOK' /\ StoreRight' /\ Existing' = Existing \ {u}
      /\ \A v \in Accounts : v # u => users'[v] = users[v]
      /\ \A t \in Tokens :
           /\ tokens'[t].user = tokens[t].user /\ tokens'[t].after = tokens[t].after
           /\ tokens'[t].pw = tokens[t].pw /\ tokens'[t].sub = tokens[t].sub
           /\ Live(t)' <=> Live(t) /\ tokens[t].user # u
  BY RemoveStore
<1>2. \A v \in Existing : v < seq.account /\ v \in Accounts
  BY DEF StoreRight, Existing
<1>3. seq.account <= seq'.account
  BY DEF StoreTypeOK
<1> QED
  BY <1>1, <1>2, <1>3 DEF Calm

\* The rows that the statements write are rows.
LEMMA NewUserRow ==
  ASSUME StoreTypeOK, seq.account \in Accounts, NEW n \in Names \cup {None},
         NEW p \in Passwords \cup {None}, NEW role \in {Viewer, Admin}, NEW g \in BOOLEAN
  PROVE  /\ NewUser(n, p, role, g) \in User /\ NewUser(n, p, role, g).id = seq.account
         /\ ~NewUser(n, p, role, g).verified
<1>1. (g \/ role >= Admin) \in BOOLEAN
  OBVIOUS
<1> QED
  BY <1>1 DEF NewUser, User

\* A row with one field exchanged is a row.
LEMMA RowField ==
  ASSUME StoreTypeOK, NEW u \in Existing
  PROVE  /\ users[u] \in User /\ u \in Accounts
         /\ \A x \in Passwords \cup {None} : [users[u] EXCEPT !.pw = x] \in User
         /\ \A x \in BOOLEAN : [users[u] EXCEPT !.approved = x] \in User
         /\ \A x \in BOOLEAN : [users[u] EXCEPT !.verified = x] \in User
         /\ \A x \in {Viewer, Admin} : [users[u] EXCEPT !.role = x] \in User
         /\ \A x \in Subs \cup {None} : [users[u] EXCEPT !.sub = x] \in User
         /\ \A x \in Emails \cup {None} : [users[u] EXCEPT !.email = x, !.verified = FALSE] \in User
         /\ [users[u] EXCEPT !.role = Admin, !.approved = TRUE] \in User
<1>1. users[u] \in User /\ u \in Accounts
  BY DEF StoreTypeOK, Existing
<1> QED
  BY <1>1 DEF User

\* The cache holds rows, whatever is put in or taken out.
LEMMA CacheTyped ==
  ASSUME StoreTypeOK, \/ UNCHANGED cache
                      \/ \E u : InvalidateCachedTokensForUser(u)
                      \/ \E t : InvalidateCachedToken(t)
                      \/ \E t : \E row \in User \cup {NoUser} : CacheToken(t, row)
                      \/ cache' = [t \in Tokens |-> NoUser]
  PROVE  cache' \in [Tokens -> User \cup {NoUser}]
<1>1. \A u : InvalidateCachedTokensForUser(u) => cache' \in [Tokens -> User \cup {NoUser}]
  BY DEF StoreTypeOK, InvalidateCachedTokensForUser
<1>2. \A t : InvalidateCachedToken(t) => cache' \in [Tokens -> User \cup {NoUser}]
  BY DEF StoreTypeOK, InvalidateCachedToken
<1>3. \A t : \A row \in User \cup {NoUser} : CacheToken(t, row) => cache' \in [Tokens -> User \cup {NoUser}]
  BY DEF StoreTypeOK, CacheToken
<1> QED
  BY <1>1, <1>2, <1>3 DEF StoreTypeOK

\* No link that could verify an address is new or changed.
LinksCalm == \A l \in Links : links'[l].kind = "verify" /\ ~links'[l].used => links'[l] = links[l]

\* Nothing in the tables changed.
LEMMA QuietKept ==
  ASSUME StoreTypeOK, StoreRight, UNCHANGED store, cache' \in [Tokens -> User \cup {NoUser}]
  PROVE  Calm({}) /\ LinksCalm /\ Existing' = Existing
<1>1. seq' \in [account : Nat \ {0}, token : Nat \ {0}, link : Nat \ {0}] /\ links' \in [Links -> Link]
  BY DEF StoreTypeOK, store
<1>2. Calm({})
  BY <1>1, QuietCalm DEF store
<1> QED
  BY <1>2 DEF LinksCalm, store, Existing

\* The steps that leave the tables alone.
QuietSteps(r) ==
  \/ FindByToken(r) \/ Fill(r) \/ Admit(r) \/ Uncache(r) \/ MediaMembers(r) \/ InvalidateMediaAuthUser(r)
  \/ CountStep(r) \/ NameStep(r) \/ LoginStep(r) \/ MergeOwner(r) \/ MediaOwner(r) \/ Forget(r)
  \/ InvalidateMediaAuthToken(r) \/ Reauthenticate(r) \/ ReadAddress(r) \/ ForgetfulUser(r)
  \/ MediaLocal(r) \/ MediaRedis(r) \/ MediaFill(r) \/ MediaPut(r)
  \/ BySub(r) \/ ByMail(r) \/ Candidate(r) \/ SignInOwner(r) \/ OpenMail(r) \/ HandOver(r)
  \/ Ignore(r) \/ GoOn(r)

\* The steps that read, and those on the caches alone.
LEMMA QuietStepsKeep ==
  ASSUME StoreTypeOK, StoreRight, ReqRight, NEW r \in Requests, QuietSteps(r)
  PROVE  UNCHANGED <<store, proof>> /\ cache' \in [Tokens -> User \cup {NoUser}]
<1> USE DEF history, unchangedHere
<1>1. CASE \/ FindByToken(r) \/ Admit(r) \/ MediaMembers(r) \/ InvalidateMediaAuthUser(r)
           \/ CountStep(r) \/ NameStep(r) \/ LoginStep(r) \/ MergeOwner(r) \/ MediaOwner(r)
           \/ InvalidateMediaAuthToken(r) \/ Reauthenticate(r) \/ ReadAddress(r) \/ ForgetfulUser(r)
  <2>1. UNCHANGED <<store, proof>> /\ UNCHANGED cache
    BY <1>1 DEF FindByToken, Admit, MediaMembers, InvalidateMediaAuthUser, CountStep, NameStep, LoginStep,
       MergeOwner, MediaOwner, InvalidateMediaAuthToken, Reauthenticate, ReadAddress, ForgetfulUser
  <2> QED
    BY <2>1, CacheTyped
<1>2. CASE \/ MediaLocal(r) \/ MediaRedis(r) \/ MediaFill(r) \/ MediaPut(r) \/ BySub(r) \/ ByMail(r)
           \/ Candidate(r) \/ SignInOwner(r) \/ OpenMail(r) \/ HandOver(r)
  <2>1. UNCHANGED <<store, proof>> /\ UNCHANGED cache
    BY <1>2 DEF MediaLocal, MediaRedis, MediaFill, MediaPut, BySub, ByMail, Candidate, SignInOwner,
       OpenMail, HandOver
  <2> QED
    BY <2>1, CacheTyped
<1>3. CASE Fill(r)
  <2>1. req[r].row \in User \cup {NoUser}
    BY DEF ReqRight, Request
  <2>2. CacheToken(req[r].probe, req[r].row) /\ UNCHANGED <<store, proof>>
    BY <1>3 DEF Fill
  <2>3. \E t : \E row \in User \cup {NoUser} : CacheToken(t, row)
    BY <2>1, <2>2
  <2> QED
    BY <2>2, <2>3, CacheTyped
<1>4. CASE Uncache(r)
  BY <1>4, CacheTyped DEF Uncache
<1>5. CASE Forget(r)
  BY <1>5, CacheTyped DEF Forget
<1>6. CASE Ignore(r) \/ GoOn(r)
  <2>1. UNCHANGED <<store, proof>> /\ UNCHANGED cache
    BY <1>6 DEF Ignore, GoOn
  <2> QED
    BY <2>1, CacheTyped
<1> QED
  BY <1>1, <1>2, <1>3, <1>4, <1>5, <1>6 DEF QuietSteps

\* The steps that put sessions out of use.
SettleSteps(r) == Revoke(r) \/ DeleteTokenStep(r) \/ DropTokens(r) \/ Kick(r)

\* The steps that put sessions out of use: after a revocation the account has none.
LEMMA SettleStepsCalm ==
  ASSUME StoreTypeOK, StoreRight, NEW r \in Requests, SettleSteps(r)
  PROVE  /\ Calm({}) /\ LinksCalm /\ UNCHANGED <<users, links, seq, cache, proof>>
         /\ Revoke(r) => \A t \in Tokens : Live(t)' => tokens[t].user # req[r].victim
<1> USE DEF history
<1>1. UNCHANGED <<users, links, seq, cache, proof>>
  BY DEF SettleSteps, Revoke, DeleteTokenStep, DropTokens, Kick
<1>2. LinksCalm
  BY <1>1 DEF LinksCalm
<1>3. CASE Revoke(r)
  <2> DEFINE T == {t \in TokensOf(req[r].victim) : Live(t)}
  <2>1. Settle(T, "revoked")
    BY <1>3 DEF Revoke, RevokeTokensByUserId
  <2>2. Calm({}) /\ \A t \in T \cap Tokens : ~Live(t)'
    BY <1>1, <2>1, SettleCalm
  <2>3. \A t \in Tokens : Live(t)' => tokens[t].user # req[r].victim
    BY <2>2 DEF TokensOf, Calm
  <2> QED
    BY <1>1, <1>2, <2>2, <2>3
<1>4. CASE DeleteTokenStep(r) \/ DropTokens(r) \/ Kick(r)
  <2>1. PICK T : Settle(T, "deleted")
    BY <1>4 DEF DeleteTokenStep, DropTokens, Kick, DeleteToken, DeleteTokensByUserId
  <2>2. Calm({})
    BY <1>1, <2>1, SettleCalm
  <2>3. ~Revoke(r)
    BY <1>4 DEF Revoke, DeleteTokenStep, DropTokens, Kick, At
  <2> QED
    BY <1>1, <1>2, <2>2, <2>3
<1> QED
  BY <1>3, <1>4 DEF SettleSteps

\* The steps that change the row of an account.
LEMMA VerifyCalm ==
  ASSUME StoreTypeOK, StoreRight, ReqRight, NEW r \in Requests, Verify(r)
  PROVE  Calm({"verified"}) /\ UNCHANGED links
<1> DEFINE u == req[r].user
           row == [users[u] EXCEPT !.verified = TRUE]
<1>1. u \in Existing => row \in User
  BY RowField
<1>2. u \in Existing => users[u] \in User /\ users[u].id = u
  BY RowField DEF StoreRight
<1>3. Update(u, row) /\ UNCHANGED <<tokens, seq, links, cache>>
  BY DEF Verify, VerifyEmail
<1>4. u \in Existing =>
        /\ row.id = u /\ row.sub = users[u].sub /\ row.approved = users[u].approved
        /\ \A f \in {"pw", "email", "verified"} \ {"verified"} : row[f] = users[u][f]
  BY <1>2 DEF User
<1> HIDE DEF row
<1> QED
  BY <1>1, <1>3, <1>4, UpdateCalm DEF StoreTypeOK

\* The steps that change one field of an account are calm in all others.
LEMMA RightsCalm ==
  ASSUME StoreTypeOK, StoreRight, ReqRight, NEW r \in Requests,
         Approve(r) \/ OpenApprove(r) \/ Toggle(r)
  PROVE  /\ Calm({}) /\ LinksCalm /\ Existing' = Existing /\ UNCHANGED <<links, seq, proof, tokens>>
         /\ OpenApprove(r) /\ req[r].user \in Existing => users'[req[r].user].approved
<1> DEFINE u == IF req[r].at = "openapprove" THEN req[r].user ELSE req[r].victim
           row == IF Toggle(r) THEN IF users[u].role >= Admin THEN [users[u] EXCEPT !.role = Viewer]
                                    ELSE [users[u] EXCEPT !.role = Admin, !.approved = TRUE]
                  ELSE [users[u] EXCEPT !.approved = TRUE]
<1>1. UNCHANGED <<tokens, seq, links, cache, proof>>
  BY DEF Approve, OpenApprove, Toggle, history
<1>2. Update(u, row)
  <2>1. CASE Toggle(r)
    BY <2>1 DEF Toggle, At, ToggleAdmin
  <2>2. CASE ~Toggle(r)
    BY <2>2 DEF Approve, OpenApprove, ApproveUser, At
  <2> QED
    BY <2>1, <2>2
<1>3. u \in Existing => users[u] \in User /\ users[u].id = u
  BY RowField DEF StoreRight
<1>4. u \in Existing => row \in User
  <2> HIDE DEF u
  <2> QED
    BY RowField
<1>5. u \in Existing =>
        /\ row.id = u /\ row.sub = users[u].sub /\ (users[u].approved => row.approved)
        /\ \A f \in {"pw", "email", "verified"} \ {} : row[f] = users[u][f]
  <2> HIDE DEF u
  <2> QED
    BY <1>3 DEF User
<1>6. OpenApprove(r) => u = req[r].user /\ (u \in Existing => row.approved)
  <2>1. OpenApprove(r) => ~Toggle(r) /\ u = req[r].user
    BY DEF OpenApprove, Toggle, At
  <2> HIDE DEF u
  <2> QED
    BY <2>1, <1>3 DEF User
<1> HIDE DEF row, u
<1>7. links' \in [Links -> Link] /\ cache' \in [Tokens -> User \cup {NoUser}]
  BY <1>1 DEF StoreTypeOK
<1>8. Calm({}) /\ Existing' = Existing
  BY <1>1, <1>2, <1>4, <1>5, <1>7, UpdateCalm
<1>9. u \in Existing => users'[u] = row
  BY <1>1, <1>2, <1>4, <1>5, <1>7, UpdateStore
<1> QED
  BY <1>1, <1>6, <1>8, <1>9 DEF LinksCalm

LEMMA SubCalm ==
  ASSUME StoreTypeOK, StoreRight, NEW r \in Requests, req[r].sub \in Subs, CanLink(r),
         LinkGatewaySub(req[r].user, req[r].sub), UNCHANGED <<tokens, links, seq, cache>>
  PROVE  /\ Calm({}) /\ LinksCalm /\ Existing' = Existing /\ req[r].user \in Existing
         /\ users'[req[r].user].sub = req[r].sub
<1> DEFINE u == req[r].user
           s == req[r].sub
           row == [users[u] EXCEPT !.sub = s]
<1>1. u \in Existing /\ users[u].sub \in {None, s}
  BY DEF CanLink, Linkable
<1>2. users[u] \in User /\ users[u].id = u
  BY <1>1, RowField DEF StoreRight
<1>3. row \in User
  BY <1>1, RowField
<1>4. /\ row.id = u /\ row.sub = s /\ row.approved = users[u].approved
      /\ \A f \in {"pw", "email", "verified"} \ {} : row[f] = users[u][f]
  BY <1>2 DEF User
<1>5. Update(u, row)
  BY DEF LinkGatewaySub
<1> HIDE DEF row
<1>6. links' \in [Links -> Link] /\ cache' \in [Tokens -> User \cup {NoUser}]
  BY DEF StoreTypeOK
<1>7. /\ users[u].sub # None => row.sub = users[u].sub
      /\ users[u].approved => row.approved
  BY <1>1, <1>4
<1>8. Calm({}) /\ Existing' = Existing
  BY <1>3, <1>4, <1>5, <1>6, <1>7, UpdateCalm
<1>9. users'[u] = row
  BY <1>1, <1>3, <1>4, <1>5, <1>6, UpdateStore
<1> QED
  BY <1>1, <1>4, <1>8, <1>9 DEF LinksCalm

\* A changed address takes the links sent to the old one out of use.
LEMMA EmailCalm ==
  ASSUME StoreTypeOK, StoreRight, NEW u \in Accounts \cup {0}, NEW m \in Emails \cup {None},
         UpdateEmail(u, m), UNCHANGED <<tokens, seq, cache>>
  PROVE  /\ Calm({"email", "verified"}) /\ LinksCalm /\ Existing' = Existing
         /\ \A v \in Existing : IF v = u THEN ~users'[v].verified ELSE users'[v] = users[v]
         /\ \A l \in Links : links'[l].kind = "verify" /\ ~links'[l].used => links'[l].user # u
<1> DEFINE row == [users[u] EXCEPT !.email = m, !.verified = FALSE]
<1>1. u \in Existing => users[u] \in User /\ users[u].id = u
  BY RowField DEF StoreRight
<1>2. u \in Existing => row \in User
  BY RowField
<1>3. u \in Existing =>
        /\ row.id = u /\ row.sub = users[u].sub /\ row.approved = users[u].approved /\ ~row.verified
        /\ \A f \in {"pw", "email", "verified"} \ {"email", "verified"} : row[f] = users[u][f]
  BY <1>1 DEF User
<1>4. Update(u, row) /\ links' = UseLinks("verify", u)
  BY DEF UpdateEmail, SetEmail
<1> HIDE DEF row
<1>5. links' \in [Links -> Link] /\ cache' \in [Tokens -> User \cup {NoUser}]
  BY <1>4, UseLinksTyped DEF StoreTypeOK
<1>6. Calm({"email", "verified"}) /\ Existing' = Existing
  BY <1>2, <1>3, <1>4, <1>5, UpdateCalm
<1>7. /\ \A v \in Accounts : v # u => users'[v] = users[v]
      /\ u \in Existing => users'[u] = row
  BY <1>2, <1>3, <1>4, <1>5, UpdateStore
<1>8. \A v \in Existing : IF v = u THEN ~users'[v].verified ELSE users'[v] = users[v]
  BY <1>3, <1>7 DEF Existing
<1>9. \A l \in Links : links'[l].kind = "verify" /\ ~links'[l].used => links'[l] = links[l]
      /\ links'[l].user # u
  BY <1>4, UseLinksTyped
<1> QED
  BY <1>6, <1>8, <1>9 DEF LinksCalm

LEMMA PasswordCalm ==
  ASSUME StoreTypeOK, StoreRight, NEW u \in Existing, NEW p \in Passwords \cup {None},
         UpdatePassword(u, p), RevokeTokensByUserId(u), UNCHANGED <<links, seq, cache>>
  PROVE  /\ Calm({"pw"}) /\ LinksCalm /\ Existing' = Existing
         /\ \A v \in Existing \ {u} : users'[v] = users[v]
         /\ \A t \in Tokens : Live(t)' => tokens[t].user # u
<1> DEFINE row == [users[u] EXCEPT !.pw = p]
           T == {t \in TokensOf(u) : Live(t)}
<1>1. users[u] \in User /\ users[u].id = u /\ u \in Accounts
  BY RowField DEF StoreRight
<1>2. row \in User /\ row.id = u /\ row.sub = users[u].sub /\ row.approved = users[u].approved
      /\ \A f \in {"pw", "email", "verified"} \ {"pw"} : row[f] = users[u][f]
  BY <1>1, RowField DEF User
<1>3. Update(u, row) /\ Settle(T, "revoked")
  BY DEF UpdatePassword, RevokeTokensByUserId
<1> HIDE DEF row, T
<1>4. /\ users' \in [Accounts -> User \cup {NoUser}] /\ users'[u] = row
      /\ \A v \in Accounts \ {u} : users'[v] = users[v]
  BY <1>1, <1>2, <1>3 DEF StoreTypeOK, Update
<1>5. NoUser \notin User
  BY IdsAssumption DEF NoUser, User
<1>6. Existing' = Existing
  BY <1>1, <1>2, <1>4, <1>5 DEF Existing
<1>7. ASSUME NEW t \in Tokens
      PROVE  /\ tokens'[t] \in Token
             /\ tokens'[t].user = tokens[t].user /\ tokens'[t].after = tokens[t].after
             /\ tokens'[t].pw = tokens[t].pw /\ tokens'[t].sub = tokens[t].sub
             /\ tokens'[t].status = "live" <=> tokens[t].status = "live" /\ t \notin T
  <2>1. tokens[t] \in Token
    BY DEF StoreTypeOK
  <2>2. CASE t \in T
    <3>1. tokens'[t] = [tokens[t] EXCEPT !.status = "revoked"]
      BY <1>3, <2>2 DEF Settle
    <3> QED
      BY <2>1, <2>2, <3>1 DEF Token
  <2>3. CASE t \notin T
    BY <1>3, <2>1, <2>3 DEF Settle
  <2> QED
    BY <2>2, <2>3
<1>8. tokens' \in [Tokens -> Token]
  BY <1>3, <1>7 DEF Settle
<1>9. StoreTypeOK'
  BY <1>4, <1>8 DEF StoreTypeOK
<1>10. \A t \in Tokens : Live(t)' <=> Live(t) /\ t \notin T
  BY <1>7 DEF Live
<1>11. StoreRight'
  <2>1. \A v \in Existing' : users'[v].id = v /\ v < seq'.account
    BY <1>2, <1>4, <1>6 DEF StoreRight, Existing
  <2> QED
    BY <1>6, <1>7, <1>10, <2>1 DEF StoreRight
<1>12. \A t \in Tokens : Live(t)' => tokens[t].user # u
  BY <1>10 DEF T, TokensOf
<1>13. \A v \in Existing : v < seq.account /\ v \in Accounts
  BY DEF StoreRight, Existing
<1>14. ASSUME NEW v \in Existing
       PROVE  /\ users'[v].sub = users[v].sub /\ users'[v].approved = users[v].approved
              /\ \A f \in {"pw", "email", "verified"} \ {"pw"} : users'[v][f] = users[v][f]
  BY <1>2, <1>4, <1>13
<1>15. seq'.token = seq.token /\ seq.account <= seq'.account
  BY DEF StoreTypeOK
<1>16. Calm({"pw"})
  BY <1>6, <1>7, <1>9, <1>10, <1>11, <1>13, <1>14, <1>15 DEF Calm
<1> QED
  BY <1>4, <1>6, <1>12, <1>13, <1>16 DEF LinksCalm

\* The steps that open an account.
LEMMA CreateCalm ==
  ASSUME StoreTypeOK, StoreRight, NEW n \in Names \cup {None}, NEW p \in Passwords \cup {None},
         NEW role \in {Viewer, Admin},
         CreateUser(n, p, role) \/ CreateGuestUser, UNCHANGED <<tokens, links, cache>>
  PROVE  /\ Calm({}) /\ LinksCalm /\ seq.account \in Accounts /\ Existing' = Existing \cup {seq.account}
         /\ seq'.account = seq.account + 1 /\ seq.account \in Nat
<1>1. PICK row \in User : /\ seq.account \in Accounts
                          /\ row.id = seq.account /\ ~row.verified
                          /\ users' = [users EXCEPT ![seq.account] = row]
                          /\ seq' = [seq EXCEPT !.account = @ + 1]
  <2>1. CASE CreateUser(n, p, role)
    <3>1. seq.account \in Accounts
      BY <2>1 DEF CreateUser
    <3>2. NewUser(n, p, role, FALSE) \in User /\ NewUser(n, p, role, FALSE).id = seq.account
          /\ ~NewUser(n, p, role, FALSE).verified
      BY <3>1, NewUserRow
    <3> QED
      BY <2>1, <3>2 DEF CreateUser
  <2>2. CASE CreateGuestUser
    <3>1. seq.account \in Accounts
      BY <2>2 DEF CreateGuestUser
    <3>2. NewUser(None, None, Viewer, TRUE) \in User /\ NewUser(None, None, Viewer, TRUE).id = seq.account
          /\ ~NewUser(None, None, Viewer, TRUE).verified
      BY <3>1, NewUserRow
    <3> QED
      BY <2>2, <3>2 DEF CreateGuestUser
  <2> QED
    BY <2>1, <2>2
<1>2. /\ Calm({}) /\ Existing' = Existing \cup {seq.account}
      /\ seq'.account = seq.account + 1 /\ seq.account \in Nat
  BY <1>1, AddCalm
<1> QED
  BY <1>1, <1>2 DEF LinksCalm

\* The steps that create or use up a mailed link.
LEMMA LinkCalm ==
  ASSUME StoreTypeOK, StoreRight, NEW kind \in {"verify", "reset"}, NEW u \in Existing,
         NEW m \in Emails \cup {None}, CreateLink(kind, u, m), UNCHANGED <<users, tokens, cache>>
  PROVE  /\ Calm({}) /\ Existing' = Existing /\ seq'.account = seq.account
         /\ seq.link \in Links /\ links'[seq.link].kind = kind /\ links'[seq.link].user = u
         /\ links'[seq.link].mail = m
         /\ \A l \in Links \ {seq.link} : ~links'[l].used => links'[l] = links[l]
<1>1. u \in Accounts \cup {0}
  BY DEF Existing
<1>2. /\ StoreTypeOK' /\ StoreRight' /\ Existing' = Existing
      /\ seq.link \in Links /\ seq'.account = seq.account /\ seq'.token = seq.token
      /\ links'[seq.link] = [kind |-> kind, user |-> u, used |-> FALSE, mail |-> m]
      /\ \A l \in Links \ {seq.link} : ~links'[l].used => links'[l] = links[l]
  BY <1>1, LinkStore
<1>3. /\ seq' \in [account : Nat \ {0}, token : Nat \ {0}, link : Nat \ {0}]
      /\ links' \in [Links -> Link] /\ cache' \in [Tokens -> User \cup {NoUser}]
  BY <1>2 DEF StoreTypeOK
<1>4. Calm({})
  BY <1>2, <1>3, QuietCalm
<1> QED
  BY <1>2, <1>4

\* A link is used up.
LEMMA ConsumeCalm ==
  ASSUME StoreTypeOK, StoreRight, NEW l \in Links, ConsumeLink(l), UNCHANGED <<users, tokens, seq, cache>>
  PROVE  Calm({}) /\ LinksCalm /\ Existing' = Existing
<1>1. links' \in [Links -> Link] /\ \A k \in Links : ~links'[k].used => links'[k] = links[k]
  BY ConsumeTyped
<1>2. seq' \in [account : Nat \ {0}, token : Nat \ {0}, link : Nat \ {0}]
      /\ cache' \in [Tokens -> User \cup {NoUser}]
  BY DEF StoreTypeOK
<1>3. Calm({})
  BY <1>1, <1>2, QuietCalm
<1> QED
  BY <1>1, <1>3 DEF LinksCalm, Existing

-----------------------------------------------------------------------------
(* The base.                                                               *)

\* The base of all that follows: tables, requests and media sessions.
MediaTyped ==
  /\ local \in SUBSET Tokens /\ redis \in SUBSET Tokens /\ index \in SUBSET Tokens
  /\ late \in SUBSET Tokens /\ orphaned \in SUBSET Tokens

BaseRight == StoreTypeOK /\ StoreRight /\ ReqRight /\ MediaTyped

\* The steps of a request.
Step(r) == Proceed(r) \/ SignIn(r)

\* The step of a request keeps all requests in order.
LEMMA StepReq ==
  ASSUME BaseRight, NEW r \in Requests, Step(r)
  PROVE  ReqRight'
<1> USE DEF BaseRight
<1>1. CASE \/ FindByToken(r) \/ Fill(r) \/ Admit(r) \/ Uncache(r)
  BY <1>1, FindEffect, FillEffect, AdmitEffect, UncacheEffect
<1>2. CASE MediaMembers(r) \/ InvalidateMediaAuthUser(r) \/ MediaRedis(r)
  BY <1>2, MediaEffects DEF MediaTyped
<1>3. CASE \/ NameStep(r) \/ Forget(r) \/ DeleteTokenStep(r) \/ Reauthenticate(r) \/ DropTokens(r)
           \/ DropUser(r) \/ Kick(r) \/ MediaLocal(r) \/ MediaFill(r) \/ OpenApprove(r) \/ OpenMail(r)
  <2>1. CASE Ends(r)
    BY <2>1, EndsRight
  <2>2. CASE ~Ends(r)
    <3>1. /\ Becomes(r, {"at"})
          /\ <<req[r].at, req'[r].at>> \in
               {<<"name", "create">>, <<"forget", "deltoken">>, <<"deltoken", "untoken">>,
                <<"email", "setemail">>, <<"delete", "dropuser">>, <<"reject", "dropuser">>,
                <<"drop", "dropuser">>, <<"dropuser", "uncache">>, <<"kick", "uncache">>,
                <<"media", "mediaredis">>, <<"mediafill", "mediaput">>,
                <<"openapprove", "issue">>, <<"openapprove", "openmail">>, <<"openmail", "issue">>,
                <<"openmail", "openaddress">>}
      BY <1>3, <2>2, MoveEffects DEF Moves
    <3> QED
      BY <3>1, MovesRight
  <2> QED
    BY <2>1, <2>2
<1>4. CASE CountStep(r) \/ CreateStep(r) \/ LoginStep(r) \/ Revoke(r) \/ Issue(r) \/ NewGuest(r)
  BY <1>4, CountStepEffect, CreateStepEffect, LoginStepEffect, RevokeEffect, IssueEffect, NewGuestEffect
<1>5. CASE MergeOwner(r) \/ MergeGuest(r) \/ MediaOwner(r) \/ ReadAddress(r) \/ ForgetfulUser(r) \/ Consume(r)
  BY <1>5, MergeOwnerEffect, MergeGuestEffect, MediaOwnerEffect, ReadAddressEffect, ForgetfulUserEffect,
     ConsumeEffect
<1>6. CASE ChangeEmailStep(r) \/ SetPassword(r) \/ OpenAddress(r) \/ OpenAccount(r) \/ LinkNew(r)
      \/ LinkOwner(r)
  BY <1>6, ChangeEmailStepEffect, SetPasswordEffect, OpenAddressEffect, OpenAccountEffect, LinkNewEffect,
     LinkOwnerEffect
<1>7. CASE SignInOwner(r) \/ BySub(r) \/ ByMail(r) \/ Candidate(r)
  BY <1>7, SignInOwnerEffect, BySubEffect, ByMailEffect, CandidateEffect
<1>8. CASE \/ InvalidateMediaAuthToken(r) \/ SendLink(r) \/ ResetLink(r) \/ Verify(r) \/ Approve(r)
           \/ Toggle(r) \/ MediaPut(r) \/ HandOver(r)
  BY <1>8, EndEffects, EndsRight
<1>9. CASE Ignore(r) \/ GoOn(r)
  BY <1>9, IgnoreEffect, GoOnEffect
<1> QED
  BY <1>1, <1>2, <1>3, <1>4, <1>5, <1>6, <1>7, <1>8, <1>9 DEF Step, Proceed, SignIn

\* The steps that change the store in a way of their own.
Special(r) == Verify(r) \/ ChangeEmailStep(r) \/ OpenAddress(r) \/ SetPassword(r) \/ Issue(r)

\* The ranges of the fields of a request.
LEMMA RequestFields ==
  ASSUME ReqRight, NEW r \in Requests
  PROVE  /\ req[r].user \in Accounts \cup {0} /\ req[r].victim \in Accounts \cup {0}
         /\ req[r].name \in Names \cup {None} /\ req[r].pw \in Passwords \cup {None}
         /\ req[r].mail \in Emails \cup {None} /\ req[r].role \in {Viewer, Admin}
         /\ req[r].sub \in Subs \cup {None} /\ req[r].after \in Nat
         /\ req[r].new \in Tokens \cup {0} /\ req[r].token \in Tokens \cup {0}
         /\ req[r].probe \in Tokens \cup {0} /\ req[r].row \in User \cup {NoUser}
         /\ req[r].op \in Ops /\ req[r].at \in Steps
BY DEF ReqRight, Request

\* Every step of a request is calm, but for the issue of a session and the three statements
LEMMA StepCalm ==
  ASSUME BaseRight, NEW r \in Requests, Step(r), ~Special(r)
  PROVE  Calm({})
<1> USE DEF BaseRight
<1>1. CASE QuietSteps(r)
  BY <1>1, QuietStepsKeep, QuietKept
<1>2. CASE SettleSteps(r)
  BY <1>2, SettleStepsCalm
<1>3. CASE Approve(r) \/ OpenApprove(r) \/ Toggle(r)
  BY <1>3, RightsCalm
<1>4. CASE CreateStep(r)
  <2>1. CASE CreateUser(req[r].name, req[r].pw, req[r].role) /\ UNCHANGED <<tokens, links, cache>>
    BY <2>1, CreateCalm, RequestFields
  <2>2. CASE UNCHANGED <<store, cache>>
    BY <2>2, QuietKept, CacheTyped
  <2> QED
    BY <1>4, <2>1, <2>2 DEF CreateStep
<1>5. CASE NewGuest(r)
  <2>1. CreateGuestUser /\ UNCHANGED <<tokens, links, cache>>
    BY <1>5 DEF NewGuest
  <2> QED
    BY <2>1, CreateCalm, RequestFields
<1>6. CASE OpenAccount(r)
  <2>1. CASE CreateUser(req[r].name, None, Viewer) /\ UNCHANGED <<tokens, links, cache>>
    BY <2>1, CreateCalm, RequestFields
  <2>2. CASE UNCHANGED <<store, cache>>
    BY <2>2, QuietKept, CacheTyped
  <2> QED
    BY <1>6, <2>1, <2>2 DEF OpenAccount, store
<1>7. CASE MergeGuest(r) \/ DropUser(r)
  <2>1. CASE \E u : RemoveUser(u) /\ UNCHANGED <<links, seq, cache>>
    BY <2>1, RemoveCalm
  <2>2. CASE UNCHANGED <<store, cache>>
    BY <2>2, QuietKept, CacheTyped
  <2> QED
    BY <1>7, <2>1, <2>2 DEF MergeGuest, DropUser, store
<1>8. CASE SendLink(r) \/ ResetLink(r)
  <2>1. CASE UNCHANGED <<store, cache>>
    BY <2>1, QuietKept, CacheTyped
  <2>2. ASSUME ~UNCHANGED <<store, cache>>
        PROVE  /\ req[r].user \in Existing /\ UNCHANGED <<users, tokens, cache>>
               /\ \E kind \in {"verify", "reset"}, m \in Emails \cup {None} : CreateLink(kind, req[r].user, m)
    <3>1. CASE SendLink(r)
      <4>1. (IF "address" \in req[r].crossed THEN None ELSE req[r].mail) \in Emails \cup {None}
        BY RequestFields
      <4> QED
        BY <2>2, <3>1, <4>1 DEF SendLink, CreateEmailVerificationToken, store
    <3>2. CASE ResetLink(r)
      BY <2>2, <3>2, RequestFields DEF ResetLink, CreatePasswordResetToken, store
    <3> QED
      BY <1>8, <3>1, <3>2
  <2> QED
    BY <2>1, <2>2, LinkCalm
<1>9. CASE Consume(r)
  <2>1. CASE UNCHANGED <<store, cache>>
    BY <2>1, QuietKept, CacheTyped
  <2>2. CASE ~UNCHANGED <<store, cache>>
    <3>1. req[r].link \in Links /\ ConsumeLink(req[r].link) /\ UNCHANGED <<users, tokens, seq, cache>>
      BY <1>9, <2>2, ConsumeEffect DEF Consume, store
    <3> QED
      BY <3>1, ConsumeCalm
  <2> QED
    BY <2>1, <2>2
<1>10. CASE LinkNew(r) \/ LinkOwner(r)
  <2>1. CASE UNCHANGED users
    BY <1>10, <2>1, QuietKept, CacheTyped DEF LinkNew, LinkOwner, store
  <2>2. CASE ~UNCHANGED users
    <3>1. CanLink(r) /\ LinkGatewaySub(req[r].user, req[r].sub) /\ UNCHANGED <<tokens, links, seq, cache>>
      BY <1>10, <2>2 DEF LinkNew, LinkOwner
    <3>2. req[r].sub \in Subs
      BY <1>10 DEF LinkNew, LinkOwner, At, ReqRight, Control, InSteps
    <3> QED
      BY <3>1, <3>2, SubCalm
  <2> QED
    BY <2>1, <2>2
<1> QED
  BY <1>1, <1>2, <1>3, <1>4, <1>5, <1>6, <1>7, <1>8, <1>9, <1>10
     DEF Step, Proceed, SignIn, QuietSteps, SettleSteps, Special

\* What those four change.
LEMMA SpecialCalm ==
  ASSUME BaseRight, NEW r \in Requests
  PROVE  /\ Verify(r) => Calm({"verified"})
         /\ ChangeEmailStep(r) \/ OpenAddress(r) => Calm({"email", "verified"})
         /\ SetPassword(r) => Calm({"pw"})
         /\ Issue(r) => StoreTypeOK' /\ StoreRight'
<1> USE DEF BaseRight
<1>1. Verify(r) => Calm({"verified"})
  BY VerifyCalm
<1>2. ASSUME ChangeEmailStep(r) \/ OpenAddress(r) PROVE Calm({"email", "verified"})
  <2>1. CASE UNCHANGED <<store, cache>>
    <3>1. Calm({})
      BY <2>1, QuietKept, CacheTyped
    <3> QED
      BY <3>1 DEF Calm
  <2>2. CASE ~UNCHANGED <<store, cache>>
    <3>1. UpdateEmail(req[r].user, req[r].mail) /\ UNCHANGED <<tokens, seq, cache>>
      BY <1>2, <2>2 DEF ChangeEmailStep, OpenAddress, store
    <3> QED
      BY <3>1, RequestFields, EmailCalm
  <2> QED
    BY <2>1, <2>2
<1>3. ASSUME SetPassword(r) PROVE Calm({"pw"})
  <2>1. CASE UNCHANGED <<store, cache>>
    <3>1. Calm({})
      BY <2>1, QuietKept, CacheTyped
    <3> QED
      BY <3>1 DEF Calm
  <2>2. CASE ~UNCHANGED <<store, cache>>
    <3>1. /\ req[r].victim \in Existing /\ UpdatePassword(req[r].victim, req[r].pw)
          /\ RevokeTokensByUserId(req[r].victim) /\ UNCHANGED <<links, seq, cache>>
      BY <1>3, <2>2 DEF SetPassword, store
    <3> QED
      BY <3>1, RequestFields, PasswordCalm
  <2> QED
    BY <2>1, <2>2
<1>4. ASSUME Issue(r) PROVE StoreTypeOK' /\ StoreRight'
  <2> DEFINE p == IF req[r].op = "login" /\ "password" \notin req[r].crossed THEN req[r].pw ELSE None
  <2>1. p \in Passwords \cup {None}
    BY RequestFields
  <2>2. CreateToken(req[r].user, req[r].after, p, req[r].sub) /\ UNCHANGED <<users, links, cache>>
    BY <1>4 DEF Issue
  <2> HIDE DEF p
  <2> QED
    BY <2>1, <2>2, RequestFields, IssueStore
<1> QED
  BY <1>1, <1>2, <1>3, <1>4

\* The steps of a request keep the media sessions those of tokens.
LEMMA StepMedia ==
  ASSUME BaseRight, NEW r \in Requests, Step(r)
  PROVE  MediaTyped'
<1> USE DEF BaseRight
<1>1. CASE UNCHANGED <<mediaVars, late>>
  BY <1>1 DEF MediaTyped, mediaVars
<1>2. CASE MediaRedis(r) \/ MediaFill(r) \/ MediaPut(r)
  <2>1. req[r].token \in Tokens
    BY <1>2 DEF MediaRedis, MediaFill, MediaPut, At, ReqRight, Control
  <2> QED
    BY <1>2, <2>1 DEF MediaRedis, MediaFill, MediaPut, MediaTyped, history
<1>3. CASE InvalidateMediaAuthUser(r) \/ InvalidateMediaAuthToken(r)
  BY <1>3 DEF InvalidateMediaAuthUser, InvalidateMediaAuthToken, MediaTyped, history
<1>4. CASE Fill(r)
  <2>1. req[r].probe \in Tokens
    BY <1>4 DEF Fill, At, ReqRight, Control, LookupRight
  <2> QED
    BY <1>4, <2>1 DEF Fill, MediaTyped, mediaVars
<1>6. CASE GoOn(r)
  <2>1. UNCHANGED mediaVars /\ late' = late \cup LeftBehind(r) /\ LeftBehind(r) \subseteq Tokens
    BY <1>6 DEF GoOn, LeftBehind
  <2> QED
    BY <2>1 DEF MediaTyped, mediaVars
<1>5. ASSUME ~(MediaRedis(r) \/ MediaFill(r) \/ MediaPut(r) \/ InvalidateMediaAuthUser(r)
               \/ InvalidateMediaAuthToken(r) \/ Fill(r) \/ GoOn(r))
      PROVE  UNCHANGED <<mediaVars, late>>
  <2> USE DEF history
  <2>1. CASE SignIn(r)
    BY <1>5, <2>1 DEF SignIn, BySub, ByMail, Candidate, OpenAccount, LinkNew, LinkOwner, SignInOwner,
       OpenApprove, OpenMail, OpenAddress, HandOver, unchangedHere
  <2>2. CASE \/ FindByToken(r) \/ Admit(r) \/ Uncache(r) \/ MediaMembers(r) \/ CountStep(r)
             \/ NameStep(r) \/ CreateStep(r) \/ LoginStep(r) \/ Revoke(r) \/ Issue(r) \/ NewGuest(r)
    BY <2>2 DEF FindByToken, Admit, Uncache, MediaMembers, CountStep, NameStep, CreateStep,
                LoginStep, Revoke, Issue, NewGuest
  <2>3. CASE \/ MergeOwner(r) \/ MergeGuest(r) \/ MediaOwner(r) \/ Forget(r) \/ DeleteTokenStep(r)
             \/ Reauthenticate(r) \/ ChangeEmailStep(r) \/ ReadAddress(r) \/ SendLink(r)
             \/ ForgetfulUser(r) \/ ResetLink(r) \/ Consume(r) \/ Verify(r) \/ SetPassword(r)
    BY <2>3 DEF MergeOwner, MergeGuest, MediaOwner, Forget, DeleteTokenStep, Reauthenticate,
                ChangeEmailStep, ReadAddress, SendLink, ForgetfulUser, ResetLink, Consume, Verify, SetPassword
  <2>4. CASE DropTokens(r) \/ DropUser(r) \/ Kick(r) \/ Approve(r) \/ Toggle(r) \/ MediaLocal(r) \/ Ignore(r)
    BY <2>4 DEF DropTokens, DropUser, Kick, Approve, Toggle, MediaLocal, Ignore
  <2> QED
    BY <1>5, <2>1, <2>2, <2>3, <2>4 DEF Step, Proceed
<1> QED
  BY <1>1, <1>2, <1>3, <1>4, <1>5, <1>6

\* The step of a request keeps the base in order.
LEMMA StepBase ==
  ASSUME BaseRight, NEW r \in Requests, Step(r)
  PROVE  BaseRight'
<1>1. StoreTypeOK' /\ StoreRight'
  BY StepCalm, SpecialCalm DEF Calm, Special
<1> QED
  BY <1>1, StepReq, StepMedia DEF BaseRight

\* A request that is left alone, but for what is marked.
Same(r) == Alters(req[r], req'[r], {"crossed"}) /\ req[r].crossed \subseteq req'[r].crossed

\* What a step that is no request's own leaves of a request.
Renewed(r) ==
  \/ Same(r)
  \/ req'[r] = Idle
  \/ req[r].at = "idle" /\ req'[r].at \in Entries /\ req'[r].after = 0

\* The steps that are no request's own: a request arrives, time passes, the process stops.
Around ==
  \/ \E r \in Requests : Arrive(r)
  \/ \E r \in Requests, f \in pending : Callback(r, f)
  \/ Environment \/ Start
  \/ \E f \in pending : PendingAfterTTL(f)
  \/ \E c \in codes : Exchange(c)
  \/ Restart

\* What the ends and beginnings of requests leave of the others.
LEMMA SameAll == ASSUME ReqRight, UNCHANGED req PROVE ReqRight' /\ \A r \in Requests : Same(r)
BY DEF ReqRight, Same, Alters

LEMMA EndsRenewed ==
  ASSUME ReqRight, NEW r \in Requests, Ends(r)
  PROVE  ReqRight' /\ \A o \in Requests : Renewed(o)
BY EndsRight DEF Ends, Becomes, Renewed, Same

LEMMA StartsRenewed ==
  ASSUME NEW r \in Requests, Starts(r)
  PROVE  \A o \in Requests : Renewed(o)
BY DEF Starts, Becomes, Renewed, Same

\* The steps around the requests keep the base in order, and change no account, link or number.
LEMMA AroundBase ==
  ASSUME BaseRight, Around
  PROVE  /\ BaseRight' /\ Calm({}) /\ UNCHANGED <<users, links, seq, proof>>
         /\ \A r \in Requests : Renewed(r)
         /\ \A t \in Tokens : cache'[t] # NoUser => cache'[t] = cache[t]
         /\ late \subseteq late'
<1> USE DEF BaseRight
<1>0. links \in [Links -> Link] /\ cache \in [Tokens -> User \cup {NoUser}]
  BY DEF StoreTypeOK
<1>1. ASSUME UNCHANGED <<store, cache, mediaVars, late, proof>>
      PROVE  /\ StoreTypeOK' /\ StoreRight' /\ MediaTyped' /\ Calm({}) /\ UNCHANGED <<users, links, seq, proof>>
             /\ \A t \in Tokens : cache'[t] # NoUser => cache'[t] = cache[t]
             /\ late \subseteq late'
  <2>1. Calm({})
    BY <1>0, <1>1, QuietKept
  <2> QED
    BY <1>1, <2>1 DEF Calm, MediaTyped, mediaVars, store
<1>2. ASSUME NEW r \in Requests, Starts(r) /\ ReqRight'
      PROVE  /\ BaseRight' /\ Calm({}) /\ UNCHANGED <<users, links, seq, proof>>
             /\ \A o \in Requests : Renewed(o)
             /\ \A t \in Tokens : cache'[t] # NoUser => cache'[t] = cache[t]
             /\ late \subseteq late'
  <2>1. UNCHANGED <<store, cache, mediaVars, late, proof>>
    BY <1>2 DEF Starts, history
  <2> QED
    BY <1>1, <1>2, <2>1, StartsRenewed
<1>3. CASE \/ \E r \in Requests : Arrive(r)
           \/ \E r \in Requests, f \in pending : Callback(r, f)
  BY <1>2, <1>3, ArriveStarts, CallbackStarts
<1>4. CASE Start \/ (\E f \in pending : PendingAfterTTL(f)) \/ (\E c \in codes : Exchange(c))
  <2>1. UNCHANGED <<store, cache, mediaVars, late, proof>> /\ UNCHANGED req
    BY <1>4 DEF Start, PendingAfterTTL, Exchange, history
  <2> QED
    BY <1>1, <2>1, SameAll DEF Renewed
<1>5. CASE Restart
  <2>1. UNCHANGED <<store, redis, index, orphaned, late, proof>> /\ Forgotten
    BY <1>5 DEF Restart, Crash, history
  <2>2. ReqRight' /\ \A r \in Requests : req'[r] = Idle
    BY <2>1, CrashRight
  <2>3. /\ cache' = [t \in Tokens |-> NoUser]
        /\ MediaTyped'
    BY <2>1 DEF Forgotten, MediaTyped
  <2>4. Calm({})
    BY <2>1, <2>3, QuietKept, CacheTyped
  <2> QED
    BY <2>1, <2>2, <2>3, <2>4 DEF Renewed, Calm, store
<1>6. ASSUME NEW t \in Tokens, UncacheAfterTTL(t) \/ MediaAfterTTL(t) \/ Expire(t) \/ Cleanup
      PROVE  /\ BaseRight' /\ Calm({}) /\ UNCHANGED <<users, links, seq, proof>>
             /\ \A r \in Requests : Renewed(r)
             /\ \A o \in Tokens : cache'[o] # NoUser => cache'[o] = cache[o]
             /\ late \subseteq late'
  <2>1. UNCHANGED req /\ UNCHANGED <<users, links, seq, proof>>
    BY <1>6 DEF UncacheAfterTTL, MediaAfterTTL, Expire, Cleanup, history, store
  <2>2. MediaTyped' /\ late \subseteq late'
    <3>1. CASE UncacheAfterTTL(t) \/ Cleanup \/ Expire(t)
      BY <3>1 DEF UncacheAfterTTL, Cleanup, Expire, MediaTyped, mediaVars, history
    <3>2. CASE MediaAfterTTL(t)
      BY <3>2 DEF MediaAfterTTL, MediaTyped, history
    <3> QED
      BY <1>6, <3>1, <3>2
  <2>3. cache' \in [Tokens -> User \cup {NoUser}]
        /\ \A o \in Tokens : cache'[o] # NoUser => cache'[o] = cache[o]
    <3>1. CASE UncacheAfterTTL(t)
      BY <1>0, <3>1 DEF UncacheAfterTTL, InvalidateCachedToken
    <3>2. CASE MediaAfterTTL(t) \/ Cleanup \/ Expire(t)
      BY <1>0, <3>2 DEF MediaAfterTTL, Cleanup, Expire
    <3> QED
      BY <1>6, <3>1, <3>2
  <2>4. CASE UNCHANGED tokens
    <3>1. UNCHANGED store
      BY <2>1, <2>4 DEF store
    <3>2. Calm({})
      BY <2>3, <3>1, QuietKept
    <3> QED
      BY <2>1, <2>2, <2>3, <3>2, SameAll DEF Renewed, Calm
  <2>5. CASE ~UNCHANGED tokens
    <3>1. Expire(t) \/ Cleanup
      BY <1>6, <2>5 DEF UncacheAfterTTL, MediaAfterTTL, store
    <3>2. UNCHANGED cache /\ \E T : Settle(T, "expired") \/ Settle(T, "deleted")
      BY <3>1 DEF Expire, Cleanup, ExpireToken, CleanupExpiredTokens
    <3>3. Calm({})
      BY <2>1, <3>2, SettleCalm
    <3> QED
      BY <2>1, <2>2, <2>3, <3>3, SameAll DEF Renewed, Calm
  <2> QED
    BY <2>4, <2>5
<1>7. CASE Cleanup /\ Tokens = {}
  BY <1>7 DEF Cleanup
<1>8. ASSUME NEW r \in Requests, Drop(r)
      PROVE  /\ BaseRight' /\ Calm({}) /\ UNCHANGED <<users, links, seq, proof>>
             /\ \A o \in Requests : Renewed(o)
             /\ \A t \in Tokens : cache'[t] # NoUser => cache'[t] = cache[t]
             /\ late \subseteq late'
  <2>1. Ends(r)
    BY <1>8, EndEffects
  <2>2. UNCHANGED <<store, cache, mediaVars, proof>> /\ late' = late \cup LeftBehind(r)
    BY <1>8 DEF Drop
  <2>3. LeftBehind(r) \subseteq Tokens
    BY DEF LeftBehind
  <2>4. Calm({})
    BY <1>0, <2>2, QuietKept
  <2>5. MediaTyped'
    BY <2>2, <2>3 DEF MediaTyped, mediaVars
  <2> QED
    BY <2>1, <2>2, <2>4, <2>5, EndsRenewed DEF Calm, store
<1> QED
  BY <1>3, <1>4, <1>5, <1>6, <1>7, <1>8 DEF Around, Environment

\* So does a step that changes nothing.
LEMMA StutterBase ==
  ASSUME BaseRight, UNCHANGED vars
  PROVE  /\ BaseRight' /\ Calm({}) /\ \A r \in Requests : Renewed(r)
<1> USE DEF BaseRight, vars
<1>1. Calm({})
  BY QuietKept, CacheTyped
<1> QED
  BY <1>1, SameAll DEF Calm, Renewed, MediaTyped, mediaVars, history

\* Every step is that of a request, or one around them.
LEMMA NextSteps ==
  ASSUME Next
  PROVE  (\E r \in Requests : Step(r)) \/ Around
BY DEF Next, Step, Around

\* The base is in order at the start, and stays so.
LEMMA InitBase ==
  ASSUME Init
  PROVE  BaseRight
<1>1. PICK s \in Scenarios :
        users = s.users /\ tokens = s.tokens /\ links = s.links /\ seq = s.seq
  BY DEF Init, InitAccounts
<1>2. Sound(s)
  BY ScenarioAssumption
<1>3. cache = [t \in Tokens |-> NoUser] /\ req = [r \in Requests |-> Idle]
  BY DEF Init, InitAccounts
<1>4. StoreTypeOK
  BY <1>1, <1>2, <1>3 DEF StoreTypeOK, Sound
<1>5. StoreRight
  <2>1. \A u \in Existing : users[u].id = u /\ u < seq.account
    BY <1>1, <1>2 DEF Sound, Existing
  <2>2. \A t \in Tokens : t >= seq.token => tokens[t].user = 0
    <3>1. ASSUME NEW t \in Tokens, t >= seq.token PROVE tokens[t].user = 0
      <4>1. t \in Nat /\ seq.token \in Nat
        BY <1>4, IdsAssumption DEF StoreTypeOK
      <4>2. tokens[t].status # "live"
        BY <1>1, <1>2, <3>1, <4>1 DEF Sound
      <4>3. tokens[t] = NoToken
        BY <1>1, <1>2, <3>1, <4>2 DEF Sound
      <4> QED
        BY <4>3 DEF NoToken
    <3> QED
      BY <3>1
  <2>3. \A t \in Tokens : Live(t) => tokens[t].user \in Existing
    BY <1>1, <1>2 DEF Sound, Live, Existing
  <2> QED
    BY <2>1, <2>2, <2>3 DEF StoreRight
<1>6. ReqRight
  BY <1>3, IdleRight DEF ReqRight
<1>7. MediaTyped
  BY DEF Init, InitAccounts, MediaTyped
<1> QED
  BY <1>4, <1>5, <1>6, <1>7 DEF BaseRight

LEMMA BaseStep == BaseRight /\ [Next]_vars => BaseRight'
BY StepBase, AroundBase, StutterBase, NextSteps

-----------------------------------------------------------------------------
(* Sessions belong to who logged in, and end when they should.             *)

\* The steps of a login, a registration or a change of address before it issues a session:
\* first it may revoke the others of the account, and what is left of it until the issue.
ToIssue(q) ==
  \/ q.at \in {"issue", "openapprove", "openmail", "openaddress"}
  \/ q.at = "uncache" /\ \/ q.op = "email"
                         \/ q.op = "login" /\ q.then # "merged"
                         \/ q.op = "gateway" /\ q.then \notin {"owner", "gone"}
  \/ q.at \in {"unmedia", "unindex"} /\ q.op = "gateway"
Granting(q) == ToIssue(q) \/ q.at = "revoke"

\* The account has the password or the subject that the request came with, unless the
\* password changed meanwhile, and its live sessions are newer than those revoked for it.
Entitled(q) ==
  /\ q.op \in {"login", "gateway"} => q.user < seq.account
  /\ q.user \in Existing /\ q.op = "login" /\ "password" \notin q.crossed
       => users[q.user].pw = q.pw
  /\ q.user \in Existing /\ q.op = "gateway" => users[q.user].sub = q.sub
Newest(q) ==
  /\ q.after < seq.token
  /\ \A s \in Tokens : Live(s) /\ tokens[s].user = q.user => s > q.after
SessionRight(q) ==
  /\ Granting(q) => Entitled(q)
  /\ ToIssue(q) => Newest(q)
  /\ q.at = "revoke" => q.victim = q.user
  /\ q.at \in {"count", "name", "create", "login", "newguest", "linknew"} => q.after = 0

SessionsRight ==
  /\ \A r \in Requests : SessionRight(req[r])
  /\ Superseded /\ OldPasswordOut /\ GatewaySessionOwner

\* A step of a request is its own: the others are only marked.
LEMMA StepBecomes ==
  ASSUME BaseRight, NEW r \in Requests, Step(r)
  PROVE  Becomes(r, Fields)
<1> USE DEF BaseRight
<1>0. \A F : Becomes(r, F) => Becomes(r, Fields)
  BY DEF Becomes, Alters
<1>1. CASE \/ FindByToken(r) \/ Fill(r) \/ Admit(r) \/ Uncache(r)
  BY <1>0, <1>1, FindEffect, FillEffect, AdmitEffect, UncacheEffect DEF Ends, Moves
<1>2. CASE MediaMembers(r) \/ InvalidateMediaAuthUser(r) \/ MediaRedis(r)
  BY <1>0, <1>2, MediaEffects DEF MediaTyped, Ends, Moves
<1>3. CASE \/ NameStep(r) \/ Forget(r) \/ DeleteTokenStep(r) \/ Reauthenticate(r) \/ DropTokens(r)
           \/ DropUser(r) \/ Kick(r) \/ MediaLocal(r) \/ MediaFill(r) \/ OpenApprove(r) \/ OpenMail(r)
  BY <1>0, <1>3, MoveEffects DEF Ends, Moves
<1>4. CASE CountStep(r) \/ CreateStep(r) \/ LoginStep(r) \/ Revoke(r) \/ Issue(r) \/ NewGuest(r)
  BY <1>0, <1>4, CountStepEffect, CreateStepEffect, LoginStepEffect, RevokeEffect, IssueEffect, NewGuestEffect
     DEF Ends, Moves
<1>5. CASE MergeOwner(r) \/ MergeGuest(r) \/ MediaOwner(r) \/ ReadAddress(r) \/ ForgetfulUser(r) \/ Consume(r)
  BY <1>0, <1>5, MergeOwnerEffect, MergeGuestEffect, MediaOwnerEffect, ReadAddressEffect, ForgetfulUserEffect,
     ConsumeEffect DEF Ends, Moves
<1>6. CASE ChangeEmailStep(r) \/ SetPassword(r) \/ OpenAddress(r) \/ OpenAccount(r) \/ LinkNew(r)
      \/ LinkOwner(r)
  BY <1>0, <1>6, ChangeEmailStepEffect, SetPasswordEffect, OpenAddressEffect, OpenAccountEffect, LinkNewEffect,
     LinkOwnerEffect DEF Ends, Moves, Grants
<1>7. CASE SignInOwner(r) \/ BySub(r) \/ ByMail(r) \/ Candidate(r)
  BY <1>0, <1>7, SignInOwnerEffect, BySubEffect, ByMailEffect, CandidateEffect DEF Ends, Moves, Grants
<1>8. CASE \/ InvalidateMediaAuthToken(r) \/ SendLink(r) \/ ResetLink(r) \/ Verify(r) \/ Approve(r)
           \/ Toggle(r) \/ MediaPut(r) \/ HandOver(r)
  BY <1>0, <1>8, EndEffects DEF Ends
<1>9. CASE Ignore(r) \/ GoOn(r)
  BY <1>0, <1>9, IgnoreEffect, GoOnEffect DEF Ends, Moves
<1> QED
  BY <1>1, <1>2, <1>3, <1>4, <1>5, <1>6, <1>7, <1>8, <1>9 DEF Step, Proceed, SignIn

LEMMA OthersSame ==
  ASSUME BaseRight, NEW r \in Requests, Step(r)
  PROVE  \A o \in Requests \ {r} : Same(o)
BY StepBecomes DEF Becomes, Same

\* What a login claims is kept by a request, and so by the store.
Claims(r) ==
  /\ req'[r].op = req[r].op /\ req'[r].user = req[r].user /\ req'[r].pw = req[r].pw
  /\ req'[r].sub = req[r].sub /\ req[r].crossed \subseteq req'[r].crossed

\* Calm steps keep what a request that claims an account rests on.
LEMMA EntitledKept ==
  ASSUME BaseRight, NEW r \in Requests, NEW F, Calm(F), "pw" \notin F, Claims(r), Entitled(req[r])
  PROVE  Entitled(req[r])'
<1> DEFINE q == req[r]
           n == req'[r]
<1>1. q.user \in Existing' /\ q.op \in {"login", "gateway"} => q.user \in Existing /\ q.user < seq.account
  BY DEF Calm, Entitled
<1>2. q.op \in {"login", "gateway"} => q.user < seq'.account
  <2>1. q.user \in Nat
    <3>1. ReqRight
      BY DEF BaseRight
    <3>2. q.user \in Accounts \cup {0}
      BY <3>1, RequestFields
    <3>3. \A x \in Accounts : x \in Nat
      BY IdsAssumption
    <3> QED
      BY <3>2, <3>3
  <2>2. seq.account \in Nat /\ seq'.account \in Nat /\ seq.account <= seq'.account
    BY DEF BaseRight, StoreTypeOK, Calm
  <2> QED
    BY <2>1, <2>2 DEF Entitled
<1>3. n.user \in Existing' /\ n.op = "login" /\ "password" \notin n.crossed => users'[n.user].pw = n.pw
  BY <1>1 DEF Claims, Entitled, Calm
<1>4. n.user \in Existing' /\ n.op = "gateway" => users'[n.user].sub = n.sub
  <2>1. q.op = "gateway" => q.sub # None
    BY NoneAssumption DEF BaseRight, ReqRight, Control
  <2> QED
    BY <1>1, <2>1 DEF Claims, Entitled, Calm
<1> QED
  BY <1>2, <1>3, <1>4 DEF Entitled, Claims

LEMMA NewestKept ==
  ASSUME BaseRight, NEW r \in Requests, NEW F, Calm(F),
         req'[r].user = req[r].user, req'[r].after = req[r].after, Newest(req[r])
  PROVE  Newest(req[r])'
BY DEF Newest, Calm

\* Nothing was revoked for it yet.
LEMMA NewestAtFirst ==
  ASSUME NEW r \in Requests, BaseRight', req'[r].after = 0
  PROVE  Newest(req[r])'
<1>1. seq'.token \in Nat \ {0} /\ \A s \in Tokens : s \in Nat \ {0}
  BY IdsAssumption DEF BaseRight, StoreTypeOK
<1> QED
  BY <1>1 DEF Newest

\* The steps at which a request may claim an account.
SessionSteps == {"issue", "openapprove", "openmail", "openaddress", "uncache", "unmedia", "unindex",
                 "revoke", "count", "name", "create", "login", "newguest", "linknew"}

\* A request at a step of no session, and an idle one, claim nothing.
LEMMA NoSession ==
  ASSUME NEW r \in Requests, req'[r].at \notin SessionSteps
  PROVE  SessionRight(req[r])'
BY DEF SessionSteps, SessionRight, Granting, ToIssue

LEMMA IdleSession ==
  ASSUME NEW r \in Requests, req'[r] = Idle
  PROVE  SessionRight(req[r])'
BY NoSession DEF Idle, SessionSteps

\* A request that is left alone, or starts anew, keeps its claim while passwords stay.
LEMMA SameSession ==
  ASSUME BaseRight, NEW r \in Requests, NEW F, Calm(F), "pw" \notin F, Same(r), SessionRight(req[r])
  PROVE  SessionRight(req[r])'
<1>1. /\ Claims(r) /\ req'[r].after = req[r].after /\ req'[r].at = req[r].at
      /\ req'[r].victim = req[r].victim /\ req'[r].then = req[r].then
  BY DEF Same, Alters, Fields, Claims
<1>2. Entitled(req[r]) => Entitled(req[r])'
  BY <1>1, EntitledKept
<1>3. Newest(req[r]) => Newest(req[r])'
  BY <1>1, NewestKept DEF Claims
<1>4. Granting(req[r])' => Granting(req[r])
  BY <1>1 DEF Granting, ToIssue, Claims
<1>5. ToIssue(req[r])' => ToIssue(req[r])
  BY <1>1 DEF ToIssue, Claims
<1> QED
  BY <1>1, <1>2, <1>3, <1>4, <1>5 DEF SessionRight, Claims

LEMMA RenewedSession ==
  ASSUME BaseRight, NEW r \in Requests, NEW F, Calm(F), "pw" \notin F, Renewed(r), SessionRight(req[r])
  PROVE  SessionRight(req[r])'
<1>1. CASE req[r].at = "idle" /\ req'[r].at \in Entries /\ req'[r].after = 0
  BY <1>1 DEF Entries, SessionRight, Granting, ToIssue
<1> QED
  BY <1>1, SameSession, IdleSession DEF Renewed

\* The sessions there are stay within their rights.
LEMMA SessionsCalm ==
  ASSUME BaseRight, Superseded, OldPasswordOut, GatewaySessionOwner, NEW F, Calm(F), "pw" \notin F
  PROVE  (Superseded /\ OldPasswordOut /\ GatewaySessionOwner)'
<1>1. ASSUME NEW t \in Tokens, Live(t)'
      PROVE  /\ Live(t) /\ tokens'[t] \in Token
             /\ tokens[t].user \in Existing /\ tokens[t].user \in Existing' /\ tokens[t].user < seq.account
             /\ tokens'[t].user = tokens[t].user /\ tokens'[t].after = tokens[t].after
             /\ tokens'[t].pw = tokens[t].pw /\ tokens'[t].sub = tokens[t].sub
  BY <1>1 DEF Calm, BaseRight, StoreRight, StoreTypeOK
<1>2. Superseded'
  BY <1>1 DEF Superseded
<1>3. OldPasswordOut'
  BY <1>1 DEF OldPasswordOut, Calm
<1>4. GatewaySessionOwner'
  BY <1>1 DEF GatewaySessionOwner, Calm
<1> QED
  BY <1>2, <1>3, <1>4

\* A login that found its account, and may have to put the other sessions out of use first.
LEMMA GrantSession ==
  ASSUME BaseRight, BaseRight', NEW r \in Requests, req'[r].at \in {"revoke", "issue", "openapprove"},
         req'[r].at # "revoke" => req'[r].after = 0,
         req'[r].at = "revoke" => req'[r].victim = req'[r].user,
         Entitled(req[r])'
  PROVE  SessionRight(req[r])'
<1>1. req'[r].at # "revoke" => Newest(req[r])'
  BY NewestAtFirst
<1> QED
  BY <1>1 DEF SessionRight, Granting, ToIssue

\* A request that found the account of its subject may claim it.
LEMMA SubSession ==
  ASSUME BaseRight, BaseRight', NEW r \in Requests, NEW u \in Existing, Calm({}), Grants(r, u),
         req[r].op = "gateway", users'[u].sub = req[r].sub
  PROVE  SessionRight(req[r])'
<1>1. req'[r].op = "gateway" /\ req'[r].sub = req[r].sub
  BY DEF Grants, Becomes, Alters, Fields
<1>2. u < seq'.account
  <2>1. u < seq.account /\ u \in Nat
    BY IdsAssumption DEF BaseRight, StoreRight, Existing
  <2>2. seq.account \in Nat /\ seq'.account \in Nat /\ seq.account <= seq'.account
    BY DEF BaseRight, StoreTypeOK, Calm
  <2> QED
    BY <2>1, <2>2
<1>3. Entitled(req[r])'
  BY <1>1, <1>2 DEF Entitled, Grants
<1> QED
  BY <1>3, GrantSession DEF Grants

\* On the way to the issue the claim is kept.
LEMMA IssueKeepsClaims ==
  ASSUME BaseRight, NEW r \in Requests, Moves(r, Steps), SessionRight(req[r]), NEW F, Calm(F), "pw" \notin F,
         ToIssue(req[r]), req'[r].at \in {"issue", "openmail", "openaddress", "unmedia"}
  PROVE  SessionRight(req[r])'
<1>1. /\ Claims(r) /\ req'[r].after = req[r].after
  BY DEF Moves, Becomes, Alters, Fields, Claims
<1>2. Entitled(req[r])' /\ Newest(req[r])'
  BY <1>1, EntitledKept, NewestKept DEF SessionRight, Granting, Claims
<1> QED
  BY <1>2 DEF SessionRight

\* The step of a request keeps its own claim in order.
LEMMA StepSession ==
  ASSUME BaseRight, NEW r \in Requests, SessionRight(req[r]), Step(r)
  PROVE  SessionRight(req[r])'
<1> USE DEF BaseRight
<1> DEFINE q == req[r]
           n == req'[r]
<1>0. BaseRight' /\ (~Special(r) => Calm({}))
  BY StepBase, StepCalm
<1>a. Ends(r) => SessionRight(req[r])'
  BY IdleSession DEF Ends
<1>1. CASE FindByToken(r) \/ Fill(r)
  <2>1. q.at \in {"lookup", "fill"} /\ n.at \in {q.then, "fill"}
    BY <1>1, FindEffect, FillEffect DEF Moves
  <2>2. q.then \in {"admit", "forget", "mediafill", "merge", "mergeguest", "mediaowner"}
    BY <2>1 DEF ReqRight, Control, LookupRight
  <2> QED
    BY <2>1, <2>2, NoSession DEF SessionSteps
<1>2. CASE Admit(r)
  <2>1. Ends(r) \/ n.at \in BearerOps
    BY <1>2, AdmitEffect
  <2> QED
    BY <1>a, <2>1, NoSession DEF SessionSteps, BearerOps, Targeted
<1>3. CASE Uncache(r)
  <2>0. q.at = "uncache" /\ ~Special(r)
    BY <1>3 DEF Uncache, Special, Verify, ChangeEmailStep, OpenAddress, SetPassword, Issue, At
  <2>1. CASE Ends(r) \/ n.at \in {"lookup", "owner"}
    BY <1>a, <2>1, NoSession DEF SessionSteps
  <2>2. CASE Moves(r, {"issue"}) /\ (q.op = "email" \/ (q.op = "login" /\ q.then # "merged"))
    <3>1. ToIssue(q) /\ Moves(r, Steps) /\ n.at = "issue"
      BY <2>0, <2>2 DEF ToIssue, Moves, Steps
    <3> QED
      BY <1>0, <2>0, <3>1, IssueKeepsClaims
  <2>3. CASE Moves(r, {"unmedia"}) /\ (q.op = "gateway" => q.then \notin {"owner", "gone"})
    <3>1. CASE q.op = "gateway"
      <4>1. ToIssue(q) /\ Moves(r, Steps) /\ n.at = "unmedia"
        BY <2>0, <2>3, <3>1 DEF ToIssue, Moves, Steps
      <4> QED
        BY <1>0, <2>0, <4>1, IssueKeepsClaims
    <3>2. CASE q.op # "gateway"
      <4>1. n.op = q.op /\ n.at = "unmedia"
        BY <2>3 DEF Moves, Becomes, Alters, Fields
      <4> QED
        BY <3>2, <4>1 DEF SessionRight, Granting, ToIssue
    <3> QED
      BY <3>1, <3>2
  <2> QED
    BY <1>3, <2>1, <2>2, <2>3, UncacheEffect DEF Moves
<1>4. CASE MediaMembers(r)
  <2>1. q.at = "unmedia" /\ Becomes(r, {"at", "members"}) /\ n.at = "unindex" /\ ~Special(r)
    BY <1>4, MediaEffects DEF MediaTyped, Special, Verify, ChangeEmailStep, OpenAddress, SetPassword, Issue, At
  <2>2. Claims(r) /\ n.after = q.after
    BY <2>1 DEF Becomes, Alters, Fields, Claims
  <2>3. ToIssue(req[r])' => ToIssue(req[r])
    BY <2>1, <2>2 DEF ToIssue, Claims
  <2>4. ToIssue(req[r]) => Entitled(req[r])' /\ Newest(req[r])'
    BY <1>0, <2>1, <2>2, EntitledKept, NewestKept DEF SessionRight, Granting, Claims
  <2> QED
    BY <2>1, <2>3, <2>4 DEF SessionRight, Granting
<1>5. CASE InvalidateMediaAuthUser(r)
  <2>1. q.at = "unindex" /\ (Ends(r) \/ (Moves(r, {"issue"}) /\ q.op = "gateway")) /\ ~Special(r)
    BY <1>5, MediaEffects DEF MediaTyped, Special, Verify, ChangeEmailStep, OpenAddress, SetPassword,
       Issue, At, InvalidateMediaAuthUser
  <2>2. CASE Moves(r, {"issue"}) /\ q.op = "gateway"
    <3>1. ToIssue(q) /\ Moves(r, Steps) /\ n.at = "issue"
      BY <2>1, <2>2 DEF ToIssue, Moves, Steps
    <3> QED
      BY <1>0, <2>1, <3>1, IssueKeepsClaims
  <2> QED
    BY <1>a, <2>1, <2>2
<1>6. CASE CountStep(r) \/ NameStep(r)
  <2>1. Ends(r) \/ (n.at \in {"name", "create"} /\ n.after = q.after /\ q.at \in {"count", "name"})
    BY <1>6, CountStepEffect, MoveEffects DEF Moves, Becomes, Alters, Fields
  <2> QED
    BY <1>a, <2>1 DEF SessionRight, Granting, ToIssue
<1>7. CASE CreateStep(r) \/ NewGuest(r)
  <2>1. \/ Ends(r)
        \/ n.at = "issue" /\ n.after = q.after /\ n.op = q.op /\ q.at \in {"create", "newguest"}
    BY <1>7, CreateStepEffect, NewGuestEffect DEF Becomes, Alters, Fields
  <2>2. CASE n.at = "issue" /\ n.after = q.after /\ n.op = q.op /\ q.at \in {"create", "newguest"}
    <3>1. n.op \in {"register", "guest"} /\ n.after = 0
      BY <2>2 DEF ReqRight, Control, InSteps, SessionRight
    <3>2. Entitled(req[r])'
      BY <3>1 DEF Entitled
    <3> QED
      BY <1>0, <2>2, <3>1, <3>2, GrantSession
  <2> QED
    BY <1>a, <2>1, <2>2
<1>8. CASE LoginStep(r)
  <2>1. q.at = "login" /\ q.op = "login" /\ ~Special(r)
    BY <1>8 DEF LoginStep, At, ReqRight, Control, InSteps, Special, Verify, ChangeEmailStep, OpenAddress,
       SetPassword, Issue
  <2>2. CASE Ends(r)
    BY <1>a, <2>2
  <2>3. ASSUME NEW u \in Existing, users[u].pw = q.pw,
               Becomes(r, {"at", "user", "victim", "after"}), n.at \in {"revoke", "issue"},
               n.user = u, n.victim = u, n.at = "issue" => n.after = 0
        PROVE  SessionRight(req[r])'
    <3>1. n.op = "login" /\ n.pw = q.pw
      BY <2>1, <2>3 DEF Becomes, Alters, Fields
    <3>2. users' = users /\ seq' = seq
      BY <1>8 DEF LoginStep, store
    <3>3. Entitled(req[r])'
      BY <2>3, <3>1, <3>2 DEF Entitled, StoreRight
    <3> QED
      BY <1>0, <2>3, <3>1, <3>3, GrantSession
  <2> QED
    BY <1>8, <2>2, <2>3, LoginStepEffect
<1>9. CASE Revoke(r)
  <2>1. /\ q.at = "revoke" /\ Becomes(r, {"at", "after"}) /\ n.at = "uncache" /\ n.after = seq.token - 1
        /\ Calm({}) /\ \A t \in Tokens : Live(t)' => tokens[t].user # q.victim
    BY <1>9, RevokeEffect, SettleStepsCalm DEF SettleSteps
  <2>2. Claims(r)
    BY <2>1 DEF Becomes, Alters, Fields, Claims
  <2>3. Entitled(req[r])'
    BY <2>1, <2>2, EntitledKept DEF SessionRight, Granting
  <2>4. q.victim = q.user
    BY <2>1 DEF SessionRight
  <2>5. n.after < seq'.token
    BY <2>1 DEF Calm, StoreTypeOK
  <2>6. Newest(req[r])'
    BY <2>1, <2>2, <2>4, <2>5 DEF Newest, Calm, Claims
  <2> QED
    BY <2>1, <2>3, <2>6 DEF SessionRight, Granting
<1>10. CASE Issue(r)
  <2>1. \/ Ends(r) \/ n.at \in {"lookup", "code"}
        \/ n.at = "unmedia" /\ n.op = "email"
    BY <1>10, IssueEffect DEF Moves, Becomes, Alters, Fields
  <2>2. CASE n.at = "unmedia" /\ n.op = "email"
    BY <2>2 DEF SessionRight, Granting, ToIssue
  <2> QED
    BY <1>a, <2>1, <2>2, NoSession DEF SessionSteps
<1>11. CASE MergeOwner(r)
  BY <1>11, <1>a, MergeOwnerEffect, NoSession DEF SessionSteps
<1>12. CASE MergeGuest(r)
  <2>1. \/ Ends(r) \/ n.at = "lookup"
        \/ n.at = "uncache" /\ n.then = "merged" /\ n.op \in {"register", "login"}
    BY <1>12, MergeGuestEffect DEF Becomes, Alters, Fields
  <2>2. CASE n.at = "uncache" /\ n.then = "merged" /\ n.op \in {"register", "login"}
    BY <2>2 DEF SessionRight, Granting, ToIssue
  <2> QED
    BY <1>a, <2>1, <2>2, NoSession DEF SessionSteps
<1>13. CASE MediaOwner(r)
  <2>1. Ends(r) \/ (n.at = "unmedia" /\ n.op = "login")
    BY <1>13, MediaOwnerEffect DEF Becomes, Alters, Fields
  <2> QED
    BY <1>a, <2>1 DEF SessionRight, Granting, ToIssue
<1>14. CASE \/ Forget(r) \/ DeleteTokenStep(r) \/ Reauthenticate(r) \/ DropTokens(r)
            \/ MediaLocal(r) \/ MediaFill(r)
  <2>1. Ends(r) \/ n.at \in {"deltoken", "untoken", "setemail", "dropuser", "mediaredis", "mediaput"}
    BY <1>14, MoveEffects DEF Moves
  <2> QED
    BY <1>a, <2>1, NoSession DEF SessionSteps
<1>15. CASE DropUser(r) \/ Kick(r)
  <2>1. /\ q.at \in {"dropuser", "kick"} /\ n.at = "uncache" /\ n.op = q.op /\ n.then = q.then
    BY <1>15, MoveEffects DEF Moves, Becomes, Alters, Fields
  <2>2. q.op \in {"delete", "reject", "kick"} \/ (q.op = "gateway" /\ q.then \in {"owner", "gone"})
    BY <2>1 DEF ReqRight, Control, InSteps
  <2> QED
    BY <2>1, <2>2 DEF SessionRight, Granting, ToIssue
<1>16. CASE MediaRedis(r) \/ ReadAddress(r) \/ ForgetfulUser(r) \/ Consume(r) \/ ByMail(r) \/ Candidate(r)
  <2>1. Ends(r)
        \/ n.at \in {"lookup", "sendlink", "resetlink", "setpw", "verify", "candidate", "linkowner", "open"}
    BY <1>16, MediaEffects, ReadAddressEffect, ForgetfulUserEffect, ConsumeEffect, ByMailEffect, CandidateEffect
       DEF MediaTyped, Moves
  <2> QED
    BY <1>a, <2>1, NoSession DEF SessionSteps
<1>17. CASE ChangeEmailStep(r)
  <2>1. Ends(r) \/ (n.at = "revoke" /\ n.op = "email" /\ n.victim = n.user)
    BY <1>17, ChangeEmailStepEffect DEF Becomes, Alters, Fields
  <2>2. CASE n.at = "revoke" /\ n.op = "email" /\ n.victim = n.user
    BY <2>2 DEF SessionRight, Granting, ToIssue, Entitled
  <2> QED
    BY <1>a, <2>1, <2>2
<1>18. CASE SetPassword(r)
  <2>1. Ends(r) \/ (n.at = "uncache" /\ n.op \in {"setpw", "reset"})
    BY <1>18, SetPasswordEffect DEF Moves, Becomes, Alters, Fields
  <2> QED
    BY <1>a, <2>1 DEF SessionRight, Granting, ToIssue
<1>19. CASE OpenAccount(r)
  <2>1. Ends(r) \/ n.at = "candidate" \/ (n.at = "linknew" /\ n.after = 0)
    BY <1>19, OpenAccountEffect
  <2> QED
    BY <1>a, <2>1 DEF SessionRight, Granting, ToIssue
<1>20. CASE BySub(r) \/ SignInOwner(r)
  <2>1. /\ q.op = "gateway" /\ ~Special(r)
    BY <1>20 DEF BySub, SignInOwner, At, ReqRight, Control, InSteps, Special, Verify, ChangeEmailStep,
       OpenAddress, SetPassword, Issue
  <2>2. users' = users
    BY <1>20 DEF BySub, SignInOwner, unchangedHere, store
  <2>3. ASSUME NEW u \in Existing, users[u].sub = q.sub, Grants(r, u) PROVE SessionRight(req[r])'
    BY <1>0, <2>1, <2>2, <2>3, SubSession
  <2>4. \/ Ends(r) \/ n.at \in {"bymail", "candidate"}
        \/ \E u \in Existing : users[u].sub = q.sub /\ Grants(r, u)
    BY <1>20, BySubEffect, SignInOwnerEffect
  <2> QED
    BY <1>a, <2>3, <2>4, NoSession DEF SessionSteps
<1>21. CASE LinkNew(r) \/ LinkOwner(r)
  <2>1. /\ q.op = "gateway" /\ q.sub \in Subs /\ ~Special(r)
        /\ q.at \in {"linknew", "linkowner"} /\ UNCHANGED <<tokens, links, seq, cache>>
    BY <1>21 DEF LinkNew, LinkOwner, At, ReqRight, Control, InSteps, Special, Verify, ChangeEmailStep,
       OpenAddress, SetPassword, Issue
  <2>2. CASE n.at \in {"drop", "owner"} \/ Ends(r)
    BY <1>a, <2>2, NoSession DEF SessionSteps
  <2>3. CASE CanLink(r) /\ LinkGatewaySub(q.user, q.sub)
    <3>1. q.user \in Existing /\ users'[q.user].sub = q.sub
      BY <2>1, <2>3, SubCalm
    <3>2. CASE Grants(r, q.user)
      BY <1>0, <2>1, <3>1, <3>2, SubSession
    <3>3. CASE q.at = "linknew" /\ Moves(r, {"openapprove"})
      <4>1. n.op = "gateway" /\ n.user = q.user /\ n.sub = q.sub /\ n.after = 0 /\ n.at = "openapprove"
        BY <2>1, <3>3 DEF Moves, Becomes, Alters, Fields, SessionRight
      <4>2. Entitled(req[r])'
        BY <2>1, <3>1, <4>1 DEF Entitled, StoreRight
      <4> QED
        BY <1>0, <4>1, <4>2, GrantSession
    <3> QED
      BY <1>21, <1>a, <2>2, <3>2, <3>3, LinkNewEffect, LinkOwnerEffect DEF Moves
  <2> QED
    BY <1>21, <2>2, <2>3, LinkNewEffect, LinkOwnerEffect DEF Moves
<1>22. CASE OpenApprove(r) \/ OpenMail(r) \/ OpenAddress(r)
  <2>1. /\ q.at \in {"openapprove", "openmail", "openaddress"} /\ Moves(r, Steps)
        /\ n.at \in {"issue", "openmail", "openaddress"}
    BY <1>22, MoveEffects, OpenAddressEffect DEF Moves, Steps
  <2>2. Calm({"email", "verified"})
    <3>1. CASE Special(r)
      BY <1>22, <3>1, SpecialCalm DEF Special, OpenApprove, OpenMail, Verify, ChangeEmailStep,
         SetPassword, Issue, At, OpenAddress
    <3>2. CASE ~Special(r)
      BY <1>0, <3>2 DEF Calm
    <3> QED
      BY <3>1, <3>2
  <2> QED
    BY <2>1, <2>2, IssueKeepsClaims DEF ToIssue
<1>23. CASE \/ InvalidateMediaAuthToken(r) \/ SendLink(r) \/ ResetLink(r) \/ Verify(r) \/ Approve(r)
            \/ Toggle(r) \/ MediaPut(r) \/ HandOver(r)
  BY <1>23, <1>a, EndEffects
<1>24. CASE Ignore(r)
  <2>1. CASE Moves(r, {"issue"}) /\ q.at \in {"unmedia", "unindex"} /\ q.op = "gateway"
    <3>1. ToIssue(q) /\ Moves(r, Steps) /\ n.at = "issue" /\ ~Special(r)
      BY <2>1 DEF ToIssue, Moves, Steps, Special, Verify, ChangeEmailStep, OpenAddress, SetPassword, Issue, At
    <3> QED
      BY <1>0, <3>1, IssueKeepsClaims
  <2>2. CASE q.at = "lookup" /\ n.at = q.then
    <3>1. q.then \in {"admit", "forget", "mediafill", "merge", "mergeguest", "mediaowner"}
      BY <2>2 DEF ReqRight, Control, LookupRight
    <3> QED
      BY <2>2, <3>1, NoSession DEF SessionSteps
  <2>3. CASE Ends(r) \/ n.at \in {"lookup", "untoken"}
    BY <1>a, <2>3, NoSession DEF SessionSteps
  <2> QED
    BY <1>24, <2>1, <2>2, <2>3, IgnoreEffect DEF Moves
<1>25. CASE GoOn(r)
  <2>0. Calm({})
    BY <1>25, QuietStepsKeep, QuietKept DEF QuietSteps
  <2>1. CASE q.at = "revoke" /\ Becomes(r, {"at", "after"}) /\ n.at = "unmedia" /\ n.after = 0
    <3>1. Claims(r)
      BY <2>1 DEF Becomes, Alters, Fields, Claims
    <3>2. Entitled(req[r])'
      BY <2>0, <2>1, <3>1, EntitledKept DEF SessionRight, Granting
    <3>3. Newest(req[r])'
      BY <1>0, <2>1, NewestAtFirst
    <3> QED
      BY <2>1, <3>2, <3>3 DEF SessionRight, Granting
  <2>2. CASE Ends(r) \/ n.at \in {"drop", "owner"}
    BY <1>a, <2>2, NoSession DEF SessionSteps
  <2>3. CASE q.at \in {"openapprove", "openmail", "openaddress"} /\ Moves(r, {"issue", "openmail"})
    <3>1. ToIssue(q) /\ Moves(r, Steps) /\ n.at \in {"issue", "openmail"}
      BY <2>3 DEF ToIssue, Moves, Steps
    <3> QED
      BY <2>0, <3>1, IssueKeepsClaims
  <2> QED
    BY <1>25, <2>1, <2>2, <2>3, GoOnEffect DEF Moves
<1> QED
  BY <1>1, <1>2, <1>3, <1>4, <1>5, <1>6, <1>7, <1>8, <1>9, <1>10, <1>11, <1>12, <1>13, <1>14, <1>15, <1>16,
     <1>17, <1>18, <1>19, <1>20, <1>21, <1>22, <1>23, <1>24, <1>25 DEF Step, Proceed, SignIn

\* A new password takes every session of the account out of use, and the logins that checked
\* the old one are marked.
LEMMA PasswordSessions ==
  ASSUME BaseRight, SessionsRight, NEW r \in Requests, SetPassword(r)
  PROVE  SessionsRight'
<1> USE DEF BaseRight
<1> DEFINE u == req[r].victim
<1>0. Step(r) /\ Calm({"pw"})
  BY SpecialCalm DEF Step, Proceed
<1>1. SessionRight(req[r])'
  BY <1>0, StepSession DEF SessionsRight
<1>2. CASE UNCHANGED <<users, tokens>> /\ Ends(r)
  <2>1. UNCHANGED <<store, cache>>
    BY <1>2 DEF SetPassword, store
  <2>2. Calm({})
    BY <2>1, QuietKept, CacheTyped
  <2>3. \A o \in Requests \ {r} : SessionRight(req[o])'
    BY <1>0, <2>2, OthersSame, SameSession DEF SessionsRight
  <2> QED
    BY <1>1, <2>2, <2>3, SessionsCalm DEF SessionsRight
<1>3. CASE /\ UpdatePassword(u, req[r].pw) /\ RevokeTokensByUserId(u) /\ u \in Existing
           /\ \A o \in Requests \ {r} :
                req[o].at # "idle" /\ req[o].user = u => "password" \in req'[o].crossed
  <2>1. /\ Existing' = Existing
        /\ \A v \in Existing \ {u} : users'[v] = users[v]
        /\ \A t \in Tokens : Live(t)' => tokens[t].user # u
    BY <1>3, RequestFields, PasswordCalm DEF SetPassword
  <2>2. ASSUME NEW o \in Requests \ {r} PROVE SessionRight(req[o])'
    <3>1. Same(o) /\ SessionRight(req[o])
      BY <1>0, OthersSame DEF SessionsRight
    <3>2. /\ Claims(o) /\ req'[o].after = req[o].after /\ req'[o].at = req[o].at
          /\ req'[o].victim = req[o].victim /\ req'[o].then = req[o].then
      BY <3>1 DEF Same, Alters, Fields, Claims
    <3>3. CASE req[o].user # u \/ req[o].op # "login"
      <4>1. Entitled(req[o]) => Entitled(req[o])'
        <5>1. seq' = seq
          BY DEF SetPassword
        <5>2. req[o].op = "gateway" => req[o].sub # None
          BY NoneAssumption DEF ReqRight, Control
        <5>3. \A v \in Existing : users[v].sub # None => users'[v].sub = users[v].sub
          BY <1>0, <2>1 DEF Calm, StoreRight
        <5> QED
          BY <2>1, <3>2, <3>3, <5>1, <5>2, <5>3 DEF Entitled, Claims
      <4>2. Newest(req[o]) => Newest(req[o])'
        BY <1>0, <3>2, NewestKept DEF Claims
      <4>3. (Granting(req[o])' => Granting(req[o])) /\ (ToIssue(req[o])' => ToIssue(req[o]))
        BY <3>2 DEF Granting, ToIssue, Claims
      <4> QED
        BY <3>1, <3>2, <4>1, <4>2, <4>3 DEF SessionRight, Claims
    <3>4. CASE req[o].user = u /\ req[o].op = "login"
      <4>1. CASE req[o].at = "idle"
        BY <3>2, <4>1 DEF SessionRight, Granting, ToIssue
      <4>2. CASE req[o].at # "idle"
        <5>1. "password" \in req'[o].crossed
          BY <1>3, <3>4, <4>2
        <5>2. Entitled(req[o]) => Entitled(req[o])'
          BY <3>2, <3>4, <5>1 DEF Entitled, Claims, SetPassword
        <5>3. Newest(req[o]) => Newest(req[o])'
          BY <1>0, <3>2, NewestKept DEF Claims
        <5>4. (Granting(req[o])' => Granting(req[o])) /\ (ToIssue(req[o])' => ToIssue(req[o]))
          BY <3>2 DEF Granting, ToIssue, Claims
        <5> QED
          BY <3>1, <3>2, <5>2, <5>3, <5>4 DEF SessionRight, Claims
      <4> QED
        BY <4>1, <4>2
    <3> QED
      BY <3>3, <3>4
  <2>3. ASSUME NEW t \in Tokens, Live(t)'
        PROVE  /\ Live(t) /\ tokens[t].user \in Existing \ {u} /\ tokens[t].user < seq.account
               /\ tokens'[t].user = tokens[t].user /\ tokens'[t].after = tokens[t].after
               /\ tokens'[t].pw = tokens[t].pw /\ tokens'[t].sub = tokens[t].sub
    BY <1>0, <2>1, <2>3 DEF Calm, StoreRight
  <2>4. Superseded'
    BY <2>3 DEF Superseded, SessionsRight
  <2>5. OldPasswordOut'
    BY <2>1, <2>3 DEF OldPasswordOut, SessionsRight
  <2>6. GatewaySessionOwner'
    BY <2>1, <2>3 DEF GatewaySessionOwner, SessionsRight
  <2> QED
    BY <1>1, <2>2, <2>4, <2>5, <2>6 DEF SessionsRight
<1> QED
  BY <1>2, <1>3, SetPasswordEffect

\* The session that is issued is the newest of its account, and entitled to its history.
LEMMA IssueSessions ==
  ASSUME BaseRight, SessionsRight, NEW r \in Requests, Issue(r)
  PROVE  SessionsRight'
<1> USE DEF BaseRight
<1> DEFINE q == req[r]
           p == IF q.op = "login" /\ "password" \notin q.crossed THEN q.pw ELSE None
           k == seq.token
<1>0. Step(r) /\ q.at = "issue"
  BY DEF Step, Proceed, Issue, At
<1>1. SessionRight(req[r])'
  BY <1>0, StepSession DEF SessionsRight
<1>2. q.user \in Accounts \cup {0} /\ q.after \in Nat /\ p \in Passwords \cup {None}
      /\ q.sub \in Subs \cup {None}
  BY RequestFields
<1>3. CreateToken(q.user, q.after, p, q.sub) /\ UNCHANGED <<users, links, cache>>
  BY DEF Issue
<1> HIDE DEF p
<1>4. /\ StoreTypeOK' /\ StoreRight' /\ Existing' = Existing
      /\ k \in Tokens /\ seq'.token = k + 1 /\ seq'.account = seq.account
      /\ \A t \in Tokens \ {k} : tokens'[t] = tokens[t]
      /\ tokens'[k].user = q.user /\ tokens'[k].after = q.after
      /\ tokens'[k].pw = p /\ tokens'[k].sub = q.sub
      /\ ((tokens'[k].status = "live") <=> (q.user \in Existing))
  BY <1>2, <1>3, IssueStore
<1>4a. (tokens'[k].status = "live") <=> (q.user \in Existing)
  BY <1>4
<1>5. Entitled(q) /\ Newest(q)
  BY <1>0 DEF SessionsRight, SessionRight, Granting, ToIssue
<1>6. k \in Nat /\ \A t \in Tokens : t \in Nat
  BY IdsAssumption DEF StoreTypeOK
<1>7. \A t \in Tokens : Live(t) => t < k
  <2>1. 0 \notin Accounts
    BY IdsAssumption
  <2> QED
    BY <1>6, <2>1 DEF StoreRight, Existing
<1>8. \A t \in Tokens \ {k} : Live(t)' => Live(t)
  BY <1>4 DEF Live
<1>9. ASSUME NEW o \in Requests \ {r} PROVE SessionRight(req[o])'
  <2>1. Same(o) /\ SessionRight(req[o])
    BY <1>0, OthersSame DEF SessionsRight
  <2>2. /\ Claims(o) /\ req'[o].after = req[o].after /\ req'[o].at = req[o].at
        /\ req'[o].victim = req[o].victim /\ req'[o].then = req[o].then
    BY <2>1 DEF Same, Alters, Fields, Claims
  <2>3. Entitled(req[o]) => Entitled(req[o])'
    BY <1>3, <1>4, <2>2 DEF Entitled, Claims
  <2>4. req[o].after \in Nat
    BY RequestFields
  <2>5. Newest(req[o]) => Newest(req[o])'
    <3> SUFFICES ASSUME Newest(req[o]) PROVE Newest(req[o])'
      OBVIOUS
    <3>1. req'[o].after < seq'.token
      BY <1>4, <1>6, <2>2, <2>4 DEF Newest
    <3>2. ASSUME NEW s \in Tokens, Live(s)', tokens'[s].user = req'[o].user PROVE s > req'[o].after
      <4>1. CASE s = k
        BY <2>2, <4>1 DEF Newest
      <4>2. CASE s # k
        BY <1>4, <1>8, <2>2, <3>2, <4>2 DEF Newest, Claims
      <4> QED
        BY <4>1, <4>2
    <3> QED
      BY <3>1, <3>2 DEF Newest
  <2>6. (Granting(req[o])' => Granting(req[o])) /\ (ToIssue(req[o])' => ToIssue(req[o]))
    BY <2>2 DEF Granting, ToIssue, Claims
  <2> QED
    BY <2>1, <2>2, <2>3, <2>5, <2>6 DEF SessionRight, Claims
<1>10. Superseded'
  <2> SUFFICES ASSUME NEW s \in Tokens, NEW t \in Tokens, s < t, Live(s)', Live(t)',
     tokens'[s].user = tokens'[t].user
               PROVE  s > tokens'[t].after
    BY DEF Superseded
  <2>1. CASE s # k /\ t # k
    BY <1>4, <1>8, <2>1 DEF Superseded, SessionsRight
  <2>2. CASE s = k
    BY <1>6, <1>7, <1>8, <2>2
  <2>3. CASE s # k /\ t = k
    BY <1>4, <1>5, <1>8, <2>3 DEF Newest
  <2> QED
    BY <2>1, <2>2, <2>3
<1>11. OldPasswordOut'
  <2> SUFFICES ASSUME NEW t \in Tokens, Live(t)', tokens'[t].pw # None
               PROVE  tokens'[t].pw = users'[tokens'[t].user].pw
    BY DEF OldPasswordOut
  <2>1. CASE t # k
    BY <1>3, <1>4, <1>8, <2>1 DEF OldPasswordOut, SessionsRight
  <2>2. CASE t = k
    <3>1. q.user \in Existing
      BY <1>4a, <2>2 DEF Live
    <3>2. p # None /\ q.op = "login" /\ "password" \notin q.crossed /\ p = q.pw
      BY <1>4, <2>2 DEF p
    <3> QED
      BY <1>3, <1>4, <1>5, <2>2, <3>1, <3>2 DEF Entitled
  <2> QED
    BY <2>1, <2>2
<1>12. GatewaySessionOwner'
  <2> SUFFICES ASSUME NEW t \in Tokens, Live(t)', tokens'[t].sub # None
               PROVE  users'[tokens'[t].user].sub = tokens'[t].sub
    BY DEF GatewaySessionOwner
  <2>1. CASE t # k
    BY <1>3, <1>4, <1>8, <2>1 DEF GatewaySessionOwner, SessionsRight
  <2>2. CASE t = k
    <3>1. q.user \in Existing
      BY <1>4a, <2>2 DEF Live
    <3>2. q.op = "gateway"
      BY <1>4, <2>2 DEF ReqRight, Control
    <3> QED
      BY <1>3, <1>4, <1>5, <2>2, <3>1, <3>2 DEF Entitled
  <2> QED
    BY <2>1, <2>2
<1> QED
  BY <1>1, <1>9, <1>10, <1>11, <1>12 DEF SessionsRight

\* And with it all sessions.
LEMMA StepSessions ==
  ASSUME BaseRight, SessionsRight, NEW r \in Requests, Step(r)
  PROVE  SessionsRight'
<1>1. CASE SetPassword(r) \/ Issue(r)
  BY <1>1, PasswordSessions, IssueSessions
<1>2. CASE ~(SetPassword(r) \/ Issue(r))
  <2>1. Calm({"email", "verified"})
    <3>1. CASE Special(r)
      BY <1>2, <3>1, SpecialCalm DEF Special, Calm
    <3>2. CASE ~Special(r)
      BY <3>2, StepCalm DEF Calm
    <3> QED
      BY <3>1, <3>2
  <2>2. SessionRight(req[r])'
    BY StepSession DEF SessionsRight
  <2>3. \A o \in Requests \ {r} : SessionRight(req[o])'
    BY <2>1, OthersSame, SameSession DEF SessionsRight
  <2> QED
    BY <2>1, <2>2, <2>3, SessionsCalm DEF SessionsRight
<1> QED
  BY <1>1, <1>2

\* So does every step; at the start the sessions are in order.
LEMMA SessionsStep == BaseRight /\ SessionsRight /\ [Next]_vars => SessionsRight'
<1> SUFFICES ASSUME BaseRight, SessionsRight, [Next]_vars PROVE SessionsRight'
  OBVIOUS
<1>1. CASE Around \/ UNCHANGED vars
  <2>1. Calm({}) /\ \A r \in Requests : Renewed(r)
    BY <1>1, AroundBase, StutterBase
  <2>2. \A r \in Requests : SessionRight(req[r])'
    BY <2>1, RenewedSession DEF SessionsRight
  <2> QED
    BY <2>1, <2>2, SessionsCalm DEF SessionsRight
<1> QED
  BY <1>1, StepSessions, NextSteps

LEMMA InitSessions == Init => SessionsRight
<1> SUFFICES ASSUME Init PROVE SessionsRight
  OBVIOUS
<1>1. PICK s \in Scenarios : users = s.users /\ tokens = s.tokens
  BY DEF Init, InitAccounts
<1>2. Sound(s)
  BY ScenarioAssumption
<1>3. ASSUME NEW t \in Tokens, Live(t)
      PROVE  /\ tokens[t].after = 0 /\ tokens[t].user \in Accounts
             /\ tokens[t].pw \in {None, users[tokens[t].user].pw}
             /\ tokens[t].sub \in {None, users[tokens[t].user].sub}
  BY <1>1, <1>2, <1>3 DEF Sound, Live
<1>4. Superseded
  <2>1. \A t \in Tokens : t > 0
    BY IdsAssumption
  <2> QED
    BY <1>3, <2>1 DEF Superseded
<1>5. OldPasswordOut /\ GatewaySessionOwner
  BY <1>3 DEF OldPasswordOut, GatewaySessionOwner
<1>6. \A r \in Requests : SessionRight(req[r])
  BY DEF Init, InitAccounts, SessionRight, Granting, ToIssue, Idle
<1> QED
  BY <1>4, <1>5, <1>6 DEF SessionsRight

\* The sessions are in order at all times.
LEMMA SessionsAreRight == Spec => []SessionsRight
<1>1. Init => BaseRight /\ SessionsRight
  BY InitBase, InitSessions
<1>2. BaseRight /\ SessionsRight /\ [Next]_vars => (BaseRight /\ SessionsRight)'
  BY BaseStep, SessionsStep
<1> QED
  BY <1>1, <1>2, PTL DEF Spec

\* Of two sessions of one viewer that are alive, the older was issued after the login that
\* issued the newer had revoked what it saw, for any number of accounts, requests and
\* sessions, whatever they do at once.
THEOREM NewSessionsSupersede == Spec => []Superseded
<1>1. SessionsRight => Superseded
  BY DEF SessionsRight
<1> QED
  BY <1>1, SessionsAreRight, PTL

\* No session outlives the password it was opened with, unless the login was under way
\* when the password changed.
THEOREM OldPasswordsAreOut == Spec => []OldPasswordOut
<1>1. SessionsRight => OldPasswordOut
  BY DEF SessionsRight
<1> QED
  BY <1>1, SessionsAreRight, PTL

-----------------------------------------------------------------------------
(* The token cache.                                                        *)

\* A cached row is that of the token's user.
RowsRight == \A t \in Tokens : cache[t] # NoUser => t < seq.token /\ cache[t].id = tokens[t].user
\* So is the row that a look-up is about to cache; a logout finds its token uncached,
\* unless a look-up came in between.
LookupKnown(q) ==
  q.at = "fill" => q.row \in User /\ q.probe < seq.token /\ q.row.id = tokens[q.probe].user
\* A logout that is about to delete its token, and the cache as a whole.
LogoutClear(q) ==
  q.at = "deltoken" /\ q.token \in Tokens => cache[q.token] = NoUser \/ q.token \in late

CacheRight ==
  /\ RowsRight
  /\ \A r \in Requests : LookupKnown(req[r]) /\ LogoutClear(req[r])
  /\ CachedUnlessLate

\* What is in use stays the session of its account.
TokensKeep ==
  \A t \in Tokens : t < seq.token => t < seq'.token /\ tokens'[t].user = tokens[t].user

\* No step changes the user of a token that was issued.
LEMMA CalmKeeps == ASSUME NEW F, Calm(F) PROVE TokensKeep
BY DEF Calm, TokensKeep

LEMMA IssueFacts ==
  ASSUME BaseRight, NEW r \in Requests, Issue(r)
  PROVE  /\ seq.token \in Tokens /\ seq'.token = seq.token + 1
         /\ \A t \in Tokens \ {seq.token} : tokens'[t] = tokens[t]
<1> DEFINE p == IF req[r].op = "login" /\ "password" \notin req[r].crossed THEN req[r].pw ELSE None
<1>0. StoreTypeOK /\ StoreRight /\ ReqRight
  BY DEF BaseRight
<1>1. /\ req[r].user \in Accounts \cup {0} /\ req[r].after \in Nat
      /\ p \in Passwords \cup {None} /\ req[r].sub \in Subs \cup {None}
  BY <1>0, RequestFields
<1>2. CreateToken(req[r].user, req[r].after, p, req[r].sub) /\ UNCHANGED <<users, links, cache>>
  BY DEF Issue
<1> HIDE DEF p
<1> QED
  BY <1>0, <1>1, <1>2, IssueStore

LEMMA StepKeeps ==
  ASSUME BaseRight, NEW r \in Requests, Step(r)
  PROVE  TokensKeep
<1>1. CASE Issue(r)
  <2>1. seq.token \in Nat /\ \A t \in Tokens : t \in Nat
    BY IdsAssumption DEF BaseRight, StoreTypeOK
  <2> QED
    BY <1>1, <2>1, IssueFacts DEF TokensKeep
<1>2. CASE ~Special(r)
  BY <1>2, StepCalm, CalmKeeps
<1>3. CASE Special(r) /\ ~Issue(r)
  BY <1>3, SpecialCalm, CalmKeeps DEF Special
<1> QED
  BY <1>1, <1>2, <1>3

\* A request is only taken from its place when it is dropped or the process stops.
LEMMA AroundLost ==
  ASSUME BaseRight, Around, NEW o \in Requests, req[o].at # "idle", ~Same(o)
  PROVE  Drop(o) \/ Restart
<1>1. req' # req
  BY DEF Same, Alters
<1>2. ASSUME NEW r \in Requests, Arrive(r) \/ \E f \in pending : Callback(r, f)
      PROVE  FALSE
  <2>1. Starts(r)
    BY <1>2, ArriveStarts, CallbackStarts DEF BaseRight
  <2>2. o # r
    BY <2>1 DEF Starts
  <2> QED
    BY <2>1, <2>2 DEF Starts, Becomes, Same
<1>3. ASSUME NEW r \in Requests, Drop(r) PROVE r = o
  <2>1. Becomes(r, Fields)
    BY <1>3, EndEffects DEF BaseRight, Ends
  <2> QED
    BY <2>1 DEF Becomes, Same
<1>4. Environment => \E r \in Requests : Drop(r)
  BY <1>1 DEF Environment, UncacheAfterTTL, MediaAfterTTL, Expire, Cleanup
<1>5. ~(Start \/ (\E f \in pending : PendingAfterTTL(f)) \/ (\E c \in codes : Exchange(c)))
  BY <1>1 DEF Start, PendingAfterTTL, Exchange
<1> QED
  BY <1>2, <1>3, <1>4, <1>5 DEF Around

\* The step that a request takes, by where it is.
LEMMA StepFrom ==
  ASSUME NEW r \in Requests, Step(r)
  PROVE  /\ req[r].at = "uncache" => Uncache(r)
         /\ req[r].at = "dropuser" => DropUser(r) \/ GoOn(r)
         /\ req[r].at = "drop" => DropTokens(r) \/ GoOn(r)
         /\ req[r].at = "linknew" => LinkNew(r) \/ GoOn(r)
         /\ req[r].at = "openapprove" => OpenApprove(r) \/ GoOn(r)
         /\ req[r].at # "idle"
BY DEF Ignore, GoOn, Step, Proceed, SignIn, FindByToken, Fill, Admit, Uncache, MediaMembers, InvalidateMediaAuthUser,
   CountStep,
   NameStep, CreateStep, LoginStep, Revoke, Issue, NewGuest, MergeOwner, MergeGuest, MediaOwner, Forget,
   DeleteTokenStep, InvalidateMediaAuthToken, Reauthenticate, ChangeEmailStep, ReadAddress, SendLink,
      ForgetfulUser,
   ResetLink, Consume, Verify, SetPassword, DropTokens, DropUser, Kick, Approve, Toggle, MediaLocal, MediaRedis,
   MediaFill, MediaPut, BySub, ByMail, Candidate, OpenAccount, LinkNew, LinkOwner, SignInOwner,
      OpenApprove, OpenMail,
   OpenAddress, HandOver, At

\* Where a request has come from, by the step it is at.
LEMMA StepLeads ==
  ASSUME BaseRight, NEW r \in Requests, Step(r)
  PROVE  /\ req'[r].at = "fill" => FindByToken(r)
         /\ req'[r].at = "deltoken" => Forget(r)
         /\ req'[r].at = "verify" => Consume(r)
         /\ req'[r].at = "sendlink" => ReadAddress(r)
         /\ req'[r].at = "code" => Issue(r)
         /\ req'[r].at = "linknew" => OpenAccount(r)
         /\ req'[r] = Idle \/ req'[r].op = req[r].op
<1> USE DEF BaseRight
<1>0. Ends(r) => req'[r].at = "idle" /\ req'[r] = Idle
  BY DEF Ends, Idle
<1>00. \A F : Becomes(r, F) /\ "op" \notin F => req'[r].op = req[r].op
  BY DEF Becomes, Alters, Fields
<1>1. CASE \/ FindByToken(r) \/ Fill(r) \/ Admit(r) \/ Uncache(r)
  <2>1. CASE FindByToken(r)
    <3>1. req[r].at = "lookup" /\ Control(req[r])
      BY <2>1, FindEffect DEF ReqRight
    <3>2. req'[r].at \in {req[r].then, "fill"} /\ req'[r].op = req[r].op
      BY <1>00, <2>1, FindEffect
    <3> QED
      BY <2>1, <3>1, <3>2 DEF Control, LookupRight
  <2>2. CASE Fill(r)
    <3>1. Control(req[r]) /\ req[r].at = "fill" /\ req'[r].at = req[r].then /\ req'[r].op = req[r].op
      BY <1>00, <2>2, FillEffect DEF ReqRight, Moves
    <3> QED
      BY <3>1 DEF Control, LookupRight
  <2>3. CASE Admit(r)
    BY <1>0, <1>00, <2>3, AdmitEffect DEF BearerOps, Targeted
  <2>4. CASE Uncache(r)
    BY <1>0, <1>00, <2>4, UncacheEffect DEF Moves
  <2> QED
    BY <1>1, <2>1, <2>2, <2>3, <2>4
<1>2. CASE MediaMembers(r) \/ InvalidateMediaAuthUser(r) \/ MediaRedis(r)
  BY <1>0, <1>00, <1>2, MediaEffects DEF MediaTyped, Moves
<1>3. CASE \/ NameStep(r) \/ Forget(r) \/ DeleteTokenStep(r) \/ Reauthenticate(r) \/ DropTokens(r)
           \/ DropUser(r) \/ Kick(r) \/ MediaLocal(r) \/ MediaFill(r) \/ OpenApprove(r) \/ OpenMail(r)
  BY <1>0, <1>00, <1>3, MoveEffects DEF Moves
<1>4. CASE CountStep(r) \/ CreateStep(r) \/ LoginStep(r) \/ Revoke(r) \/ Issue(r) \/ NewGuest(r)
  BY <1>0, <1>00, <1>4, CountStepEffect, CreateStepEffect, LoginStepEffect, RevokeEffect, IssueEffect,
     NewGuestEffect
     DEF Moves
<1>5. CASE MergeOwner(r) \/ MergeGuest(r) \/ MediaOwner(r) \/ ReadAddress(r) \/ ForgetfulUser(r) \/ Consume(r)
  BY <1>0, <1>00, <1>5, MergeOwnerEffect, MergeGuestEffect, MediaOwnerEffect, ReadAddressEffect,
     ForgetfulUserEffect,
     ConsumeEffect DEF Moves
<1>6. CASE ChangeEmailStep(r) \/ SetPassword(r) \/ OpenAddress(r) \/ OpenAccount(r) \/ LinkNew(r)
      \/ LinkOwner(r)
  BY <1>0, <1>00, <1>6, ChangeEmailStepEffect, SetPasswordEffect, OpenAddressEffect, OpenAccountEffect,
     LinkNewEffect,
     LinkOwnerEffect DEF Moves, Grants
<1>7. CASE SignInOwner(r) \/ BySub(r) \/ ByMail(r) \/ Candidate(r)
  BY <1>0, <1>00, <1>7, SignInOwnerEffect, BySubEffect, ByMailEffect, CandidateEffect DEF Moves, Grants
<1>8. CASE \/ InvalidateMediaAuthToken(r) \/ SendLink(r) \/ ResetLink(r) \/ Verify(r) \/ Approve(r)
           \/ Toggle(r) \/ MediaPut(r) \/ HandOver(r)
  BY <1>0, <1>00, <1>8, EndEffects
<1>9. CASE Ignore(r)
  <2>1. Control(req[r])
    BY DEF ReqRight
  <2>2. req'[r].at \notin {"fill", "deltoken", "verify", "sendlink", "code", "linknew"}
    BY <1>0, <1>9, <2>1, IgnoreEffect DEF Moves, Control, LookupRight
  <2>3. req'[r] = Idle \/ req'[r].op = req[r].op
    BY <1>0, <1>00, <1>9, IgnoreEffect DEF Moves
  <2> QED
    BY <2>2, <2>3
<1>10. CASE GoOn(r)
  BY <1>0, <1>00, <1>10, GoOnEffect DEF Moves
<1> QED
  BY <1>1, <1>2, <1>3, <1>4, <1>5, <1>6, <1>7, <1>8, <1>9, <1>10 DEF Step, Proceed, SignIn

\* What may be cached while its session is out of use, after a step.
Excused(t) == Live(t)' \/ t \in late' \/ \E o \in Requests : t \in LeftBehind(o)'

\* A lookup finds a row just for the live tokens.
LEMMA LiveFound ==
  ASSUME StoreRight, NEW t \in Tokens
  PROVE  FindUserByToken(t) # {} <=> Live(t)
BY DEF FindUserByToken, StoreRight, Existing

\* A row that is cached after a step needs an excuse.
LEMMA CachedKept ==
  ASSUME BaseRight', \A t \in Tokens : cache'[t] # NoUser => Excused(t)
  PROVE  CachedUnlessLate'
<1>1. ASSUME NEW t \in Tokens, Live(t)' PROVE FindUserByToken(t)' # {}
  BY <1>1 DEF BaseRight, StoreRight, FindUserByToken, Existing
<1> QED
  BY <1>1 DEF CachedUnlessLate, Excused

\* The step of a request that puts a session out of use is to take it out of the cache,
\* but for the last of a logout.
LEMMA StepDying ==
  ASSUME BaseRight, NEW r \in Requests, Step(r), NEW t \in Tokens, t < seq.token,
         Live(t), ~Live(t)'
  PROVE  t \in LeftBehind(r)' \/ (DeleteTokenStep(r) /\ t = req[r].token)
<1> USE DEF BaseRight
<1>0. tokens'[t].user = tokens[t].user /\ tokens' # tokens
  BY StepKeeps DEF TokensKeep, Live
<1>1. CASE Revoke(r) \/ DropTokens(r) \/ Kick(r)
  <2>1. tokens[t].user = req[r].victim
    BY <1>1 DEF Revoke, DropTokens, Kick, RevokeTokensByUserId, DeleteTokensByUserId, Settle, TokensOf, Live
  <2>2. req'[r].at \in {"uncache", "dropuser"} /\ req'[r].victim = req[r].victim
    BY <1>1, RevokeEffect, MoveEffects DEF Moves, Becomes, Alters, Fields
  <2> QED
    BY <1>0, <2>1, <2>2 DEF LeftBehind, At
<1>2. CASE SetPassword(r)
  <2>1. /\ RevokeTokensByUserId(req[r].victim) /\ Moves(r, {"uncache"})
    BY <1>0, <1>2, SetPasswordEffect
  <2>2. tokens[t].user = req[r].victim
    BY <2>1 DEF RevokeTokensByUserId, Settle, TokensOf, Live
  <2>3. req'[r].at = "uncache" /\ req'[r].victim = req[r].victim
    BY <2>1 DEF Moves, Becomes, Alters, Fields
  <2> QED
    BY <1>0, <2>2, <2>3 DEF LeftBehind, At
<1>3. CASE MergeGuest(r)
  <2>1. req'[r].at = "uncache" /\ RemoveUser(req'[r].victim)
    BY <1>0, <1>3, MergeGuestEffect
  <2>2. tokens[t].user = req'[r].victim
    BY <2>1 DEF RemoveUser, Live
  <2> QED
    BY <1>0, <2>1, <2>2 DEF LeftBehind, At
<1>4. CASE DropUser(r)
  <2>1. req'[r].at = "uncache" /\ req'[r].victim = req[r].victim
    BY <1>4, MoveEffects DEF Moves, Becomes, Alters, Fields
  <2>2. tokens[t].user = req[r].victim
    BY <1>4 DEF DropUser, RemoveUser, Live
  <2> QED
    BY <1>0, <2>1, <2>2 DEF LeftBehind, At
<1>5. CASE DeleteTokenStep(r)
  BY <1>5 DEF DeleteTokenStep, DeleteToken, Settle, Live
<1>6. CASE Issue(r)
  <2>1. seq.token \in Nat /\ t \in Nat
    BY IdsAssumption DEF StoreTypeOK
  <2>2. t # seq.token
    BY <2>1
  <2> QED
    BY <1>6, <2>2, IssueFacts DEF Live
<1>7. ASSUME QuietSteps(r) PROVE FALSE
  BY <1>0, <1>7, QuietStepsKeep DEF store
<1>8. CASE \/ CreateStep(r) \/ NewGuest(r) \/ ChangeEmailStep(r) \/ SendLink(r) \/ ResetLink(r)
           \/ Consume(r) \/ Verify(r) \/ Approve(r) \/ Toggle(r) \/ OpenAccount(r) \/ LinkNew(r)
           \/ LinkOwner(r) \/ OpenApprove(r) \/ OpenAddress(r)
  BY <1>0, <1>8 DEF CreateStep, NewGuest, ChangeEmailStep, SendLink, ResetLink, Consume, Verify, Approve,
     Toggle,
     OpenAccount, LinkNew, LinkOwner, OpenApprove, OpenAddress, store
<1> QED
  BY <1>1, <1>2, <1>3, <1>4, <1>5, <1>6, <1>7, <1>8 DEF Step, Proceed, SignIn, QuietSteps

\* What the steps of a request do to the cache.
LEMMA StepCache ==
  ASSUME BaseRight, NEW r \in Requests, Step(r)
  PROVE  \/ UNCHANGED <<cache, late>>
         \/ UNCHANGED cache /\ GoOn(r) /\ late' = late \cup LeftBehind(r)
         \/ Uncache(r) \/ Forget(r) \/ Fill(r)
<1> USE DEF history
<1>1. CASE \/ FindByToken(r) \/ Admit(r) \/ MediaMembers(r) \/ InvalidateMediaAuthUser(r)
           \/ CountStep(r) \/ NameStep(r) \/ LoginStep(r) \/ MergeOwner(r) \/ MediaOwner(r)
           \/ InvalidateMediaAuthToken(r) \/ Reauthenticate(r) \/ ReadAddress(r) \/ ForgetfulUser(r)
  BY <1>1 DEF FindByToken, Admit, MediaMembers, InvalidateMediaAuthUser, CountStep, NameStep, LoginStep,
     MergeOwner, MediaOwner, InvalidateMediaAuthToken, Reauthenticate, ReadAddress, ForgetfulUser
<1>2. CASE \/ MediaLocal(r) \/ MediaRedis(r) \/ MediaFill(r) \/ MediaPut(r) \/ BySub(r) \/ ByMail(r)
           \/ Candidate(r) \/ SignInOwner(r) \/ OpenMail(r) \/ HandOver(r)
  BY <1>2 DEF MediaLocal, MediaRedis, MediaFill, MediaPut, BySub, ByMail, Candidate, SignInOwner, OpenMail,
     HandOver, unchangedHere
<1>3. CASE \/ CreateStep(r) \/ Revoke(r) \/ Issue(r) \/ NewGuest(r) \/ MergeGuest(r) \/ DeleteTokenStep(r)
           \/ DropTokens(r) \/ DropUser(r) \/ Kick(r) \/ Approve(r) \/ Toggle(r)
  BY <1>3 DEF CreateStep, Revoke, Issue, NewGuest, MergeGuest, DeleteTokenStep, DropTokens, DropUser, Kick,
     Approve, Toggle
<1>4. CASE \/ ChangeEmailStep(r) \/ SendLink(r) \/ ResetLink(r) \/ Consume(r) \/ Verify(r) \/ SetPassword(r)
           \/ OpenAccount(r) \/ LinkNew(r) \/ LinkOwner(r) \/ OpenApprove(r) \/ OpenAddress(r)
  BY <1>4 DEF ChangeEmailStep, SendLink, ResetLink, Consume, Verify, SetPassword, OpenAccount, LinkNew,
     LinkOwner, OpenApprove, OpenAddress
<1>5. CASE Ignore(r) \/ GoOn(r)
  BY <1>5 DEF Ignore, GoOn
<1> QED
  BY <1>1, <1>2, <1>3, <1>4, <1>5 DEF Step, Proceed, SignIn

\* The cached rows are those of the users of their tokens.
LEMMA StepRows ==
  ASSUME BaseRight, CacheRight, NEW r \in Requests, Step(r)
  PROVE  RowsRight'
<1>1. TokensKeep
  BY StepKeeps
<1>2. ASSUME NEW t \in Tokens, cache'[t] # NoUser
      PROVE  t < seq.token /\ cache'[t].id = tokens[t].user
  <2>1. CASE cache'[t] = cache[t]
    BY <1>2, <2>1 DEF CacheRight, RowsRight
  <2>2. CASE Fill(r)
    <3>1. /\ req[r].at = "fill" /\ LookupKnown(req[r])
          /\ cache' = [cache EXCEPT ![req[r].probe] = req[r].row]
      BY <2>2, FillEffect DEF Fill, CacheToken, CacheRight, BaseRight
    <3>2. t = req[r].probe \/ cache'[t] = cache[t]
      BY <3>1 DEF BaseRight, StoreTypeOK
    <3>3. t = req[r].probe => cache'[t] = req[r].row
      BY <3>1 DEF BaseRight, StoreTypeOK
    <3> QED
      BY <2>1, <3>1, <3>2, <3>3 DEF LookupKnown
  <2>3. ASSUME Uncache(r) \/ Forget(r) PROVE cache'[t] = cache[t]
    <3>1. cache \in [Tokens -> User \cup {NoUser}]
      BY DEF BaseRight, StoreTypeOK
    <3>2. \E u : InvalidateCachedTokensForUser(u) \/ InvalidateCachedToken(u)
      BY <2>3 DEF Uncache, Forget
    <3> QED
      BY <1>2, <3>1, <3>2 DEF InvalidateCachedTokensForUser, InvalidateCachedToken
  <2> QED
    BY <2>1, <2>2, <2>3, StepCache
<1> QED
  BY <1>1, <1>2 DEF RowsRight, TokensKeep

\* The look-up and the logout that are under way elsewhere, or that just began.
LEMMA LookupKept ==
  ASSUME BaseRight, TokensKeep, NEW r \in Requests, Same(r), LookupKnown(req[r])
  PROVE  LookupKnown(req[r])'
<1>1. req'[r].at = req[r].at /\ req'[r].row = req[r].row /\ req'[r].probe = req[r].probe
  BY DEF Same, Alters, Fields
<1>2. req[r].at = "fill" => req[r].probe \in Tokens
  BY DEF BaseRight, ReqRight, Control, LookupRight
<1> QED
  BY <1>1, <1>2 DEF LookupKnown, TokensKeep

\* What a lookup found is the row of the user of its token.
LEMMA FoundKnown ==
  ASSUME BaseRight, NEW r \in Requests, FindByToken(r)
  PROVE  LookupKnown(req[r])'
<1> DEFINE t == req[r].probe
           n == req'[r]
<1>1. /\ n.probe = t /\ t \in Tokens
      /\ n.at = "fill" => n.row \in FindUserByToken(t) \/ n.at = req[r].then
  BY FindEffect DEF BaseRight, ReqRight, Control, LookupRight, Becomes, Alters, Fields
<1>2. req[r].then # "fill"
  BY FindEffect DEF BaseRight, ReqRight, Control, LookupRight
<1>3. UNCHANGED <<users, tokens, seq>>
  BY DEF FindByToken, store
<1>4. \A row \in FindUserByToken(t) : row \in User /\ t < seq.token /\ row.id = tokens[t].user
  <2>1. ASSUME NEW row \in FindUserByToken(t) PROVE row \in User /\ t < seq.token /\ row.id = tokens[t].user
    <3>1. Live(t) /\ tokens[t].user \in Existing /\ row = users[tokens[t].user]
      BY <2>1 DEF FindUserByToken
    <3>2. row \in User /\ row.id = tokens[t].user
      BY <3>1 DEF BaseRight, StoreTypeOK, StoreRight, Existing
    <3>3. t < seq.token
      <4>1. t \in Nat /\ seq.token \in Nat /\ tokens[t].user # 0
        BY <1>1, <3>1, IdsAssumption DEF BaseRight, StoreTypeOK, Existing
      <4> QED
        BY <1>1, <4>1 DEF BaseRight, StoreRight
    <3> QED
      BY <3>2, <3>3
  <2> QED
    BY <2>1
<1> QED
  BY <1>1, <1>2, <1>3, <1>4 DEF LookupKnown

\* A logout that is left alone finds its token uncached, unless a lookup came in between.
LEMMA LogoutKept ==
  ASSUME NEW r \in Requests, Same(r), LogoutClear(req[r]),
         late \subseteq late',
         \A t \in Tokens : cache'[t] # NoUser =>
           cache[t] # NoUser \/ (LoggingOut(t) => t \in late')
  PROVE  LogoutClear(req[r])'
<1>1. req'[r].at = req[r].at /\ req'[r].token = req[r].token
  BY DEF Same, Alters, Fields
<1>2. req[r].at = "deltoken" => LoggingOut(req[r].token)
  BY DEF LoggingOut, At
<1> QED
  BY <1>1, <1>2 DEF LogoutClear

\* A step that caches a row marks it late when a logout of the token is under way.
LEMMA StepLate ==
  ASSUME BaseRight, NEW r \in Requests, Step(r)
  PROVE  /\ late \subseteq late'
         /\ \A t \in Tokens : cache'[t] # NoUser =>
              cache[t] # NoUser \/ (LoggingOut(t) => t \in late')
<1>0. cache \in [Tokens -> User \cup {NoUser}]
  BY DEF BaseRight, StoreTypeOK
<1>1. CASE UNCHANGED cache /\ (UNCHANGED late \/ late' = late \cup LeftBehind(r))
  BY <1>1
<1>2. CASE Uncache(r) \/ Forget(r)
  BY <1>0, <1>2 DEF Uncache, Forget, InvalidateCachedTokensForUser, InvalidateCachedToken, history
<1>3. CASE Fill(r)
  BY <1>0, <1>3 DEF Fill, CacheToken
<1> QED
  BY <1>1, <1>2, <1>3, StepCache

\* Lookups and logouts stay in order, whatever step is taken.
LEMMA StepRequests ==
  ASSUME BaseRight, CacheRight, NEW r \in Requests, Step(r), NEW o \in Requests
  PROVE  LookupKnown(req[o])' /\ LogoutClear(req[o])'
<1>1. CASE o # r
  BY <1>1, OthersSame, StepKeeps, LookupKept, StepLate, LogoutKept DEF CacheRight
<1>2. LookupKnown(req[r])'
  <2>1. req'[r].at = "fill" => FindByToken(r)
    BY StepLeads
  <2> QED
    BY <2>1, FoundKnown DEF LookupKnown
<1>3. LogoutClear(req[r])'
  <2>1. ASSUME req'[r].at = "deltoken" PROVE req'[r].token \in Tokens => cache'[req'[r].token] = NoUser
    <3>1. Forget(r)
      BY <2>1, StepLeads
    <3>2. req'[r].token = req[r].token
      BY <3>1, MoveEffects DEF BaseRight, Moves, Becomes, Alters, Fields
    <3> QED
      BY <3>1, <3>2 DEF Forget, InvalidateCachedToken, BaseRight, StoreTypeOK
  <2> QED
    BY <2>1 DEF LogoutClear
<1> QED
  BY <1>1, <1>2, <1>3

\* The rows that a step leaves in the cache.
LEMMA StepCached ==
  ASSUME BaseRight, BaseRight', CacheRight, NEW r \in Requests, Step(r)
  PROVE  CachedUnlessLate'
<1>0. /\ cache \in [Tokens -> User \cup {NoUser}] /\ StoreRight
      /\ TokensKeep /\ late \subseteq late' /\ RowsRight
  BY StepKeeps, StepLate DEF BaseRight, StoreTypeOK, CacheRight
<1>1. ASSUME NEW t \in Tokens, cache'[t] # NoUser, cache[t] # NoUser
      PROVE  Excused(t)
  <2>0. t < seq.token /\ cache[t].id = tokens[t].user
    BY <1>0, <1>1 DEF RowsRight
  <2>1. CASE Live(t)
    <3>1. CASE t \in LeftBehind(r)' \/ Live(t)'
      BY <3>1 DEF Excused
    <3>2. CASE DeleteTokenStep(r) /\ t = req[r].token
      <4>1. req[r].at = "deltoken" /\ LogoutClear(req[r])
        BY <3>2, MoveEffects DEF CacheRight, BaseRight
      <4>2. t \in late
        BY <1>1, <3>2, <4>1 DEF LogoutClear
      <4> QED
        BY <1>0, <4>2 DEF Excused
    <3> QED
      BY <2>0, <2>1, <3>1, <3>2, StepDying
  <2>2. CASE t \in late
    BY <1>0, <2>2 DEF Excused
  <2>3. CASE \E o \in Requests : t \in LeftBehind(o)
    <3>1. PICK o \in Requests : req[o].at \in {"uncache", "dropuser"} /\ tokens[t].user = req[o].victim
      BY <2>3 DEF LeftBehind, At
    <3>2. tokens'[t].user = req[o].victim
      BY <1>0, <2>0, <3>1 DEF TokensKeep
    <3>3. CASE o # r
      <4>1. req'[o].at = req[o].at /\ req'[o].victim = req[o].victim
        BY <3>3, OthersSame DEF Same, Alters, Fields
      <4> QED
        BY <3>1, <3>2, <4>1 DEF Excused, LeftBehind, At
    <3>4. CASE o = r /\ req[r].at = "dropuser"
      <4>1. CASE DropUser(r)
        <5>1. req'[r].at = "uncache" /\ req'[r].victim = req[r].victim
          BY <3>4, <4>1, MoveEffects DEF BaseRight, Moves, Becomes, Alters, Fields
        <5> QED
          BY <3>1, <3>2, <3>4, <5>1 DEF Excused, LeftBehind, At
      <4>2. CASE GoOn(r)
        <5>1. late' = late \cup LeftBehind(r) /\ t \in LeftBehind(r)
          BY <3>1, <3>4, <4>2 DEF GoOn, LeftBehind, At
        <5> QED
          BY <5>1 DEF Excused
      <4> QED
        BY <3>4, <4>1, <4>2, StepFrom
    <3>5. CASE o = r /\ req[r].at = "uncache"
      <4>1. Uncache(r)
        BY <3>5, StepFrom
      <4>2. cache'[t] = NoUser
        BY <1>1, <2>0, <3>1, <3>5, <4>1 DEF Uncache, InvalidateCachedTokensForUser
      <4> QED
        BY <1>1, <4>2
    <3> QED
      BY <3>1, <3>3, <3>4, <3>5
  <2> QED
    BY <1>0, <1>1, <2>1, <2>2, <2>3, LiveFound DEF CacheRight, CachedUnlessLate
<1>2. ASSUME NEW t \in Tokens, cache'[t] # NoUser, cache[t] = NoUser
      PROVE  Excused(t)
  <2>1. Fill(r)
    BY <1>0, <1>2, StepCache DEF Uncache, Forget, InvalidateCachedTokensForUser, InvalidateCachedToken
  <2>2. t = req[r].probe
    BY <1>0, <1>2, <2>1 DEF Fill, CacheToken
  <2>3. UNCHANGED tokens
    BY <2>1 DEF Fill, store
  <2>4. FindUserByToken(t) = {} => t \in late'
    BY <2>1, <2>2 DEF Fill
  <2> QED
    BY <1>0, <2>3, <2>4, LiveFound DEF Excused, Live
<1> QED
  BY <1>1, <1>2, CachedKept

\* The steps that are no request's own.
LEMMA AroundCached ==
  ASSUME BaseRight, BaseRight', CacheRight, Around
  PROVE  CachedUnlessLate'
<1>0. /\ StoreRight /\ late \subseteq late' /\ RowsRight /\ TokensKeep
      /\ \A r \in Requests : Renewed(r)
      /\ \A t \in Tokens : cache'[t] # NoUser => cache'[t] = cache[t]
  BY AroundBase, CalmKeeps DEF BaseRight, CacheRight
<1>1. ASSUME NEW t \in Tokens, cache'[t] # NoUser, Live(t) PROVE Excused(t)
  <2>1. CASE UNCHANGED tokens
    BY <1>1, <2>1 DEF Excused, Live
  <2>2. CASE \E o \in Tokens : Expire(o)
    BY <1>1, <2>2 DEF Expire, ExpireToken, Settle, Excused, Live
  <2>3. CASE Cleanup
    BY <1>1, <2>3 DEF Cleanup, CleanupExpiredTokens, Settle, Excused, Live
  <2>4. ASSUME NEW r \in Requests, Arrive(r) \/ \E f \in pending : Callback(r, f)
        PROVE  UNCHANGED tokens
    BY <2>4, ArriveStarts, CallbackStarts DEF BaseRight, Starts, store
  <2>5. ASSUME ~UNCHANGED tokens, Environment PROVE (\E o \in Tokens : Expire(o)) \/ Cleanup
    BY <2>5 DEF Environment, UncacheAfterTTL, MediaAfterTTL, Drop, store
  <2>6. ASSUME Start \/ (\E f \in pending : PendingAfterTTL(f)) \/ (\E c \in codes : Exchange(c)) \/ Restart
        PROVE  UNCHANGED tokens
    BY <2>6 DEF Start, PendingAfterTTL, Exchange, Restart, Crash, store
  <2> QED
    BY <2>1, <2>2, <2>3, <2>4, <2>5, <2>6 DEF Around
<1>2. ASSUME NEW t \in Tokens, cache'[t] # NoUser, NEW o \in Requests, t \in LeftBehind(o) PROVE Excused(t)
  <2>0. t < seq.token /\ req[o].at \in {"uncache", "dropuser"} /\ tokens[t].user = req[o].victim
    BY <1>0, <1>2 DEF RowsRight, LeftBehind, At
  <2>1. CASE Same(o)
    <3>1. req'[o].at = req[o].at /\ req'[o].victim = req[o].victim /\ tokens'[t].user = tokens[t].user
      BY <1>0, <2>0, <2>1 DEF Same, Alters, Fields, TokensKeep
    <3> QED
      BY <2>0, <3>1 DEF Excused, LeftBehind, At
  <2>2. CASE ~Same(o)
    <3>1. CASE Drop(o)
      BY <1>2, <3>1 DEF Drop, Excused
    <3>2. CASE Restart
      BY <1>2, <3>2 DEF Restart, Crash, Forgotten
    <3> QED
      BY <2>0, <2>2, <3>1, <3>2, AroundLost
  <2> QED
    BY <2>1, <2>2
<1>3. ASSUME NEW t \in Tokens, cache'[t] # NoUser PROVE Excused(t)
  <2>1. cache[t] # NoUser
    BY <1>0, <1>3
  <2>2. Live(t) \/ t \in late \/ \E o \in Requests : t \in LeftBehind(o)
    BY <1>0, <2>1, LiveFound DEF CacheRight, CachedUnlessLate
  <2>3. t \in late => Excused(t)
    BY <1>0 DEF Excused
  <2> QED
    BY <1>1, <1>2, <1>3, <2>2, <2>3
<1> QED
  BY <1>3, CachedKept

LEMMA AroundRequests ==
  ASSUME BaseRight, CacheRight, Around, NEW o \in Requests
  PROVE  LookupKnown(req[o])' /\ LogoutClear(req[o])'
<1>1. /\ late \subseteq late' /\ TokensKeep /\ Renewed(o)
      /\ \A t \in Tokens : cache'[t] # NoUser => cache'[t] = cache[t]
  BY AroundBase, CalmKeeps
<1>2. CASE Same(o)
  BY <1>1, <1>2, LookupKept, LogoutKept DEF CacheRight
<1>3. CASE ~Same(o)
  BY <1>1, <1>3 DEF Renewed, Idle, Entries, LookupKnown, LogoutClear
<1> QED
  BY <1>2, <1>3

\* The cache stays in order, and is so at the start.
LEMMA CacheStep == BaseRight /\ CacheRight /\ [Next]_vars => CacheRight'
<1> SUFFICES ASSUME BaseRight, CacheRight, [Next]_vars PROVE CacheRight'
  OBVIOUS
<1>0. BaseRight'
  BY BaseStep
<1>1. ASSUME NEW r \in Requests, Step(r) PROVE CacheRight'
  BY <1>0, <1>1, StepRows, StepRequests, StepCached DEF CacheRight
<1>2. CASE Around
  <2>1. RowsRight'
    <3>1. TokensKeep /\ \A t \in Tokens : cache'[t] # NoUser => cache'[t] = cache[t]
      BY <1>2, AroundBase, CalmKeeps
    <3> QED
      BY <3>1 DEF CacheRight, RowsRight, TokensKeep
  <2> QED
    BY <1>0, <1>2, <2>1, AroundRequests, AroundCached DEF CacheRight
<1>3. CASE UNCHANGED vars
  BY <1>3 DEF vars, history, store, CacheRight, RowsRight, LookupKnown, LogoutClear, CachedUnlessLate,
     FindUserByToken, Existing, Live, LeftBehind, At
<1> QED
  BY <1>1, <1>2, <1>3, NextSteps

LEMMA InitCache == Init => CacheRight
<1> SUFFICES ASSUME Init PROVE CacheRight
  OBVIOUS
<1>1. cache = [t \in Tokens |-> NoUser] /\ req = [r \in Requests |-> Idle]
  BY DEF Init, InitAccounts
<1> QED
  BY <1>1 DEF CacheRight, RowsRight, LookupKnown, LogoutClear, CachedUnlessLate, Idle

\* A token that is out of use is out of the token cache, unless one put it there after the
\* invalidation, or the request that put it out of use has yet to get there or was dropped.
THEOREM DeadTokensAreUncached == Spec => []CachedUnlessLate
<1>1. Spec => []BaseRight
  BY InitBase, BaseStep, PTL DEF Spec
<1>2. Spec => []CacheRight
  BY <1>1, InitCache, CacheStep, PTL DEF Spec
<1>3. CacheRight => CachedUnlessLate
  BY DEF CacheRight
<1> QED
  BY <1>2, <1>3, PTL

-----------------------------------------------------------------------------
(* Addresses are verified by links that were mailed to them.               *)

\* A link that can still verify was mailed to the address the account has, and so was
\* the one that a request follows or sends, unless the address changed meanwhile.
LinkRight(l) ==
  links[l].kind = "verify" /\ ~links[l].used =>
    /\ links[l].user < seq.account
    /\ links[l].user \in Existing => links[l].mail \in {users[links[l].user].email, None}
\* A request that verifies an address or sends a link to it.
MailRight(q) ==
  q.at \in {"verify", "sendlink"} =>
    /\ q.user < seq.account
    /\ q.user \in Existing /\ "address" \notin q.crossed => q.mail \in {users[q.user].email, None}
MailsRight ==
  /\ proof \in [Accounts -> Emails \cup {None}]
  /\ \A l \in Links : LinkRight(l)
  /\ \A r \in Requests : MailRight(req[r])
  /\ VerifiedWasMailed

\* Accounts and the users of links and requests are numbers.
LEMMA NumbersTyped ==
  ASSUME BaseRight
  PROVE  /\ seq.account \in Nat /\ \A u \in Accounts \cup {0} : u \in Nat
         /\ \A l \in Links : links[l].user \in Nat
         /\ \A r \in Requests : req[r].user \in Nat
<1>1. \A u \in Accounts \cup {0} : u \in Nat
  BY IdsAssumption
<1>2. seq.account \in Nat
  BY DEF BaseRight, StoreTypeOK
<1>3. \A l \in Links : links[l].user \in Accounts \cup {0}
  BY DEF BaseRight, StoreTypeOK, Link
<1>4. \A r \in Requests : req[r].user \in Accounts \cup {0}
  BY RequestFields DEF BaseRight
<1> QED
  BY <1>1, <1>2, <1>3, <1>4

\* What a step that changes no address keeps.
LEMMA LinkKept ==
  ASSUME BaseRight, NEW F, Calm(F), "email" \notin F, NEW l \in Links, LinkRight(l), links'[l] = links[l]
  PROVE  LinkRight(l)'
<1>1. seq.account <= seq'.account /\ links[l].user \in Nat /\ seq.account \in Nat /\ seq'.account \in Nat
  BY NumbersTyped DEF Calm, StoreTypeOK
<1>2. links[l].kind = "verify" /\ ~links[l].used =>
        /\ links[l].user < seq.account
        /\ links[l].user \in Existing => links[l].mail \in {users[links[l].user].email, None}
  BY DEF LinkRight
<1>3. \A u \in Existing' : u < seq.account => u \in Existing /\ users'[u].email = users[u].email
  BY DEF Calm
<1> QED
  BY <1>1, <1>2, <1>3 DEF LinkRight

\* Requests, proofs and links stay in order under steps that change no address.
LEMMA MailKept ==
  ASSUME BaseRight, NEW F, Calm(F), "email" \notin F, NEW r \in Requests, Same(r), MailRight(req[r])
  PROVE  MailRight(req[r])'
<1>1. seq.account <= seq'.account /\ req[r].user \in Nat /\ seq.account \in Nat /\ seq'.account \in Nat
  BY NumbersTyped DEF Calm, StoreTypeOK
<1>2. /\ req'[r].at = req[r].at /\ req'[r].user = req[r].user /\ req'[r].mail = req[r].mail
      /\ req[r].crossed \subseteq req'[r].crossed
  BY DEF Same, Alters, Fields
<1>3. \A u \in Existing' : u < seq.account => u \in Existing /\ users'[u].email = users[u].email
  BY DEF Calm
<1> QED
  BY <1>1, <1>2, <1>3 DEF MailRight

LEMMA ProofKept ==
  ASSUME BaseRight, NEW F, Calm(F), F \cap {"email", "verified"} = {}, UNCHANGED proof, VerifiedWasMailed
  PROVE  VerifiedWasMailed'
<1>1. \A u \in Existing' : users'[u].verified =>
        u \in Existing /\ users'[u].email = users[u].email /\ users[u].verified
  BY DEF Calm
<1> QED
  BY <1>1 DEF VerifiedWasMailed

\* The links that may verify are the ones there were, but for one that is sent.
LEMMA StepLinks ==
  ASSUME BaseRight, NEW r \in Requests, Step(r), ~SendLink(r)
  PROVE  LinksCalm
<1> USE DEF BaseRight
<1>0. UNCHANGED links => LinksCalm
  BY DEF LinksCalm
<1>1. CASE ChangeEmailStep(r) \/ OpenAddress(r)
  <2>1. CASE ~UNCHANGED links
    <3>1. UpdateEmail(req[r].user, req[r].mail) /\ UNCHANGED <<tokens, seq, cache>>
      BY <1>1, <2>1 DEF ChangeEmailStep, OpenAddress
    <3> QED
      BY <3>1, RequestFields, EmailCalm
  <2> QED
    BY <1>0, <2>1
<1>2. CASE ResetLink(r)
  <2>1. CASE ~UNCHANGED links
    <3>1. /\ req[r].user \in Existing /\ CreateLink("reset", req[r].user, req[r].mail)
          /\ UNCHANGED <<users, tokens, cache>> /\ req[r].mail \in Emails \cup {None}
      BY <1>2, <2>1, RequestFields DEF ResetLink, CreatePasswordResetToken
    <3> QED
      BY <3>1, LinkCalm DEF LinksCalm
  <2> QED
    BY <1>0, <2>1
<1>3. CASE Consume(r)
  <2>1. CASE ~UNCHANGED links
    <3>1. req[r].link \in Links /\ ConsumeLink(req[r].link) /\ UNCHANGED <<users, tokens, seq, cache>>
      BY <1>3, <2>1, ConsumeEffect DEF Consume
    <3> QED
      BY <3>1, ConsumeCalm
  <2> QED
    BY <1>0, <2>1
<1>4. CASE QuietSteps(r)
  BY <1>0, <1>4, QuietStepsKeep DEF store
<1>5. CASE \/ CreateStep(r) \/ NewGuest(r) \/ MergeGuest(r) \/ DropUser(r) \/ Verify(r) \/ SetPassword(r)
           \/ OpenAccount(r) \/ LinkNew(r) \/ LinkOwner(r) \/ Issue(r) \/ SettleSteps(r)
           \/ Approve(r) \/ OpenApprove(r) \/ Toggle(r)
  BY <1>0, <1>5 DEF CreateStep, NewGuest, MergeGuest, DropUser, Verify, SetPassword, OpenAccount, LinkNew,
     LinkOwner, Issue, SettleSteps, Revoke, DeleteTokenStep, DropTokens, Kick, Approve, OpenApprove,
        Toggle, store
<1> QED
  BY <1>1, <1>2, <1>3, <1>4, <1>5 DEF Step, Proceed, SignIn, QuietSteps, SettleSteps

\* Only the step that verifies writes the history of proofs.
LEMMA StepProof ==
  ASSUME BaseRight, NEW r \in Requests, Step(r), ~Verify(r)
  PROVE  UNCHANGED proof
<1> USE DEF history, BaseRight
<1>1. CASE QuietSteps(r)
  BY <1>1, QuietStepsKeep
<1>2. CASE \/ CreateStep(r) \/ NewGuest(r) \/ MergeGuest(r) \/ DropUser(r) \/ SetPassword(r)
           \/ OpenAccount(r) \/ LinkNew(r) \/ LinkOwner(r) \/ Issue(r) \/ SettleSteps(r)
           \/ Approve(r) \/ OpenApprove(r) \/ Toggle(r)
  BY <1>2 DEF CreateStep, NewGuest, MergeGuest, DropUser, SetPassword, OpenAccount, LinkNew,
     LinkOwner, Issue, SettleSteps, Revoke, DeleteTokenStep, DropTokens, Kick, Approve, OpenApprove, Toggle
<1>3. CASE ChangeEmailStep(r) \/ OpenAddress(r) \/ SendLink(r) \/ ResetLink(r) \/ Consume(r)
  BY <1>3 DEF ChangeEmailStep, OpenAddress, SendLink, ResetLink, Consume
<1> QED
  BY <1>1, <1>2, <1>3 DEF Step, Proceed, SignIn, QuietSteps, SettleSteps

LEMMA LinksKept ==
  ASSUME BaseRight, NEW F, Calm(F), "email" \notin F, LinksCalm, \A l \in Links : LinkRight(l)
  PROVE  \A l \in Links : LinkRight(l)'
<1>1. ASSUME NEW l \in Links PROVE LinkRight(l)'
  <2>1. CASE links'[l] = links[l]
    BY <2>1, LinkKept
  <2> QED
    BY <2>1 DEF LinksCalm, LinkRight
<1> QED
  BY <1>1

\* A request comes to follow a link or to send one.
LEMMA StepMail ==
  ASSUME BaseRight, MailsRight, NEW r \in Requests, Step(r), NEW F, Calm(F), "email" \notin F
  PROVE  MailRight(req[r])'
<1> DEFINE n == req'[r]
<1> USE DEF BaseRight
<1>1. CASE n.at = "verify"
  <2>1. Consume(r)
    BY <1>1, StepLeads
  <2>2. /\ req[r].link \in Links /\ Usable(req[r].link, "verify")
        /\ n.user = links[req[r].link].user /\ n.mail = links[req[r].link].mail
    BY <1>1, <2>1, ConsumeEffect DEF Ends, Idle
  <2>3. UNCHANGED <<users, seq>>
    BY <2>1 DEF Consume
  <2>4. LinkRight(req[r].link)
    BY <2>2 DEF MailsRight
  <2> QED
    BY <2>2, <2>3, <2>4 DEF MailRight, LinkRight, Usable, Existing
<1>2. CASE n.at = "sendlink"
  <2>1. ReadAddress(r)
    BY <1>2, StepLeads
  <2>2. /\ Becomes(r, {"at", "mail"}) /\ req[r].user \in Existing /\ n.mail = users[req[r].user].email
    BY <1>2, <2>1, ReadAddressEffect DEF Ends, Idle
  <2>3. n.user = req[r].user
    BY <2>2 DEF Becomes, Alters, Fields
  <2>4. UNCHANGED <<users, seq>>
    BY <2>1 DEF ReadAddress, store
  <2>5. req[r].user < seq.account
    BY <2>2 DEF StoreRight
  <2> QED
    BY <2>2, <2>3, <2>4, <2>5 DEF MailRight
<1> QED
  BY <1>1, <1>2 DEF MailRight

\* The steps that change no address and send no link.
LEMMA CalmMails ==
  ASSUME BaseRight, MailsRight, NEW r \in Requests, Step(r), NEW F, Calm(F),
         F \cap {"email", "verified"} = {}, ~SendLink(r), ~Verify(r)
  PROVE  MailsRight'
<1>1. \A l \in Links : LinkRight(l)'
  BY StepLinks, LinksKept DEF MailsRight
<1>2. \A o \in Requests : MailRight(req[o])'
  <2>1. ASSUME NEW o \in Requests \ {r} PROVE MailRight(req[o])'
    BY OthersSame, MailKept DEF MailsRight
  <2> QED
    BY <2>1, StepMail
<1>3. UNCHANGED proof
  BY StepProof
<1>4. VerifiedWasMailed'
  BY <1>3, ProofKept DEF MailsRight
<1> QED
  BY <1>1, <1>2, <1>3, <1>4 DEF MailsRight

\* A link is sent to the address that was read, or the address has changed.
LEMMA SendMails ==
  ASSUME BaseRight, MailsRight, NEW r \in Requests, SendLink(r)
  PROVE  MailsRight'
<1> DEFINE q == req[r]
           m == IF "address" \in q.crossed THEN None ELSE q.mail
<1> USE DEF BaseRight
<1>0. Step(r) /\ MailRight(q) /\ q.at = "sendlink" /\ req'[r] = Idle
  BY EndEffects DEF Step, Proceed, MailsRight, SendLink, At, Ends
<1>1. Calm({})
  BY <1>0, StepCalm DEF Special, SendLink, Verify, ChangeEmailStep, OpenAddress, SetPassword, Issue, At
<1>2. UNCHANGED <<users, proof>>
  BY DEF SendLink, history
<1>3. \A o \in Requests : MailRight(req[o])'
  <2>1. ASSUME NEW o \in Requests \ {r} PROVE MailRight(req[o])'
    BY <1>0, <1>1, OthersSame, MailKept DEF MailsRight
  <2>2. MailRight(req[r])'
    BY <1>0 DEF MailRight, Idle
  <2> QED
    BY <2>1, <2>2
<1>4. VerifiedWasMailed'
  BY <1>1, <1>2, ProofKept DEF MailsRight
<1>5. CASE UNCHANGED links
  <2>1. \A l \in Links : LinkRight(l)'
    BY <1>1, <1>5, LinksKept DEF MailsRight, LinksCalm
  <2> QED
    BY <1>2, <1>3, <1>4, <2>1 DEF MailsRight
<1>6. CASE ~UNCHANGED links
  <2>1. q.user \in Existing /\ CreateLink("verify", q.user, m) /\ UNCHANGED <<users, tokens, cache>>
    BY <1>6 DEF SendLink, CreateEmailVerificationToken
  <2>2. m \in Emails \cup {None}
    BY RequestFields
  <2>3. m \in {users[q.user].email, None} /\ q.user < seq.account
    BY <1>0, <2>1 DEF MailRight
  <2> HIDE DEF m
  <2>4. PICK k \in Links :
          /\ Existing' = Existing /\ seq'.account = seq.account
          /\ links'[k].user = q.user /\ links'[k].mail = m
          /\ \A l \in Links \ {k} : ~links'[l].used => links'[l] = links[l]
    BY <2>1, <2>2, LinkCalm
  <2>5. LinkRight(k)'
    BY <1>2, <2>3, <2>4 DEF LinkRight
  <2>6. ASSUME NEW l \in Links \ {k} PROVE LinkRight(l)'
    <3>1. CASE links'[l] = links[l]
      BY <1>1, <3>1, LinkKept DEF MailsRight
    <3> QED
      BY <2>4, <3>1 DEF LinkRight
  <2>7. \A l \in Links : LinkRight(l)'
    BY <2>5, <2>6
  <2> QED
    BY <1>2, <1>3, <1>4, <2>7 DEF MailsRight
<1> QED
  BY <1>5, <1>6

\* A link that is followed proves the address it was mailed to, or the address has changed.
LEMMA VerifyMails ==
  ASSUME BaseRight, MailsRight, NEW r \in Requests, Verify(r)
  PROVE  MailsRight'
<1> DEFINE q == req[r]
           u == q.user
           m == IF "address" \in q.crossed THEN None ELSE q.mail
<1> USE DEF BaseRight
<1>0. Step(r) /\ MailRight(q) /\ q.at = "verify" /\ req'[r] = Idle
  BY EndEffects DEF Step, Proceed, MailsRight, Verify, At, Ends
<1>1. Calm({"verified"}) /\ UNCHANGED <<seq, links>>
  BY SpecialCalm DEF Verify
<1>2. \A o \in Requests : MailRight(req[o])'
  <2>1. ASSUME NEW o \in Requests \ {r} PROVE MailRight(req[o])'
    BY <1>0, <1>1, OthersSame, MailKept DEF MailsRight
  <2>2. MailRight(req[r])'
    BY <1>0 DEF MailRight, Idle
  <2> QED
    BY <2>1, <2>2
<1>3. \A l \in Links : LinkRight(l)'
  BY <1>1, LinksKept DEF MailsRight, LinksCalm
<1>4. m \in Emails \cup {None}
  BY RequestFields
<1>5. proof' = [proof EXCEPT ![u] = m]
  BY DEF Verify
<1>6. u \in Existing => m \in {users[u].email, None}
  BY <1>0 DEF MailRight
<1> HIDE DEF m
<1>7. proof' \in [Accounts -> Emails \cup {None}]
      /\ \A v \in Accounts : proof'[v] = IF v = u THEN m ELSE proof[v]
  BY <1>4, <1>5 DEF MailsRight
<1>8. VerifiedWasMailed'
  <2>1. ASSUME NEW v \in Existing', users'[v].verified PROVE proof'[v] \in {users'[v].email, None}
    <3>1. v \in Existing /\ users'[v].email = users[v].email /\ v \in Accounts
      BY <1>1, <2>1 DEF Calm, Existing
    <3>2. CASE v = u
      BY <1>6, <1>7, <3>1, <3>2
    <3>3. CASE v # u
      <4>1. users'[v] = users[v]
        BY <3>1, <3>3 DEF Verify, VerifyEmail, Update, StoreTypeOK, Existing
      <4> QED
        BY <1>7, <2>1, <3>1, <3>3, <4>1 DEF MailsRight, VerifiedWasMailed
    <3> QED
      BY <3>2, <3>3
  <2> QED
    BY <2>1 DEF VerifiedWasMailed
<1> QED
  BY <1>2, <1>3, <1>7, <1>8 DEF MailsRight

\* A changed address is unverified, its links are used up, and whoever is at work on the
\* account is told.
LEMMA AddressMails ==
  ASSUME BaseRight, MailsRight, NEW r \in Requests, ChangeEmailStep(r) \/ OpenAddress(r)
  PROVE  MailsRight'
<1> DEFINE q == req[r]
           u == q.user
<1> USE DEF BaseRight
<1>0. Step(r) /\ UNCHANGED <<seq, tokens, cache>>
  BY DEF Step, Proceed, SignIn, ChangeEmailStep, OpenAddress
<1>1. UNCHANGED proof
  BY DEF ChangeEmailStep, OpenAddress, history
<1>2. CASE UNCHANGED <<users, links>>
  <2>1. Calm({})
    BY <1>0, <1>2, QuietKept, CacheTyped DEF store
  <2>2. ~SendLink(r) /\ ~Verify(r)
    BY DEF SendLink, Verify, ChangeEmailStep, OpenAddress, At
  <2> QED
    BY <1>0, <2>1, <2>2, CalmMails
<1>3. CASE ~UNCHANGED <<users, links>>
  <2>1. /\ UpdateEmail(u, q.mail) /\ req'[r].at \in {"revoke", "issue"}
        /\ \A o \in Requests \ {r} :
             req[o].at # "idle" /\ req[o].user = u => "address" \in req'[o].crossed
    BY <1>3, ChangeEmailStepEffect, OpenAddressEffect DEF Moves
  <2>2. u \in Accounts \cup {0} /\ q.mail \in Emails \cup {None}
    BY RequestFields
  <2>3. /\ LinksCalm /\ Existing' = Existing
        /\ \A v \in Existing : IF v = u THEN ~users'[v].verified ELSE users'[v] = users[v]
        /\ \A l \in Links : links'[l].kind = "verify" /\ ~links'[l].used => links'[l].user # u
    BY <1>0, <2>1, <2>2, EmailCalm
  <2>4. ASSUME NEW l \in Links PROVE LinkRight(l)'
    <3>1. LinkRight(l)
      BY DEF MailsRight
    <3> QED
      BY <1>0, <2>3, <3>1 DEF LinkRight, LinksCalm
  <2>5. ASSUME NEW o \in Requests \ {r} PROVE MailRight(req[o])'
    <3>1. MailRight(req[o])
      BY DEF MailsRight
    <3>2. /\ req'[o].at = req[o].at /\ req'[o].user = req[o].user /\ req'[o].mail = req[o].mail
          /\ req[o].crossed \subseteq req'[o].crossed
      BY <1>0, OthersSame DEF Same, Alters, Fields
    <3>3. req[o].at # "idle" /\ req[o].user = u => "address" \in req'[o].crossed
      BY <2>1
    <3> QED
      BY <1>0, <2>3, <3>1, <3>2, <3>3 DEF MailRight
  <2>6. MailRight(req[r])'
    BY <2>1 DEF MailRight
  <2>7. VerifiedWasMailed'
    BY <1>1, <2>3 DEF VerifiedWasMailed, MailsRight
  <2> QED
    BY <1>1, <2>4, <2>5, <2>6, <2>7 DEF MailsRight
<1> QED
  BY <1>2, <1>3

\* The step of a request keeps the mails in order.
LEMMA StepMails ==
  ASSUME BaseRight, MailsRight, NEW r \in Requests, Step(r)
  PROVE  MailsRight'
<1>1. CASE ChangeEmailStep(r) \/ OpenAddress(r)
  BY <1>1, AddressMails
<1>2. CASE SendLink(r)
  BY <1>2, SendMails
<1>3. CASE Verify(r)
  BY <1>3, VerifyMails
<1>4. CASE SetPassword(r)
  <2>1. ~SendLink(r) /\ ~Verify(r)
    BY <1>4 DEF SetPassword, SendLink, Verify, At
  <2> QED
    BY <1>4, <2>1, SpecialCalm, CalmMails
<1>5. CASE Issue(r)
  <2>1. UNCHANGED <<users, links, proof>> /\ ~SendLink(r) /\ ~Verify(r)
    BY <1>5 DEF Issue, SendLink, Verify, At, history
  <2>2. seq'.account = seq.account
    BY <1>5 DEF Issue, CreateToken, BaseRight, StoreTypeOK
  <2>3. ASSUME NEW o \in Requests PROVE MailRight(req[o])'
    <3>1. CASE o # r
      <4>1. /\ req'[o].at = req[o].at /\ req'[o].user = req[o].user /\ req'[o].mail = req[o].mail
            /\ req[o].crossed \subseteq req'[o].crossed /\ MailRight(req[o])
        BY <3>1, OthersSame DEF Same, Alters, Fields, MailsRight
      <4> QED
        BY <2>1, <2>2, <4>1 DEF MailRight, Existing
    <3>2. CASE o = r
      <4>1. req'[r].at \notin {"verify", "sendlink"}
        BY <1>5, IssueEffect DEF BaseRight, Ends, Idle, Moves
      <4> QED
        BY <3>2, <4>1 DEF MailRight
    <3> QED
      BY <3>1, <3>2
  <2> QED
    BY <2>1, <2>2, <2>3 DEF MailsRight, LinkRight, VerifiedWasMailed, Existing
<1>6. CASE ~Special(r) /\ ~SendLink(r)
  <2>1. Calm({})
    BY <1>6, StepCalm
  <2> QED
    BY <1>6, <2>1, CalmMails DEF Special
<1> QED
  BY <1>1, <1>2, <1>3, <1>4, <1>5, <1>6 DEF Special

\* So does every step; at the start the mails are in order.
LEMMA MailsStep == BaseRight /\ MailsRight /\ [Next]_vars => MailsRight'
<1> SUFFICES ASSUME BaseRight, MailsRight, Around \/ UNCHANGED vars PROVE MailsRight'
  BY StepMails, NextSteps
<1>1. /\ Calm({}) /\ UNCHANGED <<users, links, seq, proof>>
      /\ \A r \in Requests : Renewed(r)
  BY AroundBase, StutterBase DEF vars, store, history
<1>2. ASSUME NEW r \in Requests PROVE MailRight(req[r])'
  <2>1. CASE Same(r)
    BY <1>1, <2>1, MailKept DEF MailsRight
  <2>2. CASE ~Same(r)
    BY <1>1, <2>2 DEF Renewed, Idle, Entries, MailRight
  <2> QED
    BY <2>1, <2>2
<1>3. \A l \in Links : LinkRight(l)'
  BY <1>1, LinksKept DEF MailsRight, LinksCalm
<1>4. VerifiedWasMailed'
  BY <1>1, ProofKept DEF MailsRight
<1> QED
  BY <1>1, <1>2, <1>3, <1>4 DEF MailsRight

LEMMA InitMails == Init => MailsRight
<1> SUFFICES ASSUME Init PROVE MailsRight
  OBVIOUS
<1>1. PICK s \in Scenarios :
        users = s.users /\ tokens = s.tokens /\ links = s.links /\ seq = s.seq
  BY DEF Init, InitAccounts
<1>2. Sound(s)
  BY ScenarioAssumption
<1>3. req = [r \in Requests |-> Idle] /\ proof = [u \in Accounts |-> None]
  BY DEF Init, InitAccounts
<1>4. \A l \in Links : LinkRight(l)
  BY <1>1, <1>2 DEF Sound, LinkRight, Existing
<1>5. \A r \in Requests : MailRight(req[r])
  BY <1>3 DEF MailRight, Idle
<1>6. VerifiedWasMailed
  BY <1>3 DEF VerifiedWasMailed, Existing
<1> QED
  BY <1>3, <1>4, <1>5, <1>6 DEF MailsRight

\* Whatever is asked at the same time, an address is verified by a link that was mailed to
\* it, unless it changed while the mail was being sent or the link was being followed.
THEOREM VerifiedAddressesWereMailed == Spec => []VerifiedWasMailed
<1>1. Spec => []BaseRight
  BY InitBase, BaseStep, PTL DEF Spec
<1>2. Spec => []MailsRight
  BY <1>1, InitMails, MailsStep, PTL DEF Spec
<1>3. MailsRight => VerifiedWasMailed
  BY DEF MailsRight
<1> QED
  BY <1>2, <1>3, PTL

-----------------------------------------------------------------------------
(* Accounts that a gateway login opens.                                    *)

\* The steps with what they leave of the gateway's own state.
Own(r) == Step(r) /\ (UNCHANGED gatewayVars \/ SignIn(r))
Other ==
  /\ Around
  /\ \/ UNCHANGED gatewayVars
     \/ \E r \in Requests, f \in pending : Callback(r, f)
     \/ Start
     \/ \E f \in pending : PendingAfterTTL(f)
     \/ \E c \in codes : Exchange(c)
     \/ Restart

\* Every step, once more, with what it leaves of the gateway login.
LEMMA NextOwn == Next => (\E r \in Requests : Own(r)) \/ Other
BY DEF Next, Step, Around, Own, Other

\* The range of the scene.
SceneTyped ==
  scene \in [menu : SUBSET Ops, words : SUBSET (Names \cup Passwords \cup Emails),
             calls : Nat, upsets : Nat, left : SUBSET (Accounts \cup {0})]

\* An upset keeps the scene in its range, and marks the accounts it leaves half-made.
LEMMA UpsetScene ==
  ASSUME SceneTyped, NEW A \in SUBSET (Accounts \cup {0}), Upset(A)
  PROVE  SceneTyped' /\ scene'.left = scene.left \cup A
<1>1. scene.upsets - 1 \in Nat
      /\ scene' = [scene EXCEPT !.upsets = scene.upsets - 1, !.left = scene.left \cup A]
  BY DEF SceneTyped, Upset
<1> QED
  BY <1>1 DEF SceneTyped

LEMMA HalfMadeTyped ==
  ASSUME ReqRight, NEW r \in Requests
  PROVE  HalfMade(r) \subseteq Accounts \cup {0}
BY RequestFields DEF HalfMade

\* A request changes nothing of the scene, unless it goes on after a failure.
LEMMA StepScene ==
  ASSUME NEW r \in Requests, Step(r)
  PROVE  UNCHANGED scene \/ Upset({}) \/ GoOn(r)
<1> USE DEF history
<1>0. CASE MediaMembers(r)
  BY <1>0 DEF MediaMembers
<1>5. CASE Ignore(r)
  BY <1>5 DEF Ignore
<1>1. CASE \/ FindByToken(r) \/ Fill(r) \/ Admit(r) \/ Uncache(r)
      \/ InvalidateMediaAuthUser(r)
           \/ CountStep(r) \/ NameStep(r) \/ CreateStep(r) \/ LoginStep(r) \/ Revoke(r) \/ Issue(r)
  BY <1>1 DEF FindByToken, Fill, Admit, Uncache, InvalidateMediaAuthUser, CountStep, NameStep,
     CreateStep, LoginStep, Revoke, Issue
<1>2. CASE \/ NewGuest(r) \/ MergeOwner(r) \/ MergeGuest(r) \/ MediaOwner(r) \/ Forget(r) \/ DeleteTokenStep(r)
           \/ InvalidateMediaAuthToken(r) \/ Reauthenticate(r) \/ ChangeEmailStep(r) \/ ReadAddress(r)
                 \/ SendLink(r)
  BY <1>2 DEF NewGuest, MergeOwner, MergeGuest, MediaOwner, Forget, DeleteTokenStep, InvalidateMediaAuthToken,
     Reauthenticate, ChangeEmailStep, ReadAddress, SendLink
<1>3. CASE \/ ForgetfulUser(r) \/ ResetLink(r) \/ Consume(r) \/ Verify(r) \/ SetPassword(r)
           \/ DropTokens(r) \/ DropUser(r) \/ Kick(r) \/ Approve(r) \/ Toggle(r)
           \/ MediaLocal(r) \/ MediaRedis(r) \/ MediaFill(r) \/ MediaPut(r)
  BY <1>3 DEF ForgetfulUser, ResetLink, Consume, Verify, SetPassword, DropTokens, DropUser, Kick,
     Approve, Toggle,
     MediaLocal, MediaRedis, MediaFill, MediaPut
<1>4. CASE SignIn(r)
  BY <1>4 DEF SignIn, BySub, ByMail, Candidate, OpenAccount, LinkNew, LinkOwner, SignInOwner,
     OpenApprove, OpenMail,
     OpenAddress, HandOver, unchangedHere
<1> QED
  BY <1>0, <1>1, <1>2, <1>3, <1>4, <1>5 DEF Step, Proceed

\* What is left half-made stays marked, and so is what a failure leaves.
LEMMA StepLeft ==
  ASSUME ReqRight, SceneTyped, NEW r \in Requests, Step(r)
  PROVE  /\ SceneTyped' /\ scene.left \subseteq scene'.left
         /\ GoOn(r) /\ req[r].at # "linknew" => HalfMade(r) \subseteq scene'.left
<1>1. CASE UNCHANGED scene /\ ~GoOn(r)
  BY <1>1 DEF SceneTyped
<1>2. CASE Upset({}) /\ ~GoOn(r)
  BY <1>2, UpsetScene
<1>3. CASE GoOn(r)
  <2>1. PICK A \in SUBSET (Accounts \cup {0}) :
          Upset(A) /\ (req[r].at # "linknew" => A = HalfMade(r))
    BY <1>3, HalfMadeTyped DEF GoOn, At
  <2> QED
    BY <2>1, UpsetScene
<1> QED
  BY <1>1, <1>2, <1>3, StepScene

LEMMA AroundScene ==
  ASSUME ReqRight, SceneTyped, Around
  PROVE  /\ SceneTyped' /\ scene.left \subseteq scene'.left
         /\ \A r \in Requests : Restart \/ Drop(r) => HalfMade(r) \subseteq scene'.left
<1>1. ASSUME scene.calls > 0, scene' = [scene EXCEPT !.calls = @ - 1]
      PROVE  SceneTyped' /\ scene.left \subseteq scene'.left
  <2>1. scene.calls - 1 \in Nat
    BY <1>1 DEF SceneTyped
  <2> QED
    BY <1>1, <2>1 DEF SceneTyped
<1>2. ASSUME NEW A \in SUBSET (Accounts \cup {0}), Upset(A)
      PROVE  SceneTyped' /\ scene.left \subseteq scene'.left /\ A \subseteq scene'.left
  BY <1>2, UpsetScene
<1>3. ASSUME UNCHANGED scene PROVE SceneTyped' /\ scene.left \subseteq scene'.left
  BY <1>3 DEF SceneTyped
<1>4. ASSUME NEW r \in Requests, Arrive(r) \/ \E f \in pending : Callback(r, f)
      PROVE  scene.calls > 0 /\ scene' = [scene EXCEPT !.calls = @ - 1]
  <2>1. Starts(r)
    BY <1>4, ArriveStarts, CallbackStarts
  <2>2. scene.calls > 0
    BY <1>4 DEF Arrive, Callback, Free
  <2> QED
    BY <2>1, <2>2 DEF Starts
<1>5. ASSUME NEW r \in Requests, Drop(r)
      PROVE  SceneTyped' /\ scene.left \subseteq scene'.left /\ HalfMade(r) \subseteq scene'.left
  BY <1>2, <1>5, HalfMadeTyped DEF Drop
<1>6. ASSUME Restart
      PROVE  /\ SceneTyped' /\ scene.left \subseteq scene'.left
             /\ \A r \in Requests : HalfMade(r) \subseteq scene'.left
  <2>1. (UNION {HalfMade(r) : r \in Requests}) \in SUBSET (Accounts \cup {0})
    BY HalfMadeTyped
  <2>2. Upset(UNION {HalfMade(r) : r \in Requests})
    BY <1>6 DEF Restart, Crash
  <2> QED
    BY <1>2, <2>1, <2>2
<1>7. ASSUME NEW t \in Tokens, Expire(t)
      PROVE  SceneTyped' /\ scene.left \subseteq scene'.left
  BY <1>2, <1>7 DEF Expire
<1>8. ASSUME Start \/ (\E f \in pending : PendingAfterTTL(f)) \/ (\E c \in codes : Exchange(c))
             \/ (\E t \in Tokens : UncacheAfterTTL(t) \/ MediaAfterTTL(t)) \/ Cleanup
      PROVE  UNCHANGED scene
  BY <1>8 DEF Start, PendingAfterTTL, Exchange, UncacheAfterTTL, MediaAfterTTL, Cleanup
<1>9. SceneTyped' /\ scene.left \subseteq scene'.left
  BY <1>1, <1>3, <1>4, <1>5, <1>6, <1>7, <1>8 DEF Around, Environment
<1> QED
  BY <1>5, <1>6, <1>9

\* The scene stays in its range.
LEMMA SceneStep == BaseRight /\ SceneTyped /\ [Next]_vars => SceneTyped'
<1> SUFFICES ASSUME BaseRight, SceneTyped, [Next]_vars PROVE SceneTyped'
  OBVIOUS
<1>1. CASE UNCHANGED scene
  BY <1>1 DEF SceneTyped
<1>2. UNCHANGED vars => UNCHANGED scene
  BY DEF vars
<1> QED
  BY <1>1, <1>2, StepLeft, AroundScene, NextSteps DEF BaseRight

LEMMA InitScene == Init => SceneTyped
<1> SUFFICES ASSUME Init PROVE SceneTyped
  OBVIOUS
<1>1. PICK s \in Scenarios :
        scene = [menu |-> s.menu, words |-> s.words, calls |-> s.calls, upsets |-> s.upsets, left |-> {}]
  BY DEF Init, InitAccounts
<1> QED
  BY <1>1, ScenarioAssumption DEF Sound, SceneTyped

-----------------------------------------------------------------------------
\* The request that opened an account, until it is linked and approved, or deleted again.
Opening(q, u) ==
  /\ q.op = "gateway" /\ q.user = u
  /\ \/ q.at = "linknew" /\ q.victim = u
     \/ q.at = "openapprove" /\ users[u].sub # None
     \/ q.at \in {"drop", "dropuser"} /\ q.victim = u
\* An opened account is linked and approved in the end.
Finished(u) == users[u].sub # None /\ users[u].approved
OpenedRight ==
  /\ \A u \in opened : u \in Accounts /\ u < seq.account
  /\ \A u \in opened \cap Existing :
       Finished(u) \/ (\E r \in Requests : Opening(req[r], u)) \/ u \in scene.left

\* The accounts there are stay linked and approved.
UsersKeep ==
  /\ seq.account <= seq'.account
  /\ \A u \in Existing' : u < seq.account =>
       /\ u \in Existing
       /\ users[u].sub # None => users'[u].sub # None
       /\ users[u].approved => users'[u].approved

\* Accounts stay linked and approved, and are not created again, in every step of a request.
LEMMA CalmUsers == ASSUME NEW F, Calm(F) PROVE UsersKeep
BY DEF Calm, UsersKeep

LEMMA StepUsers ==
  ASSUME BaseRight, NEW r \in Requests, Step(r)
  PROVE  UsersKeep
<1>1. CASE Issue(r)
  <2>1. UNCHANGED users
    BY <1>1 DEF Issue
  <2>2. seq.account <= seq'.account
    BY <1>1 DEF Issue, CreateToken, BaseRight, StoreTypeOK
  <2> QED
    BY <2>1, <2>2 DEF UsersKeep, Existing
<1>2. CASE ~Special(r)
  BY <1>2, StepCalm, CalmUsers
<1>3. CASE Special(r) /\ ~Issue(r)
  BY <1>3, SpecialCalm, CalmUsers DEF Special
<1> QED
  BY <1>1, <1>2, <1>3

\* An account on its way stays so, and is linked and approved or deleted in the end.
LEMMA OpeningGoes ==
  ASSUME BaseRight, SceneTyped, NEW r \in Requests, Step(r),
         NEW u \in Existing', u < seq.account, Opening(req[r], u)
  PROVE  Finished(u)' \/ Opening(req[r], u)' \/ u \in scene'.left
<1> DEFINE q == req[r]
<1> USE DEF BaseRight
<1>0. u \in Existing /\ (users[u].sub # None => users'[u].sub # None) /\ u \in Accounts
  BY StepUsers DEF UsersKeep, Existing
<1>00. ASSUME GoOn(r), q.at # "linknew" PROVE u \in scene'.left
  <2>1. u \in HalfMade(r)
    BY DEF HalfMade, Opening
  <2> QED
    BY <1>00, <2>1, StepLeft
<1>1. CASE q.at = "linknew"
  <2>1. LinkNew(r) \/ GoOn(r)
    BY <1>1, StepFrom
  <2>0. CASE GoOn(r)
    <3>1. Becomes(r, {"at", "then"}) /\ req'[r].at = "drop"
      BY <1>1, <2>0, GoOnEffect
    <3> QED
      BY <1>1, <3>1 DEF Becomes, Alters, Fields, Opening
  <2>2. CASE CanLink(r) /\ LinkGatewaySub(q.user, q.sub) /\ Moves(r, {"openapprove"})
    <3>1. req'[r].at = "openapprove" /\ req'[r].op = "gateway" /\ req'[r].user = u
      BY <2>2 DEF Moves, Becomes, Alters, Fields, Opening
    <3>2. q.sub # None
      BY NoneAssumption DEF ReqRight, Control, Opening
    <3>3. users'[u].sub = q.sub
      <4>1. users[u] \in User /\ q.user = u
        BY <1>0 DEF Opening, StoreTypeOK, Existing
      <4>2. users' = [users EXCEPT ![u] = [users[u] EXCEPT !.sub = q.sub]]
        BY <1>0, <2>2, <4>1 DEF LinkGatewaySub, Update
      <4>3. users'[u] = [users[u] EXCEPT !.sub = q.sub]
        BY <1>0, <4>2 DEF StoreTypeOK
      <4> QED
        BY <4>1, <4>3 DEF User
    <3> QED
      BY <3>1, <3>2, <3>3 DEF Opening
  <2>3. CASE Becomes(r, {"at", "then"}) /\ req'[r].at = "drop"
    BY <1>1, <2>3 DEF Becomes, Alters, Fields, Opening
  <2> QED
    BY <2>0, <2>1, <2>2, <2>3, LinkNewEffect
<1>2. CASE q.at = "openapprove" /\ users[u].sub # None
  <2>1. OpenApprove(r) \/ GoOn(r)
    BY <1>2, StepFrom
  <2>2. OpenApprove(r) => users'[u].approved
    BY <1>0, RightsCalm DEF Opening
  <2> QED
    BY <1>0, <1>00, <1>2, <2>1, <2>2 DEF Finished
<1>3. CASE q.at = "drop" /\ q.victim = u
  <2>1. DropTokens(r) \/ GoOn(r)
    BY <1>3, StepFrom
  <2>2. DropTokens(r) => Opening(req[r], u)'
    BY <1>3, MoveEffects DEF Moves, Becomes, Alters, Fields, Opening
  <2> QED
    BY <1>00, <1>3, <2>1, <2>2
<1>4. CASE q.at = "dropuser" /\ q.victim = u
  <2>1. DropUser(r) \/ GoOn(r)
    BY <1>4, StepFrom
  <2>2. DropUser(r) => users'[u] = NoUser
    BY <1>0, <1>4 DEF DropUser, RemoveUser, StoreTypeOK
  <2> QED
    BY <1>00, <1>4, <2>1, <2>2 DEF Existing
<1> QED
  BY <1>1, <1>2, <1>3, <1>4 DEF Opening

\* Elsewhere it is left alone.
LEMMA OpeningKept ==
  ASSUME UsersKeep, NEW o \in Requests, Same(o), NEW u \in Existing', u < seq.account, Opening(req[o], u)
  PROVE  Opening(req[o], u)'
BY DEF Same, Alters, Fields, Opening, UsersKeep

\* The step of a request loses no account that was opened.
LEMMA StepOpened ==
  ASSUME BaseRight, SceneTyped, OpenedRight, NEW r \in Requests, Own(r)
  PROVE  OpenedRight'
<1> USE DEF BaseRight
<1>0. /\ Step(r) /\ UsersKeep /\ scene.left \subseteq scene'.left
      /\ \A o \in Requests \ {r} : Same(o)
  BY StepUsers, StepLeft, OthersSame DEF Own
<1>00. seq.account \in Nat /\ seq'.account \in Nat /\ \A u \in Accounts : u \in Nat
  <2>1. StoreTypeOK'
    BY <1>0, StepBase
  <2> QED
    BY <2>1, NumbersTyped DEF StoreTypeOK
<1>1. ASSUME NEW u \in opened PROVE u \in Accounts /\ u < seq.account /\ u < seq'.account
  BY <1>0, <1>00 DEF OpenedRight, UsersKeep
<1>2. ASSUME NEW u \in opened \cap Existing'
      PROVE  Finished(u)' \/ (\E o \in Requests : Opening(req[o], u)') \/ u \in scene'.left
  <2>1. u \in Existing /\ u < seq.account
    BY <1>0, <1>1 DEF UsersKeep
  <2>2. Finished(u) => Finished(u)'
    BY <1>0, <2>1 DEF UsersKeep, Finished
  <2>3. ASSUME NEW o \in Requests, Opening(req[o], u)
        PROVE  Finished(u)' \/ Opening(req[o], u)' \/ u \in scene'.left
    BY <1>0, <2>1, <2>3, OpeningGoes, OpeningKept
  <2> QED
    BY <1>0, <2>1, <2>2, <2>3 DEF OpenedRight
<1>3. CASE UNCHANGED opened
  <2> QED
    BY <1>1, <1>2, <1>3 DEF OpenedRight
<1>4. CASE ~UNCHANGED opened
  <2>1. OpenAccount(r)
    BY <1>4 DEF Own, gatewayVars, SignIn, BySub, ByMail, Candidate, LinkNew, LinkOwner, SignInOwner,
       OpenApprove, OpenMail, OpenAddress, GoOn, HandOver, unchangedHere
  <2>2. /\ CreateUser(req[r].name, None, Viewer) /\ opened' = opened \cup {seq.account}
        /\ Becomes(r, {"at", "user", "victim", "after"}) /\ req'[r].at = "linknew"
        /\ req'[r].user = seq.account /\ req'[r].victim = seq.account
    BY <1>4, <2>1, OpenAccountEffect
  <2>3. req'[r].op = "gateway"
    <3>1. req[r].op = "gateway"
      BY <2>1 DEF OpenAccount, At, ReqRight, Control, InSteps
    <3> QED
      BY <2>2, <3>1 DEF Becomes, Alters, Fields
  <2>4. PICK a \in Accounts : a = seq.account
    BY <2>2 DEF CreateUser
  <2>5. Opening(req[r], a)'
    BY <2>2, <2>3, <2>4 DEF Opening
  <2>6. a < seq'.account
    BY <1>00, <2>2, <2>4 DEF CreateUser, StoreTypeOK
  <2>7. ASSUME NEW u \in opened' PROVE u \in Accounts /\ u < seq'.account
    BY <1>1, <2>2, <2>4, <2>6, <2>7
  <2>8. ASSUME NEW u \in opened' \cap Existing'
        PROVE  Finished(u)' \/ (\E o \in Requests : Opening(req[o], u)') \/ u \in scene'.left
    BY <1>2, <2>2, <2>4, <2>5, <2>8
  <2> QED
    BY <2>7, <2>8 DEF OpenedRight
<1> QED
  BY <1>3, <1>4

\* Nor does a step around them, but for the upsets.
LEMMA OtherOpened ==
  ASSUME BaseRight, SceneTyped, OpenedRight, Other
  PROVE  OpenedRight'
<1>0. /\ UsersKeep /\ UNCHANGED <<users, seq>> /\ Around /\ \A o \in Requests : Renewed(o)
      /\ scene.left \subseteq scene'.left
  BY AroundBase, AroundScene, CalmUsers DEF Other, BaseRight
<1>1. opened' = opened
  BY DEF Other, gatewayVars, Callback, Start, PendingAfterTTL, Exchange, Restart
<1>2. ASSUME NEW o \in Requests, req[o].at # "idle", ~Same(o)
      PROVE  HalfMade(o) \subseteq scene'.left
  BY <1>0, <1>2, AroundLost, AroundScene DEF BaseRight
<1>3. ASSUME NEW u \in opened \cap Existing, NEW o \in Requests, Opening(req[o], u)
      PROVE  Opening(req[o], u)' \/ u \in scene'.left
  <2>1. u \in Existing' /\ u < seq.account
    BY <1>0, <1>3 DEF Existing, OpenedRight
  <2>2. req[o].at # "idle" /\ u \in HalfMade(o)
    BY <1>3 DEF Opening, HalfMade
  <2> QED
    BY <1>0, <1>2, <1>3, <2>1, <2>2, OpeningKept
<1>4. \A u \in opened \cap Existing : Finished(u) => Finished(u)'
  BY <1>0 DEF Finished
<1>5. Existing' = Existing
  BY <1>0 DEF Existing
<1>6. ASSUME NEW u \in opened \cap Existing
      PROVE  Finished(u)' \/ (\E o \in Requests : Opening(req[o], u)') \/ u \in scene'.left
  BY <1>0, <1>3, <1>4 DEF OpenedRight
<1> QED
  BY <1>0, <1>1, <1>5, <1>6 DEF OpenedRight

\* So the opened accounts are in order at all times.
LEMMA OpenedStep == BaseRight /\ SceneTyped /\ OpenedRight /\ [Next]_vars => OpenedRight'
<1> SUFFICES ASSUME BaseRight, SceneTyped, OpenedRight, UNCHANGED vars PROVE OpenedRight'
  BY StepOpened, OtherOpened, NextOwn
<1> QED
  BY DEF vars, gatewayVars, store, OpenedRight, Finished, Opening, Existing

LEMMA InitOpened == Init => OpenedRight
BY DEF Init, OpenedRight

\* What a gateway login opened is linked and approved, on its way to that, or deleted
\* again, unless its own deletion or approval failed or its request was dropped.
THEOREM NoAccountIsOrphaned == Spec => []NoOrphanAccount
<1>1. Spec => []BaseRight
  BY InitBase, BaseStep, PTL DEF Spec
<1>2. Spec => []SceneTyped
  BY <1>1, InitScene, SceneStep, PTL DEF Spec
<1>3. Spec => []OpenedRight
  BY <1>1, <1>2, InitOpened, OpenedStep, PTL DEF Spec
<1>4. OpenedRight => NoOrphanAccount
  BY DEF OpenedRight, NoOrphanAccount, Finished, Opening, HalfMade
<1> QED
  BY <1>3, <1>4, PTL

-----------------------------------------------------------------------------
(* Flows and one-time codes of the gateway login.                          *)

\* A flow is pending, or its callback runs, or it was handed a code, or it is over.
Callbacks == {r \in Requests : req[r].op = "gateway"}
FlowsRight ==
  /\ started \in 0..MaxFlows /\ handed \in Nat
  /\ pending \subseteq 1..started
  /\ handed + Cardinality(Callbacks) + Cardinality(pending) <= started

\* The sets that are counted are finite.
LEMMA CountedFinite ==
  ASSUME started \in 0..MaxFlows, handed \in Nat, pending \subseteq 1..started
  PROVE  /\ IsFiniteSet(Callbacks) /\ Cardinality(Callbacks) \in Nat
         /\ IsFiniteSet(pending) /\ Cardinality(pending) \in Nat
         /\ started \in Nat /\ handed \in Nat
<1>1. IsFiniteSet(Callbacks)
  BY RequestsAssumption, FS_Subset DEF Callbacks
<1>2. started \in Nat /\ handed \in Nat
  BY GatewayAssumption
<1>3. IsFiniteSet(1..started)
  BY <1>2, FS_Interval
<1>4. IsFiniteSet(pending)
  BY <1>3, FS_Subset
<1> QED
  BY <1>1, <1>2, <1>4, FS_CardinalityType

\* No flow comes to count that did not.
LEMMA FewerFlows ==
  ASSUME FlowsRight, Callbacks' \subseteq Callbacks, pending' \subseteq pending, UNCHANGED <<started, handed>>
  PROVE  FlowsRight'
<1>1. /\ IsFiniteSet(Callbacks) /\ Cardinality(Callbacks) \in Nat
      /\ IsFiniteSet(pending) /\ Cardinality(pending) \in Nat
      /\ started \in Nat /\ handed \in Nat
  BY CountedFinite DEF FlowsRight
<1>2. /\ IsFiniteSet(Callbacks') /\ Cardinality(Callbacks') \in Nat
      /\ Cardinality(Callbacks') <= Cardinality(Callbacks)
  BY <1>1, FS_Subset, FS_CardinalityType
<1>3. /\ IsFiniteSet(pending') /\ Cardinality(pending') \in Nat
      /\ Cardinality(pending') <= Cardinality(pending)
  BY <1>1, FS_Subset, FS_CardinalityType
<1>4. handed' + Cardinality(Callbacks') + Cardinality(pending') <= started'
  BY <1>1, <1>2, <1>3 DEF FlowsRight
<1> QED
  BY <1>4 DEF FlowsRight

\* A step of a request makes no new callback of it.
LEMMA StepCallbacks ==
  ASSUME BaseRight, NEW r \in Requests, Step(r)
  PROVE  Callbacks' \subseteq Callbacks
<1>1. \A o \in Requests \ {r} : req'[o].op = req[o].op
  BY OthersSame DEF Same, Alters, Fields
<1>2. req'[r].op = "gateway" => req[r].op = "gateway"
  BY StepLeads DEF Idle
<1> QED
  BY <1>1, <1>2 DEF Callbacks

\* A code that is handed out takes the place of its callback.
LEMMA HandOverFlows ==
  ASSUME BaseRight, FlowsRight, NEW r \in Requests, HandOver(r)
  PROVE  FlowsRight'
<1>1. /\ IsFiniteSet(Callbacks) /\ Cardinality(Callbacks) \in Nat
      /\ IsFiniteSet(pending) /\ Cardinality(pending) \in Nat
      /\ started \in Nat /\ handed \in Nat
  BY CountedFinite DEF FlowsRight
<1>2. r \in Callbacks
  BY DEF HandOver, At, BaseRight, ReqRight, Control, InSteps, Callbacks
<1>3. Callbacks' \subseteq Callbacks \ {r}
  <2>1. Step(r)
    BY DEF Step, SignIn
  <2>2. req'[r].op # "gateway"
    BY DoneEnds DEF HandOver, BaseRight, Ends, Idle
  <2> QED
    BY <2>1, <2>2, StepCallbacks DEF Callbacks
<1>4. IsFiniteSet(Callbacks \ {r}) /\ Cardinality(Callbacks \ {r}) = Cardinality(Callbacks) - 1
  BY <1>1, <1>2, FS_RemoveElement
<1>5. Cardinality(Callbacks') <= Cardinality(Callbacks) - 1 /\ Cardinality(Callbacks') \in Nat
  BY <1>3, <1>4, FS_Subset, FS_CardinalityType
<1>6. handed' = handed + 1 /\ UNCHANGED <<pending, started>>
  BY DEF HandOver
<1>7. handed' + Cardinality(Callbacks') + Cardinality(pending') <= started'
  BY <1>1, <1>5, <1>6 DEF FlowsRight
<1> QED
  BY <1>1, <1>6, <1>7 DEF FlowsRight

\* The steps of requests keep the flows in order, and so do those around them.
LEMMA OwnFlows ==
  ASSUME BaseRight, FlowsRight, NEW r \in Requests, Own(r)
  PROVE  FlowsRight'
<1>1. CASE HandOver(r)
  BY <1>1, HandOverFlows
<1>2. CASE ~HandOver(r)
  <2>1. UNCHANGED <<pending, started, handed>>
    BY <1>2 DEF Own, gatewayVars, SignIn, BySub, ByMail, Candidate, OpenAccount, LinkNew, LinkOwner,
       SignInOwner,
       OpenApprove, OpenMail, OpenAddress, GoOn, unchangedHere
  <2> QED
    BY <2>1, StepCallbacks, FewerFlows DEF Own
<1> QED
  BY <1>1, <1>2

\* A request that arrives is no callback, one that is dropped ends.
LEMMA AroundCallbacks ==
  ASSUME BaseRight, \/ \E r \in Requests : Arrive(r)
                    \/ Environment
  PROVE  Callbacks' \subseteq Callbacks
<1>1. ASSUME NEW r \in Requests, Arrive(r) PROVE Callbacks' \subseteq Callbacks
  <2>1. Starts(r) /\ ReqRight' /\ req'[r].sub = None
    BY <1>1, ArriveStarts DEF BaseRight
  <2>2. req'[r].op # "gateway"
    BY <2>1, NoneAssumption DEF ReqRight, Control
  <2>3. \A o \in Requests \ {r} : req'[o].op = req[o].op
    BY <2>1 DEF Starts, Becomes, Alters, Fields
  <2> QED
    BY <2>2, <2>3 DEF Callbacks
<1>2. ASSUME NEW r \in Requests, Drop(r) PROVE Callbacks' \subseteq Callbacks
  <2>1. Ends(r)
    BY <1>2, EndEffects DEF BaseRight
  <2> QED
    BY <2>1 DEF Ends, Becomes, Alters, Fields, Idle, Callbacks
<1>3. ASSUME UNCHANGED req PROVE Callbacks' \subseteq Callbacks
  BY <1>3 DEF Callbacks
<1> QED
  BY <1>1, <1>2, <1>3 DEF Environment, Expire, UncacheAfterTTL, MediaAfterTTL, Cleanup

\* A flow begins, comes back, or is forgotten.
LEMMA StartFlows == ASSUME FlowsRight, Start PROVE FlowsRight'
<1>1. /\ IsFiniteSet(Callbacks) /\ Cardinality(Callbacks) \in Nat
      /\ IsFiniteSet(pending) /\ Cardinality(pending) \in Nat
      /\ started \in Nat /\ handed \in Nat
  BY CountedFinite DEF FlowsRight
<1>2. Cardinality(pending') <= Cardinality(pending) + 1 /\ Cardinality(pending') \in Nat
  <2>1. pending' = pending \cup {started + 1}
    BY DEF Start
  <2>2. /\ IsFiniteSet(pending')
        /\ Cardinality(pending') = IF started + 1 \in pending THEN Cardinality(pending)
              ELSE Cardinality(pending) + 1
    BY <1>1, <2>1, FS_AddElement, Zenon
  <2> QED
    BY <1>1, <2>2
<1>3. started' \in 0..MaxFlows /\ started' = started + 1
  BY <1>1, GatewayAssumption DEF Start, FlowsRight
<1>4. pending' \subseteq 1..started'
  BY <1>1, <1>3 DEF Start, FlowsRight
<1>5. Callbacks' = Callbacks /\ handed' = handed
  BY DEF Start, Callbacks
<1> QED
  BY <1>1, <1>2, <1>3, <1>4, <1>5 DEF FlowsRight

LEMMA CallbackFlows ==
  ASSUME BaseRight, FlowsRight, NEW r \in Requests, NEW f \in pending, Callback(r, f)
  PROVE  FlowsRight'
<1>1. /\ IsFiniteSet(Callbacks) /\ Cardinality(Callbacks) \in Nat
      /\ IsFiniteSet(pending) /\ Cardinality(pending) \in Nat
      /\ started \in Nat /\ handed \in Nat
  BY CountedFinite DEF FlowsRight
<1>2. /\ pending' = pending \ {f} /\ IsFiniteSet(pending')
      /\ Cardinality(pending') = Cardinality(pending) - 1
  BY <1>1, FS_RemoveElement DEF Callback
<1>3. Callbacks' \subseteq Callbacks \cup {r}
  <2>1. \A o \in Requests \ {r} : req'[o].op = req[o].op
    BY CallbackStarts DEF BaseRight, Starts, Becomes, Alters, Fields
  <2> QED
    BY <2>1 DEF Callbacks
<1>4. /\ IsFiniteSet(Callbacks \cup {r}) /\ Cardinality(Callbacks \cup {r}) <= Cardinality(Callbacks) + 1
      /\ Cardinality(Callbacks \cup {r}) \in Nat
  <2>1. /\ IsFiniteSet(Callbacks \cup {r})
        /\ Cardinality(Callbacks \cup {r}) = IF r \in Callbacks THEN Cardinality(Callbacks)
              ELSE Cardinality(Callbacks) + 1
    BY <1>1, FS_AddElement, Zenon
  <2> QED
    BY <1>1, <2>1
<1>5. Cardinality(Callbacks') <= Cardinality(Callbacks \cup {r}) /\ Cardinality(Callbacks') \in Nat
  BY <1>3, <1>4, FS_Subset, FS_CardinalityType
<1>6. UNCHANGED <<started, handed>>
  BY DEF Callback
<1>7. Cardinality(pending') \in Nat
  BY <1>2, FS_CardinalityType
<1>8. handed' + Cardinality(Callbacks') + Cardinality(pending') <= started'
  BY <1>1, <1>2, <1>4, <1>5, <1>6, <1>7 DEF FlowsRight
<1> QED
  BY <1>2, <1>6, <1>8 DEF FlowsRight

LEMMA RestartFlows == ASSUME FlowsRight, Restart PROVE FlowsRight'
<1>1. Callbacks' = {} /\ pending' = {} /\ UNCHANGED <<started, handed>>
  BY DEF Restart, Crash, Forgotten, Idle, Callbacks
<1> QED
  BY <1>1, FewerFlows

\* So the flows are in order at all times.
LEMMA FlowsStep == BaseRight /\ FlowsRight /\ [Next]_vars => FlowsRight'
<1> SUFFICES ASSUME BaseRight, FlowsRight, [Next]_vars PROVE FlowsRight'
  OBVIOUS
<1>1. CASE \E r \in Requests : Own(r)
  BY <1>1, OwnFlows
<1>2. CASE \/ \E r \in Requests, f \in pending : Callback(r, f)
           \/ Start \/ Restart
  BY <1>2, CallbackFlows, StartFlows, RestartFlows
<1>3. CASE (\E f \in pending : PendingAfterTTL(f)) \/ (\E c \in codes : Exchange(c))
  <2>1. UNCHANGED <<req, started, handed>> /\ pending' \subseteq pending
    BY <1>3 DEF PendingAfterTTL, Exchange
  <2> QED
    BY <2>1, FewerFlows DEF Callbacks
<1>4. CASE UNCHANGED gatewayVars /\ ((\E r \in Requests : Arrive(r)) \/ Environment \/ UNCHANGED req)
  <2>1. Callbacks' \subseteq Callbacks
    BY <1>4, AroundCallbacks DEF Callbacks
  <2> QED
    BY <1>4, <2>1, FewerFlows DEF gatewayVars
<1>5. ASSUME Other PROVE FlowsRight'
  <2>1. Around /\ (UNCHANGED gatewayVars \/ ~UNCHANGED gatewayVars)
    BY <1>5 DEF Other
  <2>2. CASE UNCHANGED gatewayVars
    BY <1>2, <1>3, <1>4, <2>1, <2>2 DEF Around
  <2>3. CASE ~UNCHANGED gatewayVars
    BY <1>2, <1>3, <1>5, <2>3 DEF Other
  <2> QED
    BY <2>2, <2>3
<1>6. UNCHANGED vars => UNCHANGED gatewayVars /\ UNCHANGED req
  BY DEF vars
<1> QED
  BY <1>1, <1>2, <1>3, <1>4, <1>5, <1>6, NextOwn

LEMMA InitFlows == Init => FlowsRight
<1> SUFFICES ASSUME Init PROVE FlowsRight
  OBVIOUS
<1>1. Callbacks = {}
  BY DEF Init, InitAccounts, Callbacks, Idle
<1> QED
  BY <1>1, FS_EmptySet, GatewayAssumption DEF Init, FlowsRight

\* The codes are numbered as they are handed out, and so are those that were evicted.
CodesRight ==
  /\ IsFiniteSet(codes)
  /\ codes \subseteq [nr : Nat, token : Tokens]
  /\ \A c \in codes : 1 <= c.nr /\ c.nr <= handed
  /\ \A c, d \in codes : c.nr = d.nr => c = d
  /\ evicted \subseteq 1..handed
  /\ EvictedOldest

\* A set of codes that are numbered has an oldest one.
LEMMA OldestIs ==
  ASSUME CodesRight, codes # {}
  PROVE  Oldest \in codes /\ \A d \in codes : Oldest.nr <= d.nr
<1> DEFINE Older(c) == {d \in codes : d.nr < c.nr}
           F == {Older(c) : c \in codes}
<1>1. F \subseteq FiniteSubsetsOf(codes) /\ F # {}
  <2>1. ASSUME NEW c \in codes PROVE Older(c) \in FiniteSubsetsOf(codes)
    BY FS_Subset DEF CodesRight, FiniteSubsetsOf
  <2> QED
    BY <2>1
<1>2. PICK S \in F : \A T \in F : ~(<<T, S>> \in StrictSubsetOrdering(codes))
  <2> HIDE DEF F
  <2> QED
    BY <1>1, FS_StrictSubsetOrderingWellFounded, WFMin
<1>3. PICK c \in codes : S = Older(c)
  OBVIOUS
<1>4. \A d \in codes : c.nr \in Nat /\ d.nr \in Nat
  BY DEF CodesRight
<1>5. ASSUME NEW d \in codes, d.nr < c.nr PROVE FALSE
  <2>1. Older(d) \subseteq Older(c) /\ d \in Older(c) /\ d \notin Older(d)
    BY <1>4, <1>5
  <2>2. <<Older(d), S>> \in StrictSubsetOrdering(codes)
    <3>1. Older(d) \in SUBSET codes /\ S \in SUBSET codes /\ Older(d) \subseteq S /\ Older(d) # S
      BY <1>3, <2>1
    <3> HIDE DEF Older
    <3> QED
      BY <3>1 DEF StrictSubsetOrdering
  <2> QED
    BY <1>2, <2>2
<1>6. \A d \in codes : c.nr <= d.nr
  BY <1>4, <1>5
<1> QED
  BY <1>6 DEF Oldest

\* There are at most as many codes as numbers from the oldest to the newest.
LEMMA CodesCount ==
  ASSUME CodesRight, handed \in Nat, codes # {}
  PROVE  Oldest \in codes /\ Oldest.nr \in 1..handed /\ Cardinality(codes) <= handed - Oldest.nr + 1
<1>1. Oldest \in codes /\ \A d \in codes : Oldest.nr <= d.nr
  BY OldestIs
<1>2. PICK o \in codes : o = Oldest
  BY <1>1
<1>3. o.nr \in 1..handed
  BY DEF CodesRight
<1> DEFINE f == [c \in codes |-> c.nr]
           T == o.nr..handed
<1>4. f \in Injection(codes, T)
  <2>1. \A c \in codes : f[c] \in T
    BY <1>1, <1>2, <1>3 DEF CodesRight
  <2>2. \A c, d \in codes : f[c] = f[d] => c = d
    BY DEF CodesRight
  <2> QED
    BY <2>1, <2>2 DEF Injection, IsInjective
<1>5. IsFiniteSet(T) /\ Cardinality(T) = handed - o.nr + 1
  BY <1>3, FS_Interval
<1>6. Cardinality(codes) <= Cardinality(T)
  <2> HIDE DEF f, T
  <2> QED
    BY <1>4, <1>5, FS_Injection
<1> QED
  BY <1>2, <1>3, <1>5, <1>6

\* At the limit the oldest code goes, and as many newer ones as there is room for are left.
LEMMA HandOverCodes ==
  ASSUME BaseRight, FlowsRight, CodesRight, NEW r \in Requests, HandOver(r)
  PROVE  CodesRight'
<1>1. handed \in Nat /\ handed' = handed + 1 /\ MaxCodes \in Nat \ {0}
  BY GatewayAssumption DEF FlowsRight, HandOver
<1>2. PICK n : n = [nr |-> handed + 1, token |-> req[r].new]
  OBVIOUS
<1>3. n.nr = handed + 1 /\ n \in [nr : Nat, token : Tokens]
  BY <1>1, <1>2 DEF HandOver, At, BaseRight, ReqRight, Control
<1>4. codes' = (codes \ EvictOldest) \cup {n} /\ evicted' = evicted \cup {c.nr : c \in EvictOldest}
  BY <1>2 DEF HandOver
<1>5. IsFiniteSet(codes')
  <2>1. IsFiniteSet(codes \ EvictOldest)
    BY FS_Subset DEF CodesRight
  <2> QED
    BY <1>4, <2>1, FS_AddElement
<1>6. /\ codes' \subseteq [nr : Nat, token : Tokens]
      /\ \A c \in codes' : 1 <= c.nr /\ c.nr <= handed'
      /\ \A c, d \in codes' : c.nr = d.nr => c = d
  BY <1>1, <1>3, <1>4 DEF CodesRight
<1>7. ASSUME NEW c \in EvictOldest PROVE c.nr \in 1..handed' /\ handed' - c.nr >= MaxCodes
  <2>1. c = Oldest /\ Cardinality(codes) >= MaxCodes
    BY DEF EvictOldest
  <2>2. codes # {}
    BY <1>1, <2>1, FS_EmptySet
  <2>3. c.nr \in 1..handed /\ Cardinality(codes) <= handed - c.nr + 1
    BY <1>1, <2>1, <2>2, CodesCount
  <2>4. Cardinality(codes) \in Nat
    BY FS_CardinalityType DEF CodesRight
  <2>5. PICK k \in 1..handed : k = c.nr
    BY <2>3
  <2> QED
    BY <1>1, <2>1, <2>3, <2>4, <2>5
<1>8. ASSUME NEW k \in evicted PROVE k \in 1..handed' /\ handed' - k >= MaxCodes
  BY <1>1 DEF CodesRight, EvictedOldest
<1>9. evicted' \subseteq 1..handed' /\ EvictedOldest'
  BY <1>4, <1>7, <1>8 DEF EvictedOldest
<1> QED
  BY <1>5, <1>6, <1>9 DEF CodesRight

\* Fewer codes are in order too.
LEMMA CodesKept ==
  ASSUME CodesRight, codes' \subseteq codes, UNCHANGED <<handed, evicted>>
  PROVE  CodesRight'
<1>1. IsFiniteSet(codes')
  BY FS_Subset DEF CodesRight
<1>2. EvictedOldest'
  BY DEF CodesRight, EvictedOldest
<1>3. /\ codes' \subseteq [nr : Nat, token : Tokens]
      /\ \A c \in codes' : 1 <= c.nr /\ c.nr <= handed'
      /\ \A c, d \in codes' : c.nr = d.nr => c = d
      /\ evicted' \subseteq 1..handed'
  BY DEF CodesRight
<1> QED
  BY <1>1, <1>2, <1>3 DEF CodesRight

\* So the codes are in order at all times.
LEMMA CodesStep == BaseRight /\ FlowsRight /\ CodesRight /\ [Next]_vars => CodesRight'
<1> SUFFICES ASSUME BaseRight, FlowsRight, CodesRight, [Next]_vars PROVE CodesRight'
  OBVIOUS
<1>1. CASE \E r \in Requests : HandOver(r)
  BY <1>1, HandOverCodes
<1>2. CASE codes' \subseteq codes /\ UNCHANGED <<handed, evicted>>
  BY <1>2, CodesKept
<1>3. ASSUME NEW r \in Requests, Own(r), ~HandOver(r)
      PROVE  codes' \subseteq codes /\ UNCHANGED <<handed, evicted>>
  BY <1>3 DEF Own, gatewayVars, SignIn, BySub, ByMail, Candidate, OpenAccount, LinkNew, LinkOwner, SignInOwner,
     OpenApprove, OpenMail, OpenAddress, GoOn, unchangedHere
<1>4. ASSUME Other \/ UNCHANGED vars PROVE codes' \subseteq codes /\ UNCHANGED <<handed, evicted>>
  BY <1>4 DEF Other, vars, gatewayVars, Callback, Start, PendingAfterTTL, Exchange, Restart
<1> QED
  BY <1>1, <1>2, <1>3, <1>4, NextOwn

LEMMA InitCodes == Init => CodesRight
BY FS_EmptySet DEF Init, CodesRight, EvictedOldest

\* The session that the gateway opened belongs to the account of its subject, and a code
\* is lost to the limit only.
THEOREM GatewayIsRight == Spec => []GatewayRight
<1>1. Spec => []BaseRight
  BY InitBase, BaseStep, PTL DEF Spec
<1>2. Spec => []FlowsRight
  BY <1>1, InitFlows, FlowsStep, PTL DEF Spec
<1>3. Spec => []CodesRight
  BY <1>1, <1>2, InitCodes, CodesStep, PTL DEF Spec
<1>4. CodesRight /\ GatewaySessionOwner => GatewayRight
  BY DEF CodesRight, GatewayRight
<1>5. SessionsRight => GatewaySessionOwner
  BY DEF SessionsRight
<1> QED
  BY <1>3, <1>4, <1>5, SessionsAreRight, PTL

\* Every variable stays in its range: no more codes are handed out than flows were started.
THEOREM TypeIsRight == Spec => []TypeOK
<1>1. Spec => []BaseRight
  BY InitBase, BaseStep, PTL DEF Spec
<1>2. Spec => []SceneTyped
  BY <1>1, InitScene, SceneStep, PTL DEF Spec
<1>3. Spec => []FlowsRight
  BY <1>1, InitFlows, FlowsStep, PTL DEF Spec
<1>4. Spec => []CodesRight
  BY <1>1, <1>3, InitCodes, CodesStep, PTL DEF Spec
<1>5. Spec => []OpenedRight
  BY <1>1, <1>2, InitOpened, OpenedStep, PTL DEF Spec
<1>6. Spec => []MailsRight
  BY <1>1, InitMails, MailsStep, PTL DEF Spec
<1>7. BaseRight /\ SceneTyped /\ MailsRight => AccountsTypeOK
  BY DEF BaseRight, ReqRight, MediaTyped, SceneTyped, MailsRight, AccountsTypeOK
<1>8. FlowsRight /\ CodesRight /\ OpenedRight /\ AccountsTypeOK => TypeOK
  <2> SUFFICES ASSUME FlowsRight, CodesRight, OpenedRight, AccountsTypeOK PROVE TypeOK
    OBVIOUS
  <2>1. /\ IsFiniteSet(Callbacks) /\ Cardinality(Callbacks) \in Nat
        /\ IsFiniteSet(pending) /\ Cardinality(pending) \in Nat
        /\ started \in Nat /\ handed \in Nat
    BY CountedFinite DEF FlowsRight
  <2>2. MaxFlows \in Nat /\ started \in 0..MaxFlows
    BY GatewayAssumption DEF FlowsRight
  <2>3. handed \in 0..MaxFlows
    BY <2>1, <2>2 DEF FlowsRight
  <2>4. pending \in SUBSET (1..MaxFlows) /\ evicted \in SUBSET (1..MaxFlows)
    BY <2>2, <2>3 DEF FlowsRight, CodesRight
  <2>5. codes \in SUBSET [nr : 1..MaxFlows, token : Tokens]
    BY <2>2, <2>3 DEF CodesRight
  <2>6. opened \in SUBSET Accounts
    BY DEF OpenedRight
  <2> QED
    BY <2>2, <2>3, <2>4, <2>5, <2>6 DEF TypeOK
<1> QED
  BY <1>1, <1>2, <1>3, <1>4, <1>5, <1>6, <1>7, <1>8, PTL
=============================================================================
