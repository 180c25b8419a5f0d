------------------------------ MODULE Accounts ------------------------------
(***************************************************************************)
(* Sign-up, login, sessions, e-mail verification, password reset and the   *)
(* administration of users: handlers/auth.rs, handlers/admin/admin_user.rs *)
(* and the services and middleware behind them, over the tables of         *)
(* UserStore.  A request is a record with the step it is at; a step runs   *)
(* from one await to the next.                                             *)
(*                                                                         *)
(* Two caches stand in front of the tables: the token cache of UserStore,  *)
(* and the media sessions, in memory and in Redis, which are filled from   *)
(* it.  Entries go when their time to live is over, or when a revocation   *)
(* takes them out.  A request that is refused before its first statement,  *)
(* by validation, by a rate limit or because registration is closed,       *)
(* changes nothing and is not shown.                                       *)
(***************************************************************************)
EXTENDS UserStore

CONSTANTS
  Requests,          \* requests that may be served at the same time
  AllowFirstAdmin,   \* ALLOW_FIRST_USER_ADMIN
  Scenarios          \* bound: what there is at the start and what is asked, see Init

VARIABLES
  req,               \* the requests under way
  local,             \* MEDIA_AUTH_CACHE: tokens with a media session in memory
  redis,             \* tokens with a media session in Redis
  index,             \* the members of the media:auth:user sets in Redis
  scene,             \* what is asked, with which words, how many calls and upsets are left,
                     \* and, as history, the accounts an upset left half-made
  late,              \* history: tokens whose cached row nothing took out, see Fill
  orphaned,          \* history: media sessions put between the steps of an invalidation, or that
                     \* it did not see because its SMEMBERS failed
  proof              \* history: the address the link that verified a user was mailed to

\* A request: its operation and step, the tokens it came with, the token it
\* looks up and the step after, the account it works on, the account whose
\* tokens it puts out of use, the row it read, the token it issued, and its
\* other arguments.  "crossed" is history: whether the account's address or its
\* password changed meanwhile.
Idle ==
  [op |-> "idle", at |-> "idle", then |-> "done", token |-> 0, cookie |-> 0, probe |-> 0,
   user |-> 0, victim |-> 0, row |-> NoUser, new |-> 0, after |-> 0, name |-> None,
   pw |-> None, mail |-> None, link |-> 0, sub |-> None, verified |-> FALSE,
   role |-> Viewer, members |-> {}, crossed |-> {}]

mediaVars == <<local, redis, index, orphaned>>
history == <<late, proof>>

At(r, s) == req[r].at = s
Go(r, q) == req' = [req EXCEPT ![r] = q]
Move(r, s) == Go(r, [req[r] EXCEPT !.at = s])
Done(r) == Go(r, Idle)
Seek(q, t, then) == [q EXCEPT !.at = "lookup", !.probe = t, !.then = then]

\* Marks the other requests that work on an account whose address or password changes.
Cross(r, u, what, mine) ==
  req' = [s \in Requests |->
    IF s = r THEN mine
    ELSE IF req[s].at # "idle" /\ req[s].user = u THEN [req[s] EXCEPT !.crossed = @ \cup {what}]
    ELSE req[s]]

Issued == {t \in Tokens : tokens[t].status # "none"}
\* Tokens a browser may still hold from its time as a guest, or none.
Cookies == {0} \cup {t \in Issued : LET u == tokens[t].user
                                  IN u \notin Existing \/ users[u].guest}
\* The names, addresses and passwords that the clients of this scenario type.
Typed(S) == S \cap scene.words
Sent(kind) == {l \in Links : links[l].user # 0 /\ links[l].kind = kind}

-----------------------------------------------------------------------------
(***************************************************************************)
(* The requests, as they arrive.                                           *)
(***************************************************************************)
Free(r) == At(r, "idle") /\ scene.calls > 0

Call(r, q) ==
  /\ q.op \in scene.menu
  /\ scene' = [scene EXCEPT !.calls = @ - 1]
  /\ Go(r, q)
  /\ UNCHANGED <<store, cache, mediaVars, history>>

Asked(op, at) == [Idle EXCEPT !.op = op, !.at = at]

Register(r) == \E n \in Typed(Names), p \in Typed(Passwords), k \in Cookies :
  Call(r, [Asked("register", "count") EXCEPT !.name = n, !.pw = p, !.cookie = k])
Login(r) == \E n \in Typed(Names), p \in Typed(Passwords), k \in Cookies :
  Call(r, [Asked("login", "login") EXCEPT !.name = n, !.pw = p, !.cookie = k])
GuestSession(r) == Call(r, Asked("guest", "newguest"))
Logout(r) == \E t \in Issued :
  Call(r, Seek([Asked("logout", "lookup") EXCEPT !.token = t], t, "forget"))
ForgotPassword(r) == \E m \in Typed(Emails) :
  Call(r, [Asked("forgot", "byemail") EXCEPT !.mail = m])
ResetPassword(r) == \E l \in Sent("reset"), p \in Typed(Passwords) :
  Call(r, [Asked("reset", "consume") EXCEPT !.link = l, !.pw = p])
VerifyEmailLink(r) == \E l \in Sent("verify") :
  Call(r, [Asked("verify", "consume") EXCEPT !.link = l])
MediaRequest(r) == \E t \in Issued : Call(r, [Asked("media", "media") EXCEPT !.token = t])

\* Requests behind bearer_auth, which looks the presented token up first.
Bearer(r, op, u, m, p) == \E t \in Issued :
  Call(r, Seek([Asked(op, "lookup") EXCEPT !.token = t, !.victim = u, !.mail = m, !.pw = p],
               t, "admit"))
Use(r) == Bearer(r, "use", 0, None, None)
SendVerificationEmail(r) == Bearer(r, "send", 0, None, None)
ChangeEmail(r) == \E m \in Typed(Emails), p \in Typed(Passwords) : Bearer(r, "email", 0, m, p)

\* Requests behind admin_auth, about another account or their own.
Targeted == {"delete", "reject", "approve", "toggle", "kick"}
Administer(r) == \E op \in Targeted, u \in Existing : Bearer(r, op, u, None, None)
AdminResetPassword(r) == \E u \in Existing, p \in Typed(Passwords) :
  Bearer(r, "setpw", u, None, p)

-----------------------------------------------------------------------------
(***************************************************************************)
(* Looking a token up, and who may pass.                                   *)
(***************************************************************************)

\* find_user_by_token: the cached row, or the row of the query, which is then cached.
FindByToken(r) ==
  /\ At(r, "lookup")
  /\ LET t == req[r].probe
         hit == cache[t] # NoUser
         rows == IF hit THEN {cache[t]} ELSE FindUserByToken(t)
     IN IF rows = {} THEN Go(r, [req[r] EXCEPT !.at = req[r].then, !.row = NoUser])
        ELSE \E u \in rows :
          Go(r, [req[r] EXCEPT !.at = IF hit THEN req[r].then ELSE "fill", !.row = u])
  /\ UNCHANGED <<store, cache, mediaVars, scene, history>>

\* A logout takes its token out of the cache before it deletes the row.
LoggingOut(t) == \E s \in Requests : At(s, "deltoken") /\ req[s].token = t

\* The insertion is the one step that can leave a dead token in the cache: when
\* its row was put out of use since the query, or is about to be by a logout.
Fill(r) ==
  /\ At(r, "fill")
  /\ CacheToken(req[r].probe, req[r].row)
  /\ late' = IF FindUserByToken(req[r].probe) = {} \/ LoggingOut(req[r].probe)
             THEN late \cup {req[r].probe} ELSE late
  /\ Move(r, req[r].then)
  /\ UNCHANGED <<store, mediaVars, scene, proof>>

AdminOnly == Targeted \cup {"setpw"}
OnSelf(r) == req[r].op \in {"delete", "toggle"} /\ req[r].victim = req[r].row.id

\* bearer_auth and admin_auth, then the first step of the operation.
Admit(r) ==
  /\ At(r, "admit")
  /\ LET u == req[r].row
         passes == /\ u # NoUser /\ u.approved
                   /\ req[r].op \in AdminOnly => u.role >= Admin
                   /\ ~OnSelf(r)
                   /\ req[r].op # "use"
     IN IF ~passes THEN Done(r)
        ELSE Go(r, [req[r] EXCEPT !.at = req[r].op,
                    !.user = IF req[r].op \in AdminOnly THEN req[r].victim ELSE u.id])
  /\ UNCHANGED <<store, cache, mediaVars, scene, history>>

-----------------------------------------------------------------------------
(***************************************************************************)
(* Putting tokens out of use: the statement, the token cache, and, where   *)
(* the operation does, the media sessions in Redis.                        *)
(***************************************************************************)

\* Where an operation goes when the token cache is clear of the account.
AfterUncache(r) ==
  CASE req[r].op = "login" /\ req[r].then = "merged" -> Seek(req[r], req[r].new, "mediaowner")
    [] req[r].op = "register" -> Idle
    [] req[r].op = "email" \/ (req[r].op = "login" /\ req[r].then # "merged") ->
         [req[r] EXCEPT !.at = "issue"]
    [] req[r].op = "gateway" /\ req[r].then = "owner" -> [req[r] EXCEPT !.at = "owner"]
    [] req[r].op = "gateway" /\ req[r].then = "gone" -> Idle
    [] req[r].op = "reject" -> Idle
    [] OTHER -> [req[r] EXCEPT !.at = "unmedia"]

Uncache(r) ==
  /\ At(r, "uncache")
  /\ InvalidateCachedTokensForUser(req[r].victim)
  /\ Go(r, AfterUncache(r))
  /\ UNCHANGED <<store, mediaVars, scene, history>>

\* Bound: what may go wrong in a scenario.  It may leave accounts half-made.
Upset(accounts) ==
  /\ scene.upsets > 0
  /\ scene' = [scene EXCEPT !.upsets = @ - 1, !.left = @ \cup accounts]

\* invalidate_media_auth_user: the members of the user's set, then their removal.
\* The sessions in memory are left to their time to live.
MediaMembers(r) ==
  /\ At(r, "unmedia")
  /\ \/ /\ Go(r, [req[r] EXCEPT !.at = "unindex",
                                 !.members = {t \in index : tokens[t].user = req[r].victim}])
        /\ UNCHANGED scene
     \/ \* SMEMBERS fails, which is taken for an empty set
        Go(r, [req[r] EXCEPT !.at = "unindex", !.members = {}]) /\ Upset({})
  /\ UNCHANGED <<store, cache, mediaVars, history>>

AfterUnmedia(r) == IF req[r].op = "gateway" THEN [req[r] EXCEPT !.at = "issue"] ELSE Idle

InvalidateMediaAuthUser(r) ==
  /\ At(r, "unindex")
  /\ LET set == {t \in index : tokens[t].user = req[r].victim}
     IN /\ redis' = redis \ req[r].members
        /\ index' = index \ set
        /\ orphaned' = orphaned \cup (set \ req[r].members)
  /\ Go(r, AfterUnmedia(r))
  /\ UNCHANGED <<store, cache, local, scene, history>>

-----------------------------------------------------------------------------
(***************************************************************************)
(* Registration, login and guests.                                         *)
(***************************************************************************)
CountStep(r) ==
  /\ At(r, "count")
  /\ Go(r, [req[r] EXCEPT !.at = "name",
                          !.role = IF CountUsers = 0 /\ AllowFirstAdmin THEN Admin ELSE Viewer])
  /\ UNCHANGED <<store, cache, mediaVars, scene, history>>

NameStep(r) ==
  /\ At(r, "name")
  /\ IF NameTaken(req[r].name) THEN Done(r) ELSE Move(r, "create")
  /\ UNCHANGED <<store, cache, mediaVars, scene, history>>

\* The insert: a name taken meanwhile is a unique violation.
CreateStep(r) ==
  /\ At(r, "create")
  /\ IF NameTaken(req[r].name)
     THEN Done(r) /\ UNCHANGED <<store, history>>
     ELSE /\ CreateUser(req[r].name, req[r].pw, req[r].role)
          /\ Go(r, IF req[r].role >= Admin
                   THEN [req[r] EXCEPT !.at = "issue", !.user = seq.account] ELSE Idle)
          /\ UNCHANGED <<tokens, links, late, proof>>
  /\ UNCHANGED <<cache, mediaVars, scene>>

\* The row by name, the password, the approval.
LoginStep(r) ==
  /\ At(r, "login")
  /\ LET matching == {u \in FindByUsername(req[r].name) : u.pw = req[r].pw /\ u.approved}
     IN IF matching = {} THEN Done(r)
        ELSE \E u \in matching :
          Go(r, [req[r] EXCEPT !.user = u.id, !.victim = u.id,
                 !.at = IF u.role < Admin THEN "revoke" ELSE "issue",
                 !.after = IF u.role < Admin THEN seq.token - 1 ELSE 0])
  /\ UNCHANGED <<store, cache, mediaVars, scene, history>>

\* A later login supersedes the sessions there are.
Revoke(r) ==
  /\ At(r, "revoke")
  /\ RevokeTokensByUserId(req[r].victim)
  /\ Go(r, [req[r] EXCEPT !.at = "uncache", !.after = seq.token - 1])
  /\ UNCHANGED <<users, links, seq, cache, mediaVars, scene, history>>

AfterIssue(r) ==
  CASE req[r].op \in {"register", "login"} ->
         [Seek(req[r], seq.token, "merge") EXCEPT !.new = seq.token]
    [] req[r].op = "email" -> [req[r] EXCEPT !.at = "unmedia"]
    [] req[r].op = "gateway" -> [req[r] EXCEPT !.at = "code", !.new = seq.token]
    [] OTHER -> Idle

Issue(r) ==
  /\ At(r, "issue")
  /\ CreateToken(req[r].user, req[r].after,
                 IF req[r].op = "login" /\ "password" \notin req[r].crossed
                 THEN req[r].pw ELSE None, req[r].sub)
  /\ Go(r, AfterIssue(r))
  /\ UNCHANGED <<users, links, cache, mediaVars, scene, history>>

NewGuest(r) ==
  /\ At(r, "newguest")
  /\ CreateGuestUser
  /\ Go(r, [req[r] EXCEPT !.at = "issue", !.user = seq.account])
  /\ UNCHANGED <<tokens, links, cache, mediaVars, scene, history>>

\* merge_guest_session_if_any: the new session's user, then the guest of the cookie.
AfterMerge(r) == IF req[r].op = "login" THEN Seek(req[r], req[r].new, "mediaowner") ELSE Idle

MergeOwner(r) ==
  /\ At(r, "merge")
  /\ IF req[r].row = NoUser \/ req[r].cookie = 0
     THEN Go(r, AfterMerge(r))
     ELSE Go(r, [Seek(req[r], req[r].cookie, "mergeguest") EXCEPT !.user = req[r].row.id])
  /\ UNCHANGED <<store, cache, mediaVars, scene, history>>

\* The transaction moves what the guest owns and deletes it; when either row is
\* gone it fails and the guest's session, if any, stays.
MergeGuest(r) ==
  /\ At(r, "mergeguest")
  /\ LET g == req[r].row
     IN IF g # NoUser /\ g.guest /\ g.id # req[r].user /\ {g.id, req[r].user} \subseteq Existing
        THEN /\ RemoveUser(g.id)
             /\ Go(r, [req[r] EXCEPT !.at = "uncache", !.victim = g.id, !.then = "merged"])
        ELSE Go(r, AfterMerge(r)) /\ UNCHANGED <<users, tokens>>
  /\ UNCHANGED <<links, seq, cache, mediaVars, scene, history>>

\* A login clears the media sessions of its user, when it still finds one.
MediaOwner(r) ==
  /\ At(r, "mediaowner")
  /\ IF req[r].row # NoUser /\ req[r].row.role < Admin
     THEN Go(r, [req[r] EXCEPT !.at = "unmedia", !.victim = req[r].row.id]) ELSE Done(r)
  /\ UNCHANGED <<store, cache, mediaVars, scene, history>>

\* Logout: the cache, then the row, then the media session.
Forget(r) ==
  /\ At(r, "forget")
  /\ InvalidateCachedToken(req[r].token)
  /\ Move(r, "deltoken")
  /\ UNCHANGED <<store, mediaVars, scene, history>>

DeleteTokenStep(r) ==
  /\ At(r, "deltoken")
  /\ DeleteToken(req[r].token)
  /\ Move(r, "untoken")
  /\ UNCHANGED <<users, links, seq, cache, mediaVars, scene, history>>

InvalidateMediaAuthToken(r) ==
  /\ At(r, "untoken")
  /\ local' = local \ {req[r].token}
  /\ redis' = redis \ {req[r].token}
  /\ Done(r)
  /\ UNCHANGED <<store, cache, index, orphaned, scene, history>>

-----------------------------------------------------------------------------
(***************************************************************************)
(* Addresses and passwords.                                                *)
(***************************************************************************)
\* Changing the address asks for the password again, by the name of the row.
Reauthenticate(r) ==
  /\ At(r, "email")
  /\ IF \E u \in FindByUsername(req[r].row.name) : u.pw = req[r].pw
     THEN Move(r, "setemail") ELSE Done(r)
  /\ UNCHANGED <<store, cache, mediaVars, scene, history>>

ChangeEmailStep(r) ==
  /\ At(r, "setemail")
  /\ LET u == req[r].user
     IN IF EmailTaken(u, req[r].mail)
        THEN Done(r) /\ UNCHANGED <<users, links>>
        ELSE /\ UpdateEmail(u, req[r].mail)
             /\ Cross(r, u, "address",
                      [req[r] EXCEPT !.at = "revoke", !.victim = u, !.after = seq.token - 1])
  /\ UNCHANGED <<tokens, seq, cache, mediaVars, scene, history>>

\* A mail goes to the address that was read before the link was created.
ReadAddress(r) ==
  /\ At(r, "send")
  /\ LET mails == GetEmail(req[r].user)
     IN IF mails = {} THEN Done(r)
        ELSE \E m \in mails : Go(r, [req[r] EXCEPT !.at = "sendlink", !.mail = m])
  /\ UNCHANGED <<store, cache, mediaVars, scene, history>>

SendLink(r) ==
  /\ At(r, "sendlink")
  /\ IF req[r].user \in Existing
     THEN CreateEmailVerificationToken(req[r].user,
            IF "address" \in req[r].crossed THEN None ELSE req[r].mail)
     ELSE UNCHANGED <<links, seq>>
  /\ Done(r)
  /\ UNCHANGED <<users, tokens, cache, mediaVars, scene, history>>

ForgetfulUser(r) ==
  /\ At(r, "byemail")
  /\ LET rows == FindByEmail(req[r].mail)
     IN IF rows = {} THEN Done(r)
        ELSE \E u \in rows : Go(r, [req[r] EXCEPT !.at = "resetlink", !.user = u.id])
  /\ UNCHANGED <<store, cache, mediaVars, scene, history>>

ResetLink(r) ==
  /\ At(r, "resetlink")
  /\ IF req[r].user \in Existing
     THEN CreatePasswordResetToken(req[r].user, req[r].mail) ELSE UNCHANGED <<links, seq>>
  /\ Done(r)
  /\ UNCHANGED <<users, tokens, cache, mediaVars, scene, history>>

\* A link is used up by the statement that finds it.
Consume(r) ==
  /\ At(r, "consume")
  /\ LET l == req[r].link
         found == IF req[r].op = "reset" THEN FindValidResetToken(l)
                  ELSE FindValidEmailVerificationToken(l)
     IN IF found
        THEN /\ ConsumeLink(l)
             /\ Go(r, [req[r] EXCEPT !.at = IF req[r].op = "reset" THEN "setpw" ELSE "verify",
                       !.user = links[l].user, !.victim = links[l].user, !.mail = links[l].mail])
        ELSE Done(r) /\ UNCHANGED links
  /\ UNCHANGED <<users, tokens, seq, cache, mediaVars, scene, history>>

Verify(r) ==
  /\ At(r, "verify")
  /\ VerifyEmail(req[r].user)
  /\ proof' = [proof EXCEPT ![req[r].user] =
       IF "address" \in req[r].crossed THEN None ELSE req[r].mail]
  /\ Done(r)
  /\ UNCHANGED <<tokens, links, seq, cache, mediaVars, scene, late>>

\* A mutant: the sessions survive the new password.
SetPasswordOnly(r) ==
  /\ At(r, "setpw")
  /\ LET u == req[r].victim
     IN IF u \notin Existing
        THEN Done(r) /\ UNCHANGED users
        ELSE /\ UpdatePassword(u, req[r].pw)
             /\ Cross(r, u, "password", [req[r] EXCEPT !.at = "uncache"])
  /\ UNCHANGED <<tokens, links, seq, cache, mediaVars, scene, history>>

\* reset_password_and_revoke_tokens, for a mailed link and for an administrator.
SetPassword(r) ==
  /\ At(r, "setpw")
  /\ LET u == req[r].victim
     IN IF u \notin Existing
        THEN Done(r) /\ UNCHANGED <<users, tokens>>
        ELSE /\ UpdatePassword(u, req[r].pw)
             /\ RevokeTokensByUserId(u)
             /\ Cross(r, u, "password", [req[r] EXCEPT !.at = "uncache"])
  /\ UNCHANGED <<links, seq, cache, mediaVars, scene, history>>

-----------------------------------------------------------------------------
(***************************************************************************)
(* The administration of users.                                            *)
(***************************************************************************)
\* delete_user, which a rejection runs too: the tokens, the row, the cache.
DropTokens(r) ==
  /\ \E s \in {"delete", "reject", "drop"} : At(r, s)
  /\ DeleteTokensByUserId(req[r].victim)
  /\ Move(r, "dropuser")
  /\ UNCHANGED <<users, links, seq, cache, mediaVars, scene, history>>

DropUser(r) ==
  /\ At(r, "dropuser")
  /\ RemoveUser(req[r].victim)
  /\ Move(r, "uncache")
  /\ UNCHANGED <<links, seq, cache, mediaVars, scene, history>>

Kick(r) ==
  /\ At(r, "kick")
  /\ DeleteTokensByUserId(req[r].victim)
  /\ Move(r, "uncache")
  /\ UNCHANGED <<users, links, seq, cache, mediaVars, scene, history>>

\* Neither of these touches a cache: cached rows keep the old role and approval.
Approve(r) ==
  /\ At(r, "approve")
  /\ ApproveUser(req[r].victim)
  /\ Done(r)
  /\ UNCHANGED <<tokens, links, seq, cache, mediaVars, scene, history>>

Toggle(r) ==
  /\ At(r, "toggle")
  /\ ToggleAdmin(req[r].victim)
  /\ Done(r)
  /\ UNCHANGED <<tokens, links, seq, cache, mediaVars, scene, history>>

-----------------------------------------------------------------------------
(***************************************************************************)
(* Media sessions: resolve_media_user.                                     *)
(***************************************************************************)
MediaLocal(r) ==
  /\ At(r, "media")
  /\ IF req[r].token \in local THEN Done(r) ELSE Move(r, "mediaredis")
  /\ UNCHANGED <<store, cache, mediaVars, scene, history>>

MediaRedis(r) ==
  /\ At(r, "mediaredis")
  /\ IF req[r].token \in redis
     THEN local' = local \cup {req[r].token} /\ Done(r)
     ELSE Go(r, Seek(req[r], req[r].token, "mediafill")) /\ UNCHANGED local
  /\ UNCHANGED <<store, cache, redis, index, orphaned, scene, history>>

MediaFill(r) ==
  /\ At(r, "mediafill")
  /\ IF req[r].row # NoUser /\ req[r].row.approved
     THEN local' = local \cup {req[r].token} /\ Move(r, "mediaput")
     ELSE Done(r) /\ UNCHANGED local
  /\ UNCHANGED <<store, cache, redis, index, orphaned, scene, history>>

\* A mutant: the session without the set of its user.
MediaPutAlone(r) ==
  /\ At(r, "mediaput")
  /\ redis' = redis \cup {req[r].token}
  /\ Done(r)
  /\ UNCHANGED <<store, cache, local, index, orphaned, scene, history>>

MediaPut(r) ==
  /\ At(r, "mediaput")
  /\ redis' = redis \cup {req[r].token}
  /\ index' = index \cup {req[r].token}
  /\ orphaned' = orphaned \ {req[r].token}
  /\ Done(r)
  /\ UNCHANGED <<store, cache, local, scene, history>>

-----------------------------------------------------------------------------
(***************************************************************************)
(* Time, and upsets: a request that is dropped, a token that expires, the  *)
(* process that stops.                                                     *)
(***************************************************************************)
UncacheAfterTTL(t) ==
  /\ cache[t] # NoUser
  /\ InvalidateCachedToken(t)
  /\ UNCHANGED <<store, req, mediaVars, scene, history>>

\* A user's set outlives its members, whose time to live was set before its own.
MediaAfterTTL(t) ==
  /\ \/ t \in local /\ local' = local \ {t} /\ UNCHANGED <<redis, index>>
     \/ t \in redis /\ redis' = redis \ {t} /\ UNCHANGED <<local, index>>
     \/ /\ t \in index
        /\ \A o \in redis \cap index : tokens[o].user # tokens[t].user
        /\ index' = {o \in index : tokens[o].user # tokens[t].user}
        /\ UNCHANGED <<local, redis>>
  /\ UNCHANGED <<store, cache, req, orphaned, scene, history>>

Cleanup ==
  /\ \E t \in Tokens : tokens[t].status \in {"expired", "revoked"}
  /\ CleanupExpiredTokens
  /\ UNCHANGED <<users, links, seq, cache, req, mediaVars, scene, history>>

\* The account a gateway login has created and not yet linked and approved, or deleted.
HalfMade(r) ==
  {req[s].user : s \in {q \in {r} : req[q].op = "gateway"
                        /\ req[q].at \in {"linknew", "openapprove", "drop", "dropuser"}}}

\* The tokens of the account whose cached rows the request had yet to take out.
LeftBehind(r) ==
  IF \E s \in {"uncache", "dropuser"} : At(r, s)
  THEN {t \in Tokens : tokens[t].user = req[r].victim} ELSE {}

\* A timeout or a closed connection drops the handler, or a statement fails and its
\* error ends it.
Drop(r) ==
  /\ ~At(r, "idle")
  /\ Upset(HalfMade(r))
  /\ late' = late \cup LeftBehind(r)
  /\ Done(r)
  /\ UNCHANGED <<store, cache, mediaVars, proof>>

\* A statement or a command of Redis fails, its error is ignored or only logged, and
\* the request goes on without it.
Ignore(r) ==
  /\ \/ /\ At(r, "lookup") /\ req[r].then \in {"forget", "merge", "mergeguest", "mediaowner"}
        /\ Go(r, [req[r] EXCEPT !.at = req[r].then, !.row = NoUser])
     \/ At(r, "mergeguest") /\ Go(r, AfterMerge(r))
     \/ At(r, "deltoken") /\ Move(r, "untoken")
     \/ (At(r, "unmedia") \/ At(r, "unindex")) /\ Go(r, AfterUnmedia(r))
  /\ Upset({})
  /\ UNCHANGED <<store, cache, mediaVars, history>>

Expire(t) ==
  /\ Upset({})
  /\ Live(t)
  /\ ExpireToken(t)
  /\ late' = late \cup {t}
  /\ UNCHANGED <<users, links, seq, cache, req, mediaVars, proof>>

Forgotten ==
  /\ req' = [r \in Requests |-> Idle]
  /\ cache' = [t \in Tokens |-> NoUser]
  /\ local' = {}

Crash ==
  /\ Upset(UNION {HalfMade(r) : r \in Requests})
  /\ Forgotten
  /\ UNCHANGED <<store, redis, index, orphaned, history>>

-----------------------------------------------------------------------------
\* The operations, the steps of a request and what may follow the look-up of a token.
Ops == Targeted \cup
  {"idle", "register", "login", "guest", "logout", "forgot", "reset", "verify", "media", "use",
   "send", "email", "setpw", "gateway"}
Steps == Targeted \cup
  {"idle", "lookup", "fill", "admit", "uncache", "unmedia", "unindex", "count", "name", "create",
   "login", "revoke", "issue", "newguest", "merge", "mergeguest", "mediaowner", "forget",
   "deltoken", "untoken", "email", "setemail", "send", "sendlink", "byemail", "resetlink",
   "consume", "verify", "setpw", "drop", "dropuser", "media", "mediaredis", "mediafill",
   "mediaput", "bysub", "bymail", "candidate", "open", "linknew", "linkowner", "owner",
   "openapprove", "openmail", "openaddress", "code"}
Nexts == {"done", "admit", "forget", "merge", "mergeguest", "mediaowner", "mediafill", "merged", "owner",
          "gone"}

Request ==
  [op : Ops, at : Steps, then : Nexts, token : Tokens \cup {0},
   cookie : Tokens \cup {0}, probe : Tokens \cup {0}, user : Accounts \cup {0},
   victim : Accounts \cup {0}, row : User \cup {NoUser}, new : Tokens \cup {0}, after : Nat,
   name : Names \cup {None}, pw : Passwords \cup {None}, mail : Emails \cup {None},
   link : Links \cup {0}, sub : Subs \cup {None}, verified : BOOLEAN,
   role : {Viewer, Admin}, members : SUBSET Tokens, crossed : SUBSET {"address", "password"}]

\* What the tables hold when the process starts: rows under their ids, ids in order,
\* live sessions of users who are there, with the password or the subject they have,
\* and links that were mailed to the address the user has.
Sound(s) ==
  /\ s.users \in [Accounts -> User \cup {NoUser}] /\ s.tokens \in [Tokens -> Token]
  /\ s.links \in [Links -> Link]
  /\ s.seq \in [account : Nat \ {0}, token : Nat \ {0}, link : Nat \ {0}]
  /\ s.menu \in SUBSET Ops /\ s.words \in SUBSET (Names \cup Passwords \cup Emails)
  /\ s.calls \in Nat /\ s.upsets \in Nat
  /\ \A u \in Accounts : s.users[u] # NoUser => s.users[u].id = u /\ u < s.seq.account
  /\ \A t \in Tokens :
       LET row == s.tokens[t] owner == s.users[row.user]
       IN IF row.status = "live"
          THEN /\ t < s.seq.token /\ row.after = 0
               /\ row.user \in Accounts /\ owner # NoUser
               /\ row.pw \in {None, owner.pw} /\ row.sub \in {None, owner.sub}
          ELSE t >= s.seq.token => row = NoToken
  /\ \A l \in Links :
       LET row == s.links[l]
       IN /\ row.user < s.seq.account
          /\ ~row.used => /\ row.user \in Accounts /\ s.users[row.user] # NoUser
                          /\ row.mail \in {None, s.users[row.user].email}

ASSUME ScenarioAssumption == \A s \in Scenarios : Sound(s)
ASSUME RequestsAssumption == IsFiniteSet(Requests)

\* The store of one of the scenarios, and nothing under way.
InitAccounts ==
  /\ \E s \in Scenarios :
       /\ users = s.users /\ tokens = s.tokens /\ links = s.links /\ seq = s.seq
       /\ scene = [menu |-> s.menu, words |-> s.words, calls |-> s.calls,
                  upsets |-> s.upsets, left |-> {}]
  /\ cache = [t \in Tokens |-> NoUser]
  /\ req = [r \in Requests |-> Idle]
  /\ local = {} /\ redis = {} /\ index = {}
  /\ late = {} /\ orphaned = {}
  /\ proof = [u \in Accounts |-> None]

Arrive(r) ==
  /\ Free(r)
  /\ \/ Register(r) \/ Login(r) \/ GuestSession(r) \/ Logout(r) \/ ForgotPassword(r)
     \/ ResetPassword(r) \/ VerifyEmailLink(r) \/ MediaRequest(r) \/ Use(r)
     \/ SendVerificationEmail(r) \/ ChangeEmail(r) \/ Administer(r) \/ AdminResetPassword(r)

Proceed(r) ==
  \/ FindByToken(r) \/ Fill(r) \/ Admit(r)
  \/ Uncache(r) \/ MediaMembers(r) \/ InvalidateMediaAuthUser(r)
  \/ CountStep(r) \/ NameStep(r) \/ CreateStep(r) \/ LoginStep(r) \/ Revoke(r) \/ Issue(r)
  \/ NewGuest(r) \/ MergeOwner(r) \/ MergeGuest(r) \/ MediaOwner(r)
  \/ Forget(r) \/ DeleteTokenStep(r) \/ InvalidateMediaAuthToken(r)
  \/ Reauthenticate(r) \/ ChangeEmailStep(r) \/ ReadAddress(r) \/ SendLink(r)
  \/ ForgetfulUser(r) \/ ResetLink(r) \/ Consume(r) \/ Verify(r) \/ SetPassword(r)
  \/ DropTokens(r) \/ DropUser(r) \/ Kick(r) \/ Approve(r) \/ Toggle(r)
  \/ MediaLocal(r) \/ MediaRedis(r) \/ MediaFill(r) \/ MediaPut(r) \/ Ignore(r)

Environment ==
  \/ \E t \in Tokens : UncacheAfterTTL(t) \/ MediaAfterTTL(t) \/ Expire(t)
  \/ \E r \in Requests : Drop(r)
  \/ Cleanup

-----------------------------------------------------------------------------
AccountsTypeOK ==
  /\ StoreTypeOK
  /\ req \in [Requests -> Request]
  /\ local \in SUBSET Tokens /\ redis \in SUBSET Tokens /\ index \in SUBSET Tokens
  /\ late \in SUBSET Tokens /\ orphaned \in SUBSET Tokens
  /\ proof \in [Accounts -> Emails \cup {None}]
  /\ scene \in [menu : SUBSET Ops, words : SUBSET (Names \cup Passwords \cup Emails),
               calls : Nat, upsets : Nat, left : SUBSET (Accounts \cup {0})]

\* A token that was revoked, deleted or lost its user is out of the token cache
\* as soon as the request that did it has reached its invalidation, as the note at
\* the cache says, unless a lookup put its row in after that, or that request was
\* dropped half-way (user_repo.rs TOKEN_CACHE, revoke_tokens_by_user_id,
\* delete_user, delete_token).
CachedUnlessLate ==
  \A t \in Tokens : cache[t] # NoUser =>
    \/ FindUserByToken(t) # {}
    \/ t \in late
    \/ \E r \in Requests : t \in LeftBehind(r)

\* Every media session in Redis is in the set of its user, so that the next
\* invalidation of the user finds it, unless it was put between the two steps of
\* one, or the first of these failed and the second took the set away all the same
\* (media.rs media_auth_cache_put_redis, invalidate_media_auth_user).
MediaIndexed == redis \subseteq index \cup orphaned

\* Of two sessions of one viewer that are both alive, the older one was issued
\* after the login that issued the newer one had read the account and gone on to
\* revoke the sessions there were: logins that overlap leave two, and so does a
\* gateway login whose revocation failed, which revoked none and is marked with 0
\* (auth_service.rs login, handlers/auth.rs update_email, gateway_service.rs
\* issue_token_for_existing).
Superseded ==
  \A s, t \in Tokens :
    s < t /\ Live(s) /\ Live(t) /\ tokens[s].user = tokens[t].user => s > tokens[t].after

\* No session that a login opened with an old password outlives the change of the
\* password, unless the login was under way when it changed (user_repo.rs
\* reset_password_and_revoke_tokens).
OldPasswordOut ==
  \A t \in Tokens : Live(t) /\ tokens[t].pw # None => tokens[t].pw = users[tokens[t].user].pw

\* An address is marked as verified only by a link that was mailed to it, unless the
\* address changed while the mail was being sent or the link was being followed
\* (user_repo.rs update_email, verify_email).
VerifiedWasMailed ==
  \A u \in Existing : users[u].verified => proof[u] \in {users[u].email, None}
=============================================================================
