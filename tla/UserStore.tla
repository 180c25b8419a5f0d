------------------------------ MODULE UserStore ------------------------------
(***************************************************************************)
(* The tables of accounts, sessions and mailed links behind                *)
(* repositories/user_repo.rs, the process-wide cache of looked-up tokens   *)
(* in front of them, and the statements that read and change them.  A      *)
(* statement is atomic; what happens between two of them is up to the      *)
(* modules that extend this one.                                           *)
(*                                                                         *)
(* A token or a link that was never issued, or whose row is gone, keeps    *)
(* its place with the status "none" or "deleted": ids are never reused.    *)
(***************************************************************************)
EXTENDS Naturals, FiniteSets

CONSTANTS
  Accounts,    \* ids of accounts, an interval from 1; as a bound, nothing is
  Tokens,      \* created beyond the last, and so for the ids of session tokens
  Links,       \* and of mailed links
  Names, Passwords, Emails, Subs

VARIABLES
  users,       \* the table users: a row or NoUser
  tokens,      \* the table auth_tokens
  links,       \* the tables password_reset_tokens, email_verification_tokens
  seq,         \* the next account, token and link
  cache        \* TOKEN_CACHE: the row that was looked up for a token, or NoUser

None == "none"
NoUser == [id |-> 0]

ASSUME IdsAssumption ==
  /\ Accounts \subseteq Nat \ {0} /\ Tokens \subseteq Nat \ {0} /\ Links \subseteq Nat \ {0}
ASSUME NoneAssumption == None \notin Subs

Admin == 3
Viewer == 1

\* A user row; the made-up names of guests and the passwords of guests and of
\* gateway accounts, which nobody can type, are None.
User == [id : Accounts, name : Names \cup {None}, pw : Passwords \cup {None}, approved : BOOLEAN,
         role : {Viewer, Admin}, guest : BOOLEAN, email : Emails \cup {None},
         verified : BOOLEAN, sub : Subs \cup {None}]

\* History: the tokens up to "after" had to be revoked before this one was issued, to
\* a login with the password "pw" or by the gateway for the subject "sub"; 0 when none
\* had to, or when the gateway's revocation failed and its login went on.
Token == [user : Accounts \cup {0}, after : Nat, pw : Passwords \cup {None},
          sub : Subs \cup {None}, status : {"none", "live", "revoked", "expired", "deleted"}]

\* "mail" is history: the address the link was sent to.
Link == [kind : {"verify", "reset"}, user : Accounts \cup {0}, used : BOOLEAN,
         mail : Emails \cup {None}]

NoToken == [user |-> 0, after |-> 0, pw |-> None, sub |-> None, status |-> "none"]
NoLink == [kind |-> "verify", user |-> 0, used |-> TRUE, mail |-> None]

Existing == {u \in Accounts : users[u] # NoUser}
Live(t) == tokens[t].status = "live"
TokensOf(u) == {t \in Tokens : tokens[t].user = u}

-----------------------------------------------------------------------------
\* users

CountUsers == Cardinality({u \in Existing : ~users[u].guest})

\* The row with this name, address or subject; each is unique when present.
FindByUsername(n) == {users[u] : u \in {v \in Existing : users[v].name = n}}
FindByEmail(m) == {users[u] : u \in {v \in Existing : users[v].email = m}}
FindByGatewaySub(s) == {users[u] : u \in {v \in Existing : users[v].sub = s}}
GetEmail(u) == {users[v].email : v \in {w \in Existing : w = u /\ users[w].email # None}}

NewUser(name, pw, role, guest) ==
  [id |-> seq.account, name |-> name, pw |-> pw, approved |-> guest \/ role >= Admin,
   role |-> role, guest |-> guest, email |-> None, verified |-> FALSE, sub |-> None]

NameTaken(n) == FindByUsername(n) # {}

CreateUser(name, pw, role) ==
  /\ seq.account \in Accounts
  /\ users' = [users EXCEPT ![seq.account] = NewUser(name, pw, role, FALSE)]
  /\ seq' = [seq EXCEPT !.account = @ + 1]

CreateGuestUser ==
  /\ seq.account \in Accounts
  /\ users' = [users EXCEPT ![seq.account] = NewUser(None, None, Viewer, TRUE)]
  /\ seq' = [seq EXCEPT !.account = @ + 1]

\* The row updates of one account; with no such row they change nothing.
Update(u, row) == users' = IF u \in Existing THEN [users EXCEPT ![u] = row] ELSE users

UpdatePassword(u, pw) == Update(u, [users[u] EXCEPT !.pw = pw])
\* A mutant: a demotion takes one step down.
ToggleAdminByOne(u) ==
  Update(u, IF users[u].role >= Admin THEN [users[u] EXCEPT !.role = @ - 1]
            ELSE [users[u] EXCEPT !.role = Admin, !.approved = TRUE])

ToggleAdmin(u) ==
  Update(u, IF users[u].role >= Admin THEN [users[u] EXCEPT !.role = Viewer]
            ELSE [users[u] EXCEPT !.role = Admin, !.approved = TRUE])
ApproveUser(u) == Update(u, [users[u] EXCEPT !.approved = TRUE])
VerifyEmail(u) == Update(u, [users[u] EXCEPT !.verified = TRUE])
SetEmail(u, m) == Update(u, [users[u] EXCEPT !.email = m, !.verified = FALSE])

EmailTaken(u, m) == \E v \in Existing \ {u} : users[v].email = m
SubTaken(u, s) == \E v \in Existing \ {u} : users[v].sub = s
Linkable(u, s) == u \in Existing /\ users[u].sub \in {None, s}
LinkGatewaySub(u, s) == Update(u, [users[u] EXCEPT !.sub = s])

\* ON DELETE CASCADE takes the tokens of the user along.
RemoveUser(u) ==
  /\ users' = [users EXCEPT ![u] = NoUser]
  /\ tokens' = [t \in Tokens |-> IF tokens[t].user = u THEN [tokens[t] EXCEPT !.status = "deleted"]
                                ELSE tokens[t]]

-----------------------------------------------------------------------------
\* auth_tokens

\* INSERT ... SELECT FROM users: without its user the token gets no row.
CreateToken(u, after, pw, sub) ==
  /\ seq.token \in Tokens
  /\ tokens' = [tokens EXCEPT ![seq.token] =
       [user |-> u, after |-> after, pw |-> pw, sub |-> sub,
        status |-> IF u \in Existing THEN "live" ELSE "deleted"]]
  /\ seq' = [seq EXCEPT !.token = @ + 1]

Settle(T, status) ==
  tokens' = [t \in Tokens |-> IF t \in T THEN [tokens[t] EXCEPT !.status = status]
                              ELSE tokens[t]]

\* A mutant: the comparison with the expiry the wrong way round.
RevokeExpiredByUserId(u) ==
  Settle({t \in TokensOf(u) : tokens[t].status = "expired"}, "revoked")

RevokeTokensByUserId(u) == Settle({t \in TokensOf(u) : Live(t)}, "revoked")
DeleteTokensByUserId(u) == Settle(TokensOf(u), "deleted")
DeleteToken(t) == Settle({t}, "deleted")
ExpireToken(t) == Settle({t}, "expired")
CleanupExpiredTokens ==
  Settle({t \in Tokens : tokens[t].status \in {"expired", "revoked"}}, "deleted")

\* The join of the token with its user, for a token that is neither expired nor revoked.
FindUserByToken(t) ==
  {users[u] : u \in {v \in Existing : Live(t) /\ tokens[t].user = v}}

\* A mutant: takes out the tokens that the table still knows.
InvalidateKnownTokensForUser(u) ==
  cache' = [t \in Tokens |-> IF Live(t) /\ tokens[t].user = u THEN NoUser ELSE cache[t]]

InvalidateCachedTokensForUser(u) ==
  cache' = [t \in Tokens |-> IF cache[t] # NoUser /\ cache[t].id = u THEN NoUser ELSE cache[t]]
InvalidateCachedToken(t) == cache' = [cache EXCEPT ![t] = NoUser]
CacheToken(t, row) == cache' = [cache EXCEPT ![t] = row]

-----------------------------------------------------------------------------
\* password_reset_tokens and email_verification_tokens

UseLinks(kind, u) ==
  [l \in Links |-> IF links[l].kind = kind /\ links[l].user = u
                   THEN [links[l] EXCEPT !.used = TRUE] ELSE links[l]]

CreateLink(kind, u, mail) ==
  /\ seq.link \in Links
  /\ links' = [UseLinks(kind, u) EXCEPT ![seq.link] =
       [kind |-> kind, user |-> u, used |-> FALSE, mail |-> mail]]
  /\ seq' = [seq EXCEPT !.link = @ + 1]

CreatePasswordResetToken(u, mail) == CreateLink("reset", u, mail)
CreateEmailVerificationToken(u, mail) == CreateLink("verify", u, mail)

Usable(l, kind) == links[l].kind = kind /\ ~links[l].used /\ links[l].user \in Existing
FindValidResetToken(l) == Usable(l, "reset")
FindValidEmailVerificationToken(l) == Usable(l, "verify")
ConsumeLink(l) == links' = [links EXCEPT ![l].used = TRUE]

\* A mutant: the links sent to the old address stay usable.
UpdateEmailOnly(u, m) == SetEmail(u, m) /\ UNCHANGED links

\* A changed address is unverified, and the links sent to the old one are used up.
UpdateEmail(u, m) ==
  /\ SetEmail(u, m)
  /\ links' = UseLinks("verify", u)

-----------------------------------------------------------------------------
StoreTypeOK ==
  /\ users \in [Accounts -> User \cup {NoUser}]
  /\ tokens \in [Tokens -> Token]
  /\ links \in [Links -> Link]
  /\ seq \in [account : Nat \ {0}, token : Nat \ {0}, link : Nat \ {0}]
  /\ cache \in [Tokens -> User \cup {NoUser}]

store == <<users, tokens, links, seq>>
==============================================================================
