----------------------------- MODULE MCAccounts -----------------------------
(***************************************************************************)
(* Scenarios for GatewayLogin: accounts that are already there, and the    *)
(* operations that meet on them, two requests at a time.                   *)
(***************************************************************************)
EXTENDS GatewayLogin, TLC

MCAccounts == 1..5
MCTokens == 1..5
MCLinks == 1..4
MCCandidates == <<"bob", "bob_2", "bob_3">>
RequestSymmetry == Permutations(Requests)

Ann == [id |-> 1, name |-> "ann", pw |-> "p", approved |-> TRUE, role |-> Admin,
        guest |-> FALSE, email |-> None, verified |-> FALSE, sub |-> None]
Bob == [Ann EXCEPT !.id = 2, !.name = "bob", !.role = Viewer, !.email = "e1"]
Cat == [Bob EXCEPT !.id = 3, !.name = "cat", !.pw = "q", !.email = None, !.approved = FALSE]
Guest == [Cat EXCEPT !.name = None, !.pw = None, !.guest = TRUE, !.approved = TRUE]

Session(u) == [NoToken EXCEPT !.user = u, !.status = "live"]
ByPassword(u, p) == [Session(u) EXCEPT !.pw = p]

\* The first rows of a table, and the rest of it empty.
Rows(rows, ids, none) == [i \in ids |-> IF i <= Len(rows) THEN rows[i] ELSE none]

Scenario(accounts, sessions, mailed, menu, words, calls, upsets) ==
  [users |-> Rows(accounts, Accounts, NoUser),
   tokens |-> Rows(sessions, Tokens, NoToken),
   links |-> Rows(mailed, Links, NoLink),
   seq |-> [account |-> Len(accounts) + 1, token |-> Len(sessions) + 1, link |-> Len(mailed) + 1],
   menu |-> menu, words |-> words, calls |-> calls, upsets |-> upsets]

Verification == [kind |-> "verify", user |-> 2, used |-> FALSE, mail |-> "e1"]
MailedReset == [Verification EXCEPT !.kind = "reset"]
Sessions == <<Session(1), ByPassword(2, "p")>>

MCScenarios == {
  \* an empty installation, where whoever registers first becomes administrator
  Scenario(<<>>, <<>>, <<>>, {"register", "login", "guest"}, {"ann", "bob", "p"}, 2, 0),
  \* administrators and a user's own requests, on the sessions of one user
  Scenario(<<Ann, Bob>>, Sessions, <<>>, {"use", "kick", "setpw", "login", "logout"}, {"bob", "p", "q"}, 2, 0),
  Scenario(<<Ann, Bob>>, Sessions, <<>>, {"use", "kick", "delete", "logout"}, {}, 2, 1),
  \* the states of an account, and what its cached rows still say
  Scenario(<<Ann, Bob, Cat>>, Sessions, <<>>, {"approve", "reject", "toggle", "login", "use"},
           {"bob", "cat", "p", "q"}, 2, 0),
  \* media sessions
  Scenario(<<Ann, Bob>>, Sessions, <<>>, {"media", "kick", "login", "logout"}, {"bob", "p"}, 2, 0),
  \* addresses and the links mailed to them
  Scenario(<<Ann, Bob>>, Sessions, <<Verification>>, {"email", "send", "verify"}, {"e2", "p"}, 3, 0),
  Scenario(<<Ann, Bob>>, Sessions, <<Verification>>, {"email", "send", "verify", "delete"}, {"e2"}, 2, 0),
  Scenario(<<Ann, Bob>>, Sessions, <<MailedReset>>, {"forgot", "reset", "login"}, {"bob", "e1", "p", "q"}, 2, 0),
  Scenario(<<Ann, Bob>>, Sessions, <<MailedReset>>, {"reset", "login", "delete"}, {"bob", "p", "q"}, 3, 0),
  \* a guest signs in, in one browser or two
  Scenario(<<Ann, Bob, Guest>>, Sessions \o <<Session(3)>>, <<>>, {"login", "use"}, {"bob", "p"}, 2, 1),
  \* the gateway, next to a registration of the same name and a change of address
  Scenario(<<Ann, Bob>>, Sessions, <<>>, {"gateway", "register", "email"}, {"bob_2", "e1", "e2", "p"}, 2, 0),
  Scenario(<<Ann, Bob>>, Sessions, <<>>, {"gateway", "delete"}, {"e2"}, 2, 1)
}
=============================================================================
