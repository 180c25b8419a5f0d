---------------------------- MODULE GatewayLogin ----------------------------
(***************************************************************************)
(* Login through the OAuth gateway (services/gateway_service.rs), on the   *)
(* accounts and sessions of Accounts: a flow is started and kept pending,  *)
(* the gateway redirects back with what it knows of the user, the account  *)
(* is found by subject, found by address, or created and linked, and the   *)
(* new token is handed over for a one-time code.  The gateway itself is    *)
(* external: any answer may come back.                                     *)
(***************************************************************************)
EXTENDS Accounts, Sequences

CONSTANTS
  Candidates,   \* the user names tried for a new account, in order
  MaxPending,   \* PENDING_MAX_ENTRIES
  MaxCodes,     \* EXCHANGE_MAX_ENTRIES
  MaxFlows      \* bound: flows started

ASSUME GatewayAssumption ==
  /\ Candidates \in Seq(Names) /\ Candidates # <<>>
  /\ MaxPending \in Nat /\ MaxCodes \in Nat \ {0} /\ MaxFlows \in Nat

VARIABLES
  pending,      \* PENDING: the flows that may still come back
  started,      \* how many were started
  codes,        \* EXCHANGES: the codes that may be redeemed, numbered by age
  handed,       \* how many codes were handed out
  evicted,      \* history: codes that were evicted
  opened        \* history: the accounts a gateway login created

gatewayVars == <<pending, started, codes, handed, evicted, opened>>
vars == <<store, cache, req, mediaVars, scene, history, gatewayVars>>

\* The steps of Accounts that a gateway login shares leave its own state alone.
Start ==
  /\ started < MaxFlows
  /\ Cardinality(pending) < MaxPending
  /\ "gateway" \in scene.menu
  /\ started' = started + 1
  /\ pending' = pending \cup {started + 1}
  /\ UNCHANGED <<store, cache, req, mediaVars, scene, history, codes, handed, evicted, opened>>

PendingAfterTTL(f) ==
  /\ f \in pending
  /\ pending' = pending \ {f}
  /\ UNCHANGED <<store, cache, req, mediaVars, scene, history, started, codes, handed, evicted, opened>>

\* The callback takes its flow out; what the gateway answers decides the rest.
Callback(r, f) ==
  /\ Free(r)
  /\ f \in pending
  /\ pending' = pending \ {f}
  /\ \E s \in Subs, m \in Typed(Emails) \cup {None}, v \in BOOLEAN :
       Call(r, [Asked("gateway", "bysub") EXCEPT !.sub = s, !.mail = m, !.verified = v])
  /\ UNCHANGED <<started, codes, handed, evicted, opened>>

unchangedHere == <<store, cache, mediaVars, scene, history, gatewayVars>>

-----------------------------------------------------------------------------
\* issue_token_for_existing, up to its first statement.
Granted(r, u) ==
  IF ~u.approved THEN Idle
  ELSE [req[r] EXCEPT !.at = IF u.role < Admin THEN "revoke" ELSE "issue",
                      !.user = u.id, !.victim = u.id, !.then = "done",
                      !.after = IF u.role < Admin THEN seq.token - 1 ELSE 0]

\* The owner of the subject.
BySub(r) ==
  /\ At(r, "bysub")
  /\ LET rows == FindByGatewaySub(req[r].sub)
     IN IF rows # {} THEN \E u \in rows : Go(r, Granted(r, u))
        ELSE Go(r, [req[r] EXCEPT !.after = 1,
                    !.at = IF req[r].verified /\ req[r].mail # None THEN "bymail" ELSE "candidate"])
  /\ UNCHANGED unchangedHere

\* An account with the verified address, which is then linked.
ByMail(r) ==
  /\ At(r, "bymail")
  /\ LET rows == FindByEmail(req[r].mail)
     IN IF rows = {} THEN Move(r, "candidate")
        ELSE \E u \in rows : Go(r, [req[r] EXCEPT !.at = "linkowner", !.row = u, !.user = u.id])
  /\ UNCHANGED unchangedHere

\* create_user_with_unique_username: "after" is the suffix it has come to.
NextCandidate(r) == IF req[r].after < Len(Candidates)
                    THEN Go(r, [req[r] EXCEPT !.at = "candidate", !.after = @ + 1])
                    ELSE Done(r)

Candidate(r) ==
  /\ At(r, "candidate")
  /\ IF NameTaken(Candidates[req[r].after])
     THEN NextCandidate(r)
     ELSE Go(r, [req[r] EXCEPT !.at = "open", !.name = Candidates[req[r].after]])
  /\ UNCHANGED unchangedHere

OpenAccount(r) ==
  /\ At(r, "open")
  /\ IF NameTaken(req[r].name)
     THEN NextCandidate(r) /\ UNCHANGED <<users, seq, opened>>
     ELSE /\ CreateUser(req[r].name, None, Viewer)
          /\ opened' = opened \cup {seq.account}
          /\ Go(r, [req[r] EXCEPT !.at = "linknew", !.user = seq.account,
                                  !.victim = seq.account, !.after = 0])
  /\ UNCHANGED <<tokens, links, cache, mediaVars, scene, history, pending, started, codes, handed, evicted>>

CanLink(r) == Linkable(req[r].user, req[r].sub) /\ ~SubTaken(req[r].user, req[r].sub)

\* Mutants: an account that could not be linked is left, or signed in all the same.
LinkNewOrLeave(r) ==
  /\ At(r, "linknew")
  /\ IF CanLink(r)
     THEN LinkGatewaySub(req[r].user, req[r].sub) /\ Move(r, "openapprove")
     ELSE Move(r, "owner") /\ UNCHANGED users
  /\ UNCHANGED <<tokens, links, seq, cache, mediaVars, scene, history, gatewayVars>>

LinkOwnerOrNot(r) ==
  /\ At(r, "linkowner")
  /\ Go(r, Granted(r, req[r].row))
  /\ IF CanLink(r) THEN LinkGatewaySub(req[r].user, req[r].sub) ELSE UNCHANGED users
  /\ UNCHANGED <<tokens, links, seq, cache, mediaVars, scene, history, gatewayVars>>

\* Linking: a subject that was linked meanwhile leads to its owner, and a new
\* account that could not be linked is deleted first.
LinkNew(r) ==
  /\ At(r, "linknew")
  /\ IF CanLink(r)
     THEN LinkGatewaySub(req[r].user, req[r].sub) /\ Move(r, "openapprove")
     ELSE Go(r, [req[r] EXCEPT !.at = "drop", !.then = "owner"]) /\ UNCHANGED users
  /\ UNCHANGED <<tokens, links, seq, cache, mediaVars, scene, history, gatewayVars>>

LinkOwner(r) ==
  /\ At(r, "linkowner")
  /\ IF CanLink(r)
     THEN LinkGatewaySub(req[r].user, req[r].sub) /\ Go(r, Granted(r, req[r].row))
     ELSE Move(r, "owner") /\ UNCHANGED users
  /\ UNCHANGED <<tokens, links, seq, cache, mediaVars, scene, history, gatewayVars>>

SignInOwner(r) ==
  /\ At(r, "owner")
  /\ LET rows == FindByGatewaySub(req[r].sub)
     IN IF rows = {} THEN Done(r) ELSE \E u \in rows : Go(r, Granted(r, u))
  /\ UNCHANGED unchangedHere

\* A linked new account is approved at once and gets the address if nobody has it.
AfterApprove(r) == [req[r] EXCEPT !.at = IF req[r].mail = None THEN "issue" ELSE "openmail"]

OpenApprove(r) ==
  /\ At(r, "openapprove")
  /\ ApproveUser(req[r].user)
  /\ Go(r, AfterApprove(r))
  /\ UNCHANGED <<tokens, links, seq, cache, mediaVars, scene, history, gatewayVars>>

OpenMail(r) ==
  /\ At(r, "openmail")
  /\ Go(r, [req[r] EXCEPT !.at = IF FindByEmail(req[r].mail) = {} THEN "openaddress" ELSE "issue"])
  /\ UNCHANGED unchangedHere

OpenAddress(r) ==
  /\ At(r, "openaddress")
  /\ IF EmailTaken(req[r].user, req[r].mail)
     THEN Move(r, "issue") /\ UNCHANGED <<users, links>>
     ELSE /\ UpdateEmail(req[r].user, req[r].mail)
          /\ Cross(r, req[r].user, "address", [req[r] EXCEPT !.at = "issue"])
  /\ UNCHANGED <<tokens, seq, cache, mediaVars, scene, history, gatewayVars>>

\* A statement fails and the login goes on without it: the revocation, the deletion of
\* the account that could not be linked, its approval and its address are only logged
\* or ignored; an account that could not be linked for another reason is deleted too.
GoOn(r) ==
  /\ req[r].op = "gateway"
  /\ \/ At(r, "revoke") /\ Go(r, [req[r] EXCEPT !.at = "unmedia", !.after = 0])
     \/ At(r, "linknew") /\ Go(r, [req[r] EXCEPT !.at = "drop", !.then = "gone"])
     \/ (At(r, "drop") \/ At(r, "dropuser")) /\ Go(r, AfterUncache(r))
     \/ At(r, "openapprove") /\ Go(r, AfterApprove(r))
     \/ (At(r, "openmail") \/ At(r, "openaddress")) /\ Move(r, "issue")
  /\ Upset(IF At(r, "linknew") THEN {} ELSE HalfMade(r))
  /\ late' = late \cup LeftBehind(r)
  /\ UNCHANGED <<store, cache, mediaVars, proof, gatewayVars>>

-----------------------------------------------------------------------------
\* evict_oldest_exchange.
Oldest == CHOOSE c \in codes : \A d \in codes : c.nr <= d.nr
EvictOldest == IF Cardinality(codes) >= MaxCodes THEN {Oldest} ELSE {}

\* A mutant: at the limit the new code is the one that goes.
HandOverIfRoom(r) ==
  /\ At(r, "code")
  /\ handed' = handed + 1
  /\ IF EvictOldest = {}
     THEN codes' = codes \cup {[nr |-> handed + 1, token |-> req[r].new]} /\ UNCHANGED evicted
     ELSE evicted' = evicted \cup {handed + 1} /\ UNCHANGED codes
  /\ Done(r)
  /\ UNCHANGED <<store, cache, mediaVars, scene, history, pending, started, opened>>

\* The redirect that carries the one-time code.
HandOver(r) ==
  /\ At(r, "code")
  /\ handed' = handed + 1
  /\ codes' = (codes \ EvictOldest) \cup {[nr |-> handed + 1, token |-> req[r].new]}
  /\ evicted' = evicted \cup {c.nr : c \in EvictOldest}
  /\ Done(r)
  /\ UNCHANGED <<store, cache, mediaVars, scene, history, pending, started, opened>>

\* A code is redeemed once, or goes when its thirty seconds are over.
Exchange(c) ==
  /\ c \in codes
  /\ codes' = codes \ {c}
  /\ UNCHANGED <<store, cache, req, mediaVars, scene, history, pending, started, handed, evicted, opened>>

\* The process stops: what it had in memory is gone.
Restart ==
  /\ Crash
  /\ pending' = {} /\ codes' = {}
  /\ UNCHANGED <<started, handed, evicted, opened>>

-----------------------------------------------------------------------------
Init ==
  /\ InitAccounts
  /\ pending = {} /\ started = 0 /\ codes = {} /\ handed = 0 /\ evicted = {} /\ opened = {}

SignIn(r) ==
  \/ BySub(r) \/ ByMail(r) \/ Candidate(r) \/ OpenAccount(r) \/ LinkNew(r) \/ LinkOwner(r)
  \/ SignInOwner(r) \/ OpenApprove(r) \/ OpenMail(r) \/ OpenAddress(r) \/ GoOn(r)
  \/ HandOver(r)

Next ==
  \/ \E r \in Requests : (Arrive(r) \/ Proceed(r)) /\ UNCHANGED gatewayVars
  \/ Environment /\ UNCHANGED gatewayVars
  \/ Start
  \/ \E f \in pending : PendingAfterTTL(f)
  \/ \E r \in Requests, f \in pending : Callback(r, f)
  \/ \E r \in Requests : SignIn(r)
  \/ \E c \in codes : Exchange(c)
  \/ Restart

Spec == Init /\ [][Next]_vars

-----------------------------------------------------------------------------
TypeOK ==
  /\ AccountsTypeOK
  /\ pending \in SUBSET (1..MaxFlows) /\ started \in 0..MaxFlows
  /\ codes \in SUBSET [nr : 1..MaxFlows, token : Tokens]
  /\ handed \in 0..MaxFlows
  /\ evicted \in SUBSET (1..MaxFlows)
  /\ opened \in SUBSET Accounts

\* A gateway login that ran to its end leaves no account behind that is not linked
\* and approved, whoever signed in or registered at the same time: what it created
\* and could not link it deleted (gateway_service.rs gateway_sign_in).  The exceptions
\* are the accounts whose own deletion or approval failed, which the code ignores or
\* logs, and whose own request was dropped or went with the process before that.
NoOrphanAccount ==
  \A u \in opened \cap Existing :
    \/ users[u].sub # None /\ users[u].approved
    \/ \E r \in Requests : u \in HalfMade(r)
    \/ u \in scene.left

\* A session that the gateway opened for a subject belongs to the one account that
\* is linked to it, however many callbacks for it ran at once (gateway_service.rs
\* link_gateway_sub_and_sign_in, sign_in_sub_owner).
GatewaySessionOwner ==
  \A t \in Tokens : Live(t) /\ tokens[t].sub # None => users[tokens[t].user].sub = tokens[t].sub

\* A code is lost to others only when as many newer ones as the table holds were
\* handed out, so at the limit it is the oldest login that fails
\* (gateway_service.rs evict_oldest_exchange).
EvictedOldest == \A n \in evicted : handed - n >= MaxCodes

\* Both: the session behind a code is the session of the one who logged in, and
\* a code is lost only to the limit.
GatewayRight == GatewaySessionOwner /\ EvictedOldest
=============================================================================
