------------------------------ MODULE Sessions ------------------------------
(***************************************************************************)
(* Accounts and the refresh tokens of their sessions:                      *)
(* internal/user/usecase/user_usecase.go over the PostgreSQL repository    *)
(* internal/user/repository/user_repository.go.                            *)
(*                                                                         *)
(* Register, Login, OAuthLogin and RefreshTokens are sequences of single   *)
(* autocommitted statements: no transaction spans the lookup of a refresh  *)
(* token, its revocation and the insertion of its successor, so the        *)
(* statements of two requests interleave freely, and a failure or a crash  *)
(* leaves the statements before it in force.  DeleteAccount is one         *)
(* statement; its cascade removes the account's tokens.                    *)
(*                                                                         *)
(* A client app (a device) keeps the refresh token of the last answer it   *)
(* received.  Its answer can be lost, and unless it is Patient it may send *)
(* the next request before the previous one is answered.                   *)
(***************************************************************************)
EXTENDS Integers

CONSTANTS
  Emails,    \* persons: an email, its username and its identity at a provider
  Devices,   \* client apps, each keeping one session
  Handlers,  \* handler goroutines
  Patient,   \* a device waits for an answer before it sends again
  Faults,    \* statements and answers get lost, processes crash
  MaxCalls   \* model bound: requests per behaviour

ASSUME SessionAssumption ==
  /\ Emails # {}
  /\ Devices # {}
  /\ Patient \in BOOLEAN
  /\ Faults \in BOOLEAN
  /\ MaxCalls \in Nat

VARIABLES
  account,   \* beerUsers: the account of an email, 0 when there is none
  social,    \* accounts a provider's login created: their password is NULL
  owner,     \* refresh_tokens: the account of a token, 0 when there is no row
  revoked,   \* refresh_tokens.revoked
  expired,   \* tokens past expires_at
  root,      \* history: the login a token descends from
  held,      \* the refresh token a device keeps, 0 when it has none
  pc,        \* where each handler is
  job,       \* the request each handler serves
  given,     \* the token the answer will carry, 0 for an error
  numCalls   \* requests received; numbers them and what they insert

accounts == <<account, social>>
tokens == <<owner, revoked, expired, root>>
vars == <<account, social, owner, revoked, expired, root, held, pc, job, given, numCalls>>

\* The account or the token that request n inserts has the number n (the code
\* generates UUIDs); 0 is no account, no token.
Ids == 0 .. MaxCalls

\* `late` is history: the token was already useless when the request came.
Job == [op : {"none", "register", "login", "oauth", "refresh"}, n : Ids,
        dev : Devices, email : Emails, token : Ids, acct : Ids, late : BOOLEAN]

NoJob == [op |-> "none", n |-> 0, dev |-> CHOOSE d \in Devices : TRUE,
          email |-> CHOOSE e \in Emails : TRUE, token |-> 0, acct |-> 0, late |-> FALSE]

Labels == {"idle", "find", "insert", "lookup", "reuse", "user", "revoke", "issue", "reply"}

Accounts == {account[e] : e \in Emails} \ {0}

\* The row exists, is not revoked and not past its 30 days.
Live(t) == owner[t] # 0 /\ t \notin revoked /\ t \notin expired

----------------------------------------------------------------------------
Init ==
  /\ account = [e \in Emails |-> 0]
  /\ social = {}
  /\ owner = [t \in Ids |-> 0]
  /\ revoked = {}
  /\ expired = {}
  /\ root = [t \in Ids |-> 0]
  /\ held = [d \in Devices |-> 0]
  /\ pc = [h \in Handlers |-> "idle"]
  /\ job = [h \in Handlers |-> NoJob]
  /\ given = [h \in Handlers |-> 0]
  /\ numCalls = 0

Goto(h, l) == pc' = [pc EXCEPT ![h] = l]

\* The request goes on at l about account a.
Proceed(h, a, l) ==
  /\ Goto(h, l)
  /\ job' = [job EXCEPT ![h].acct = a]
  /\ UNCHANGED <<held, given, numCalls>>

\* An error answer, carrying no token.
Refuse(h) ==
  /\ Goto(h, "reply")
  /\ UNCHANGED <<held, job, given, numCalls>>

----------------------------------------------------------------------------
(* Requests arrive.                                                        *)

MaySend(d) == Patient => \A h \in Handlers : pc[h] # "idle" => job[h].dev # d

Receive(h, d, j, l) ==
  /\ pc[h] = "idle"
  /\ MaySend(d)
  /\ numCalls < MaxCalls
  /\ numCalls' = numCalls + 1
  /\ job' = [job EXCEPT ![h] = j]
  /\ Goto(h, l)
  /\ UNCHANGED <<accounts, tokens, held, given>>

SignIn(o, d, e) == [NoJob EXCEPT !.op = o, !.n = numCalls + 1, !.dev = d, !.email = e]

ReceiveSignIn(h, d) ==
  \E o \in {"register", "login", "oauth"}, e \in Emails :
    Receive(h, d, SignIn(o, d, e), "find")

\* POST /auth/refresh with the token the device keeps.
ReceiveRefresh(h, d) ==
  /\ held[d] # 0
  /\ Receive(h, d, [NoJob EXCEPT !.op = "refresh", !.n = numCalls + 1, !.dev = d,
                                 !.token = held[d], !.late = ~Live(held[d])], "lookup")

----------------------------------------------------------------------------
(* Register, Login and OAuthLogin.                                         *)

\* GetByEmail: a known email is refused; an account without a password makes
\* the scan fail, which is refused as well.
FindRegister(h) ==
  /\ job[h].op = "register"
  /\ IF account[job[h].email] = 0 THEN Proceed(h, 0, "insert") ELSE Refuse(h)
  /\ UNCHANGED <<accounts, tokens>>

\* Mutant: ErrUserNotFound is not an early return.
FindLogin_NotFoundIgnored(h) ==
  /\ job[h].op = "login"
  /\ LET a == account[job[h].email] IN
       \/ a \notin social /\ Proceed(h, a, "issue")
       \/ Refuse(h)
  /\ UNCHANGED <<accounts, tokens>>

\* GetByEmail and the password, right or wrong.
FindLogin(h) ==
  /\ job[h].op = "login"
  /\ LET a == account[job[h].email] IN
       \/ a \notin social \union {0} /\ Proceed(h, a, "issue")
       \/ Refuse(h)
  /\ UNCHANGED <<accounts, tokens>>

\* UpsertByExternal: one statement finds or creates the provider's account;
\* an email that has a password account violates UNIQUE (email).
FindOAuth(h) ==
  /\ job[h].op = "oauth"
  /\ LET e == job[h].email IN
       \/ /\ account[e] = 0
          /\ account' = [account EXCEPT ![e] = job[h].n]
          /\ social' = social \union {job[h].n}
          /\ Proceed(h, job[h].n, "issue")
       \/ account[e] \in social /\ Proceed(h, account[e], "issue") /\ UNCHANGED accounts
       \/ account[e] \notin social \union {0} /\ Refuse(h) /\ UNCHANGED accounts
  /\ UNCHANGED tokens

Find(h) ==
  /\ pc[h] = "find"
  /\ FindRegister(h) \/ FindLogin(h) \/ FindOAuth(h)

\* Create: of two registrations that both found no account, UNIQUE (email)
\* lets one insert.  The answer carries no token either way.
Insert(h) ==
  /\ pc[h] = "insert"
  /\ account' = [account EXCEPT ![job[h].email] = IF @ = 0 THEN job[h].n ELSE @]
  /\ Refuse(h)
  /\ UNCHANGED <<social, tokens>>

----------------------------------------------------------------------------
(* RefreshTokens.                                                          *)

\* Mutant: the expiry is not tested.
Lookup_NoExpiry(h) ==
  /\ pc[h] = "lookup"
  /\ LET t == job[h].token IN
       \/ owner[t] = 0 /\ Refuse(h)
       \/ owner[t] # 0 /\ t \in revoked /\ Proceed(h, owner[t], "reuse")
       \/ owner[t] # 0 /\ t \notin revoked /\ Proceed(h, owner[t], "user")
  /\ UNCHANGED <<accounts, tokens>>

\* GetRefreshTokenByHash, then the tests on the row that was read.
Lookup(h) ==
  /\ pc[h] = "lookup"
  /\ LET t == job[h].token IN
       \/ owner[t] = 0 /\ Refuse(h)
       \/ owner[t] # 0 /\ t \in revoked /\ Proceed(h, owner[t], "reuse")
       \/ owner[t] # 0 /\ t \notin revoked /\ t \in expired /\ Refuse(h)
       \/ Live(t) /\ Proceed(h, owner[t], "user")
  /\ UNCHANGED <<accounts, tokens>>

\* RevokeAllRefreshTokens; the answer is 401 even when the statement fails.
RevokeAll(h) ==
  /\ pc[h] = "reuse"
  /\ revoked' = revoked \union {t \in Ids : owner[t] = job[h].acct}
  /\ Refuse(h)
  /\ UNCHANGED <<accounts, owner, expired, root>>

\* GetByID for the role of the new pair.
GetUser(h) ==
  /\ pc[h] = "user"
  /\ IF job[h].acct \in Accounts THEN Proceed(h, job[h].acct, "revoke") ELSE Refuse(h)
  /\ UNCHANGED <<accounts, tokens>>

\* Mutant: the WHERE clause forgets token_hash.
MarkRevoked_AllOfUser(h) ==
  revoked' = revoked \union {t \in Ids : owner[t] = job[h].acct}

\* Mutant: the two arguments of the statement are swapped, no row matches.
MarkRevoked_NoRow(h) == UNCHANGED revoked

\* UPDATE ... SET revoked = true WHERE user_id AND token_hash.
MarkRevoked(h) ==
  revoked' = revoked \union {t \in {job[h].token} : owner[t] = job[h].acct}

\* RevokeRefreshToken: how many rows it changed is not looked at, nor whether
\* the token was revoked already.
Revoke(h) ==
  /\ pc[h] = "revoke"
  /\ MarkRevoked(h)
  /\ Proceed(h, job[h].acct, "issue")
  /\ UNCHANGED <<accounts, owner, expired, root>>

RevokeUnacknowledged(h) ==
  /\ Faults
  /\ pc[h] = "revoke"
  /\ MarkRevoked(h)
  /\ Refuse(h)
  /\ UNCHANGED <<accounts, owner, expired, root>>

----------------------------------------------------------------------------
(* issueTokenPair.                                                         *)

\* Mutant: no foreign key.
InsertToken_NoForeignKey(h) ==
  /\ owner' = [owner EXCEPT ![job[h].n] = job[h].acct]
  /\ root' = [root EXCEPT ![job[h].n] =
                IF job[h].op = "refresh" THEN root[job[h].token] ELSE job[h].n]
  /\ UNCHANGED <<accounts, revoked, expired>>

\* The row of a new token; user_id references beerUsers (id).
InsertToken(h) ==
  /\ job[h].acct \in Accounts
  /\ owner' = [owner EXCEPT ![job[h].n] = job[h].acct]
  /\ root' = [root EXCEPT ![job[h].n] =
                IF job[h].op = "refresh" THEN root[job[h].token] ELSE job[h].n]
  /\ UNCHANGED <<accounts, revoked, expired>>

Issue(h) ==
  /\ pc[h] = "issue"
  /\ InsertToken(h)
  /\ given' = [given EXCEPT ![h] = job[h].n]
  /\ Goto(h, "reply")
  /\ UNCHANGED <<held, job, numCalls>>

\* The account is gone, so the foreign key refuses the row.
IssueRefused(h) ==
  /\ pc[h] = "issue"
  /\ job[h].acct \notin Accounts
  /\ Refuse(h)
  /\ UNCHANGED <<accounts, tokens>>

\* Inserted, but the acknowledgement is lost: the repeated INSERT violates the
\* primary key, and nobody learns the token.
IssueUnacknowledged(h) ==
  /\ Faults
  /\ pc[h] = "issue"
  /\ InsertToken(h)
  /\ Refuse(h)

----------------------------------------------------------------------------
(* Answers, failures, time.                                                *)

Rest(h) ==
  /\ Goto(h, "idle")
  /\ job' = [job EXCEPT ![h] = NoJob]
  /\ given' = [given EXCEPT ![h] = 0]
  /\ UNCHANGED <<accounts, tokens, numCalls>>

Reply(h) ==
  /\ pc[h] = "reply"
  /\ held' = [held EXCEPT ![job[h].dev] = IF given[h] = 0 THEN @ ELSE given[h]]
  /\ Rest(h)

AnswerLost(h) ==
  /\ Faults
  /\ pc[h] = "reply"
  /\ Rest(h)
  /\ UNCHANGED held

\* A statement has no effect and its error ends the request.
StatementFails(h) ==
  /\ Faults
  /\ pc[h] \notin {"idle", "reply"}
  /\ Refuse(h)
  /\ UNCHANGED <<accounts, tokens>>

\* The process dies; what was committed stays.
Crash ==
  /\ Faults
  /\ pc' = [h \in Handlers |-> "idle"]
  /\ job' = [h \in Handlers |-> NoJob]
  /\ given' = [h \in Handlers |-> 0]
  /\ UNCHANGED <<accounts, tokens, held, numCalls>>

\* DELETE FROM beerUsers, by the account itself or an administrator; the
\* account's tokens go with it (ON DELETE CASCADE).
DeleteAccount(e) ==
  /\ account[e] # 0
  /\ account' = [account EXCEPT ![e] = 0]
  /\ owner' = [t \in Ids |-> IF owner[t] = account[e] THEN 0 ELSE owner[t]]
  /\ UNCHANGED <<social, revoked, expired, root, held, pc, job, given, numCalls>>

\* IsExpired becomes true of a token.
Expire(t) ==
  /\ Live(t)
  /\ expired' = expired \union {t}
  /\ UNCHANGED <<accounts, owner, revoked, root, held, pc, job, given, numCalls>>

----------------------------------------------------------------------------
Serve(h) ==
  \/ Find(h)
  \/ Insert(h)
  \/ Lookup(h)
  \/ RevokeAll(h)
  \/ GetUser(h)
  \/ Revoke(h)
  \/ RevokeUnacknowledged(h)
  \/ Issue(h)
  \/ IssueRefused(h)
  \/ IssueUnacknowledged(h)
  \/ Reply(h)
  \/ AnswerLost(h)
  \/ StatementFails(h)

Next ==
  \/ \E h \in Handlers, d \in Devices : ReceiveSignIn(h, d) \/ ReceiveRefresh(h, d)
  \/ \E h \in Handlers : Serve(h)
  \/ \E e \in Emails : DeleteAccount(e)
  \/ \E t \in Ids : Expire(t)
  \/ Crash

Spec == Init /\ [][Next]_vars

----------------------------------------------------------------------------
\* Every variable holds values of its kind, no device keeps a token that was
\* not issued, and a request that got past its lookup is about an account.
TypeOK ==
  /\ account \in [Emails -> Ids]
  /\ social \subseteq Ids \ {0}
  /\ owner \in [Ids -> Ids]
  /\ revoked \subseteq Ids
  /\ expired \subseteq Ids
  /\ root \in [Ids -> Ids]
  /\ held \in [Devices -> Ids]
  /\ pc \in [Handlers -> Labels]
  /\ job \in [Handlers -> Job]
  /\ given \in [Handlers -> Ids]
  /\ numCalls \in Ids
  /\ \A d \in Devices : held[d] <= numCalls
  /\ \A h \in Handlers :
       pc[h] \in {"reuse", "user", "revoke", "issue"} => job[h].acct # 0

\* No refresh token outlives its account: neither one that existed when the
\* account was deleted nor one a rotation or a login in flight inserts after.
NoOrphanTokens == \A t \in Ids : owner[t] # 0 => owner[t] \in Accounts

\* A refresh that arrives with a token which is by then revoked, expired or
\* deleted with its account never yields a pair, whatever happens between its
\* statements: registering the email again, a rotation of the same session, a
\* crash and a retry do not bring a dead token back.
DeadOnArrivalIsRefused == \A h \in Handlers : job[h].late => given[h] = 0

\* However often a session is renewed, interrupted and retried, its login has
\* at most one usable refresh token: the old one is dead before the new one
\* exists.
OneLivePerLogin ==
  \A s, t \in Ids : Live(s) /\ Live(t) /\ root[s] = root[t] => s = t

\* A device that sends one request at a time and loses no answer is never
\* taken for a thief: while its account exists, the token it keeps between its
\* requests is not revoked, whatever the other devices of the account do.
SessionsSurvive ==
  \A d \in Devices :
    owner[held[d]] # 0 /\ (\A h \in Handlers : pc[h] # "idle" => job[h].dev # d)
      => held[d] \notin revoked
=============================================================================
