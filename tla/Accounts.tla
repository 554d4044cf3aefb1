------------------------------ MODULE Accounts ------------------------------
(***************************************************************************)
(* Accounts and what is done with an access token: internal/user/usecase/  *)
(* user_usecase.go over internal/user/repository/user_repository.go, behind*)
(* the middleware of pkg/middleware/auth.go.  (Refresh tokens and their    *)
(* rotation are module Sessions.)                                          *)
(*                                                                         *)
(* A request is admitted at one moment (its token is verified, and nobody  *)
(* looks at the table for that) and its statements run later: whatever     *)
(* happens in between is seen by the statement only.  A refused request    *)
(* changes nothing and is left out.  Usernames are left out; an account is *)
(* its email, and its ids are never used again (UUIDv7).                   *)
(***************************************************************************)
EXTENDS Integers, FiniteSets

CONSTANTS
  Emails,
  AdminEmail,   \* ADMIN_EMAIL
  Identities,   \* `sub` claims of the identity providers
  Endpoints,    \* push endpoints of browsers
  Workers,      \* goroutines: request handlers, and SeedAdmin of an instance
  TokenTTL,     \* accessTokenTTL
  LastHour,     \* model bound: the clock
  MaxAsks,      \* model bound: requests per behaviour
  NoIdentity    \* external_sub IS NULL: an account with a password

VARIABLES
  rows,         \* table beerUsers
  subs,         \* table push_subscriptions
  stamp,        \* the last updated_at, and the last id, given
  tokens,       \* access tokens in the hands of clients
  today,
  step, ask,    \* where each worker is and what it was asked
  copies,       \* the profiles a client has stored with their ETags
  asks,
  seeded,       \* accounts SeedAdmin created or set out to promote (not part of the program)
  gone          \* deleted accounts and when (not part of the program)

accountVars == <<rows, subs, stamp, tokens, today, step, ask, copies, asks, seeded, gone>>

Ids == 1 .. 2 + MaxAsks

Users == [id : Ids, email : Emails, role : {"user", "admin"},
          identity : Identities \union {NoIdentity}, updatedAt : Nat]

Jobs == [op : {"register", "login", "oauth", "profile", "update", "delete", "subscribe",
               "unsubscribe", "seed"},
         by : Ids, at : 0 .. LastHour, id : Ids, email : Emails,
         role : {"user", "admin"}, identity : Identities \union {NoIdentity},
         endpoint : Endpoints]

\* At the start SeedAdmin has run once, the administrator is signed in, and
\* somebody else has an account.
Init ==
  /\ rows = {[id |-> 1, email |-> AdminEmail, role |-> "admin",
              identity |-> NoIdentity, updatedAt |-> 1],
             [id |-> 2, email |-> CHOOSE e \in Emails : e # AdminEmail, role |-> "user",
              identity |-> NoIdentity, updatedAt |-> 2]}
  /\ subs = {}
  /\ stamp = 2
  /\ tokens = {[id |-> 1, role |-> "admin", exp |-> TokenTTL]}
  /\ today = 0
  /\ step = [w \in Workers |-> "idle"]
  /\ ask = [w \in Workers |-> {}]
  /\ copies = {}
  /\ asks = 0
  /\ seeded = {1}
  /\ gone = {}

Tick ==
  /\ today < LastHour
  /\ today' = today + 1
  /\ UNCHANGED <<rows, subs, stamp, tokens, step, ask, copies, asks, seeded, gone>>

Exists(id) == \E r \in rows : r.id = id
Taken(email, id) == \E r \in rows : r.email = email /\ r.id # id

----------------------------------------------------------------------------
(* Middleware.                                                             *)

\* ValidateToken: signed by this server, of this issuer, not expired.
Valid(t) == today < t.exp

\* requireUserAccess: administrators may touch anybody's account.
Allowed(t, id) == t.role = "admin" \/ t.id = id

Admit(w, j, l) ==
  /\ step[w] = "idle"
  /\ asks < MaxAsks
  /\ asks' = asks + 1
  /\ ask' = [ask EXCEPT ![w] = {j}]
  /\ step' = [step EXCEPT ![w] = l]
  /\ UNCHANGED <<rows, subs, stamp, tokens, today, copies, seeded, gone>>

\* A request; fields that its operation has no use for stay as here.
Ask(op, by, id) ==
  [op |-> op, by |-> by, at |-> today, id |-> id, email |-> AdminEmail, role |-> "user",
   identity |-> NoIdentity, endpoint |-> CHOOSE p \in Endpoints : TRUE]

\* POST /users/register: the body is decoded into a User and may carry a role.
AskRegister(w) ==
  \E e \in Emails, r \in {"user", "admin"} :
    Admit(w, [Ask("register", 1, 1) EXCEPT !.email = e, !.role = r], "find")

AskLogin(w) == \E e \in Emails : Admit(w, [Ask("login", 1, 1) EXCEPT !.email = e], "find")

\* POST /oauth: the provider says which email the identity has today.
AskOAuth(w) ==
  \E s \in Identities, e \in Emails :
    Admit(w, [Ask("oauth", 1, 1) EXCEPT !.identity = s, !.email = e], "find")

\* SeedAdmin of an instance that starts.
AskSeed(w) == Admit(w, Ask("seed", 1, 1), "find")

\* GET and DELETE /users/{id}.
AskAccount(w) ==
  \E t \in tokens, id \in 1 .. stamp, op \in {"profile", "delete"} :
    Valid(t) /\ Allowed(t, id) /\ Admit(w, Ask(op, t.id, id), "run")

\* PUT /users/{id}: the controller empties id and role of the body.
AskUpdate(w) ==
  \E t \in tokens, id \in 1 .. stamp, e \in Emails :
    /\ Valid(t) /\ Allowed(t, id)
    /\ Admit(w, [Ask("update", t.id, id) EXCEPT !.email = e], "run")

\* POST /users/{id}/push/subscribe and /push/unsubscribe.
AskPush(w) ==
  \E t \in tokens, id \in 1 .. stamp, p \in Endpoints, op \in {"subscribe", "unsubscribe"} :
    /\ Valid(t) /\ Allowed(t, id)
    /\ Admit(w, [Ask(op, t.id, id) EXCEPT !.endpoint = p], "run")

----------------------------------------------------------------------------
(* Statements.                                                             *)

Answer(w) ==
  /\ step' = [step EXCEPT ![w] = "idle"]
  /\ ask' = [ask EXCEPT ![w] = {}]
  /\ UNCHANGED <<today, asks>>

\* The usecase goes on with what it read.
GoOn(w, j) ==
  /\ step' = [step EXCEPT ![w] = "run"]
  /\ ask' = [ask EXCEPT ![w] = {j}]
  /\ UNCHANGED <<today, asks>>

\* Mutant: the account is created as the body says.
NewUser_AsAsked(j, role) ==
  [id |-> stamp + 1, email |-> j.email, role |-> j.role, identity |-> j.identity,
   updatedAt |-> stamp + 1]

\* INSERT INTO beerUsers: with the role the usecase gives, whatever the body said.
NewUser(j, role) ==
  [id |-> stamp + 1, email |-> j.email, role |-> role, identity |-> j.identity,
   updatedAt |-> stamp + 1]

Insert(r) ==
  /\ ~Taken(r.email, r.id)
  /\ rows' = rows \union {r}
  /\ stamp' = stamp + 1

\* Mutant: UPDATE without the trigger on updated_at.
Edited_NoTrigger(r, email) == [r EXCEPT !.email = email]

\* UPDATE beerUsers SET username, email; trg_beerUsers_updated_at does the rest.
Edited(r, email) == [r EXCEPT !.email = email, !.updatedAt = stamp + 1]

\* Nothing when UNIQUE (email) or a missing row makes the statement fail.
Edit(id, email) ==
  LET mine == {r \in rows : r.id = id}
  IN IF mine = {} \/ Taken(email, id)
     THEN UNCHANGED <<rows, stamp>>
     ELSE /\ rows' = (rows \ mine) \union {Edited(r, email) : r \in mine}
          /\ stamp' = stamp + 1

\* Register: GetByEmail, then Create with role user.
FindRegister(w, j) ==
  /\ j.op = "register"
  /\ IF \E r \in rows : r.email = j.email THEN Answer(w) ELSE GoOn(w, j)
  /\ UNCHANGED <<rows, subs, stamp, tokens, copies, seeded, gone>>

Create(w, j) ==
  /\ j.op = "register"
  /\ \/ Insert(NewUser(j, "user"))
     \/ Taken(j.email, 0) /\ UNCHANGED <<rows, stamp>>
  /\ Answer(w)
  /\ UNCHANGED <<subs, tokens, copies, seeded, gone>>

\* Login: GetByEmail and the password.
FindLogin(w, j) ==
  /\ j.op = "login"
  /\ \/ \E r \in rows :
          /\ r.email = j.email /\ r.identity = NoIdentity
          /\ GoOn(w, [j EXCEPT !.id = r.id, !.role = r.role])
     \/ Answer(w)
  /\ UNCHANGED <<rows, subs, stamp, tokens, copies, seeded, gone>>

Conflicts(j) == {r \in rows : r.identity = j.identity}

\* OAuthLogin: UpsertByExternal keeps id and role and takes the email given.
Upsert(w, j) ==
  /\ j.op = "oauth"
  /\ \/ /\ Conflicts(j) = {}
        /\ Insert(NewUser(j, "user"))
        /\ GoOn(w, [j EXCEPT !.id = stamp + 1, !.role = "user"])
     \/ \E r \in Conflicts(j) :
          /\ ~Taken(j.email, r.id)
          /\ Edit(r.id, j.email)
          /\ GoOn(w, [j EXCEPT !.id = r.id, !.role = r.role])
     \/ /\ \E r \in rows : r.email = j.email /\ r \notin Conflicts(j)
        /\ Answer(w)
        /\ UNCHANGED <<rows, stamp>>
  /\ UNCHANGED <<subs, tokens, copies, seeded, gone>>

\* Mutant: the pair is handed out although storing the refresh token failed.
Storable_Always(id) == TRUE

\* INSERT INTO refresh_tokens: its foreign key wants the account.
Storable(id) == Exists(id)

\* issueTokenPair: the access token is answered if the refresh token is stored.
Issue(w, j) ==
  /\ j.op \in {"login", "oauth"}
  /\ tokens' = IF Storable(j.id)
               THEN tokens \union {[id |-> j.id, role |-> j.role, exp |-> today + TokenTTL]}
               ELSE tokens
  /\ Answer(w)
  /\ UNCHANGED <<rows, subs, stamp, copies, seeded, gone>>

\* SeedAdmin: a transaction, but at READ COMMITTED and without FOR UPDATE.
FindSeed(w, j) ==
  /\ j.op = "seed"
  /\ \/ \E r \in rows : r.email = AdminEmail /\ r.role = "admin" /\ Answer(w)
     \/ \E r \in rows : r.email = AdminEmail /\ r.role = "user" /\ GoOn(w, [j EXCEPT !.id = r.id])
     \/ ~Taken(AdminEmail, 0) /\ GoOn(w, [j EXCEPT !.role = "admin"])
  /\ UNCHANGED <<rows, subs, stamp, tokens, copies, seeded, gone>>

\* The administrator is created; or the account found is "promoted", which writes
\* back the email that was read and no role.
Seed(w, j) ==
  /\ j.op = "seed"
  /\ \/ j.role = "admin" /\ Insert(NewUser(j, "admin")) /\ seeded' = seeded \union {stamp + 1}
     \/ j.role = "admin" /\ Taken(AdminEmail, 0) /\ UNCHANGED <<rows, stamp, seeded>>
     \/ /\ j.role = "user" /\ Edit(j.id, AdminEmail)
        /\ seeded' = IF Exists(j.id) THEN seeded \union {j.id} ELSE seeded
  /\ Answer(w)
  /\ UNCHANGED <<subs, tokens, copies, gone>>

----------------------------------------------------------------------------
(* Profiles.                                                               *)

\* The ETag is id ":" updated_at.
ETag(r) == <<r.id, r.updatedAt>>

\* Another copy replaces the one stored for this URL.
Stored(r) == {c \in copies : c.id # r.id} \union {r}

\* 304 when the stored copy has the ETag of the row, else the row is sent.
GetProfile(w, j) ==
  /\ j.op = "profile"
  /\ \/ \E r \in rows :
          /\ r.id = j.id
          /\ copies' = IF \E c \in copies : ETag(c) = ETag(r) THEN copies ELSE Stored(r)
     \/ ~Exists(j.id) /\ UNCHANGED copies
  /\ Answer(w)
  /\ UNCHANGED <<rows, subs, stamp, tokens, seeded, gone>>

UpdateProfile(w, j) ==
  /\ j.op = "update"
  /\ Edit(j.id, j.email)
  /\ Answer(w)
  /\ UNCHANGED <<subs, tokens, copies, seeded, gone>>

\* beer_reports.resolved_by refers to its account without ON DELETE: PostgreSQL
\* refuses to delete an administrator who has resolved a report.
MayBeReferred(id) == \E r \in rows : r.id = id /\ r.role = "admin"

\* DELETE FROM beerUsers, whose other foreign keys cascade.
Delete(w, j) ==
  /\ j.op = "delete"
  /\ \/ /\ rows' = {r \in rows : r.id # j.id}
        /\ subs' = {s \in subs : s.user # j.id}
        /\ gone' = IF Exists(j.id) THEN gone \union {[id |-> j.id, at |-> today]} ELSE gone
     \/ MayBeReferred(j.id) /\ UNCHANGED <<rows, subs, gone>>
  /\ Answer(w)
  /\ UNCHANGED <<stamp, tokens, copies, seeded>>

----------------------------------------------------------------------------
(* Push subscriptions.                                                     *)

\* INSERT ... ON CONFLICT (user_id, endpoint) DO UPDATE; the key needs the account.
Subscribe(w, j) ==
  /\ j.op = "subscribe"
  /\ subs' = IF Exists(j.id) THEN subs \union {[user |-> j.id, endpoint |-> j.endpoint]} ELSE subs
  /\ Answer(w)
  /\ UNCHANGED <<rows, stamp, tokens, copies, seeded, gone>>

Unsubscribed(j) == {s \in subs : s.user = j.id /\ s.endpoint = j.endpoint}

Unsubscribe(w, j) ==
  /\ j.op = "unsubscribe"
  /\ subs' = subs \ Unsubscribed(j)
  /\ Answer(w)
  /\ UNCHANGED <<rows, stamp, tokens, copies, seeded, gone>>

----------------------------------------------------------------------------
Find(w, j) ==
  /\ step[w] = "find"
  /\ \/ FindRegister(w, j) \/ FindLogin(w, j) \/ FindSeed(w, j) \/ Upsert(w, j)

Run(w, j) ==
  /\ step[w] = "run"
  /\ \/ Create(w, j) \/ Issue(w, j) \/ Seed(w, j) \/ GetProfile(w, j)
     \/ UpdateProfile(w, j) \/ Delete(w, j) \/ Subscribe(w, j) \/ Unsubscribe(w, j)

Next ==
  \/ Tick
  \/ \E w \in Workers :
       \/ AskRegister(w) \/ AskLogin(w) \/ AskOAuth(w) \/ AskSeed(w) \/ AskAccount(w)
       \/ AskUpdate(w) \/ AskPush(w)
       \/ \E j \in ask[w] : Find(w, j) \/ Run(w, j)

Spec == Init /\ [][Next]_accountVars

----------------------------------------------------------------------------
(* Properties.                                                             *)

TypeOK ==
  /\ rows \subseteq Users /\ copies \subseteq Users
  /\ subs \subseteq [user : Ids, endpoint : Endpoints]
  /\ stamp \in Nat
  /\ tokens \subseteq [id : Ids, role : {"user", "admin"}, exp : TokenTTL .. LastHour + TokenTTL]
  /\ today \in 0 .. LastHour
  /\ step \in [Workers -> {"idle", "find", "run"}]
  /\ ask \in [Workers -> SUBSET Jobs] /\ \A w \in Workers : \A i, j \in ask[w] : i = j
  /\ asks \in 0 .. MaxAsks
  /\ seeded \subseteq Ids
  /\ gone \subseteq [id : Ids, at : 0 .. LastHour]

\* Worker w runs the statement of its request in this step.
Runs(w) == step[w] = "run" /\ step'[w] = "idle"

\* Nobody is an administrator, in the table or by a token, but whom SeedAdmin
\* created or chose to promote: not by the body of a registration, a profile update,
\* a social login or the email of an account that is gone.
AdminsAreSeeded ==
  /\ \A r \in rows : r.role = "admin" => r.id \in seeded
  /\ \A t \in tokens : t.role = "admin" => t.id \in seeded


\* A token dies with its account, an hour late at most: a request that was
\* admitted is from an account that existed less than TokenTTL before, even when the
\* account is deleted between the password check and the signature.
PowerOutlivesByTTL ==
  [][\A w \in Workers : \A j \in ask[w] :
       Runs(w) /\ j.op \in {"profile", "update", "delete", "subscribe", "unsubscribe"}
         => Exists(j.by) \/ \E g \in gone : g.id = j.by /\ j.at < g.at + TokenTTL]_accountVars

\* After a GET of a profile, 200 or 304, what the client holds is the profile.
ProfileIsFresh ==
  [][\A w \in Workers : \A j \in ask[w] :
       Runs(w) /\ j.op = "profile"
         => \A r \in rows : r.id = j.id
              => \E c \in copies' : c.id = r.id /\ c.email = r.email]_accountVars
=============================================================================
