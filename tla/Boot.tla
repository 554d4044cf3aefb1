-------------------------------- MODULE Boot --------------------------------
(***************************************************************************)
(* The life of the server's processes over one database: cmd/server/       *)
(* main.go with InitDB and migrateDB of internal/app/app.go and the        *)
(* migrations it runs at every start.  A deployment overlaps two of them.  *)
(*                                                                         *)
(* The 23 SQL files are four steps here, each file of which is one         *)
(* transaction (one Exec, no arguments): 000_reset; the files that create  *)
(* beerUsers and beers; use_uuid_pk; the files after it, with the row      *)
(* policies and the tables that refer to the former.  Accounts stand for   *)
(* the rows of both tables.                                                *)
(***************************************************************************)
EXTENDS Integers, Sequences, FiniteSets

CONSTANTS
  Processes,
  Keys,         \* accounts, by their email; an email is registered once
  MaxPings      \* the 5 attempts of InitDB

ASSUME BootAssumption == MaxPings \in Nat

VARIABLES
  supabase,     \* it has a schema `auth`
  schema,       \* steps whose objects exist
  policies,     \* a row policy reads beerUsers.id
  fk,           \* foreign keys of the referring tables: absent, like them, kept or lost
  users,        \* rows of beerUsers: email and id
  refs,         \* ids that rows of refresh_tokens and push_subscriptions refer to
  lastId,
  stage,        \* where each process is
  env,          \* DB_RESET_SCHEMA, and ENV where it matters
  todo,         \* migrations it has still to run
  pings,
  pool,
  inFlight,     \* it is serving a request
  given,        \* what clients were told their ids are (not part of the program)
  wiped         \* a reset ran and the schema is not complete since (not part of it)

data == <<schema, policies, fk, users, refs, lastId, given, wiped>>
process == <<stage, env, todo, pings, pool, inFlight>>
bootVars == <<supabase, data, process>>

Steps == {"tables", "uuid", "rest"}

\* DB_RESET_SCHEMA is false, or true, or true where ENV is production or prod.
Settings == {"incremental", "reset", "reset in production"}

Init ==
  /\ supabase \in BOOLEAN
  /\ schema = {} /\ policies = FALSE /\ fk = "absent"
  /\ users = {} /\ refs = {} /\ lastId = 0 /\ given = {} /\ wiped = FALSE
  /\ stage = [p \in Processes |-> "off"]
  /\ env = [p \in Processes |-> "incremental"]
  /\ todo = [p \in Processes |-> <<>>]
  /\ pings = [p \in Processes |-> 0]
  /\ pool = [p \in Processes |-> "none"]
  /\ inFlight = [p \in Processes |-> FALSE]

Goto(p, s) == stage' = [stage EXCEPT ![p] = s]

----------------------------------------------------------------------------
(* Starting.                                                               *)

\* main up to InitDB; a process with TESTING=true outside of a local environment
\* exits here and is left out.
Launch(p) ==
  /\ stage[p] = "off"
  /\ \E e \in Settings : env' = [env EXCEPT ![p] = e]
  /\ pool' = [pool EXCEPT ![p] = "open"]
  /\ Goto(p, "ping")
  /\ UNCHANGED <<supabase, data, todo, pings, inFlight>>

\* InitDB gives up: the pool is closed and the server starts without one.
NoDatabase(p) ==
  Goto(p, "build") /\ pool' = [pool EXCEPT ![p] = "none"] /\ todo' = [todo EXCEPT ![p] = <<>>]

\* A ping succeeds or not; the database may fail at any time.
Ping(p) ==
  /\ stage[p] = "ping"
  /\ \/ Goto(p, "guard") /\ pings' = [pings EXCEPT ![p] = 0] /\ UNCHANGED <<pool, todo>>
     \/ /\ pings[p] + 1 < MaxPings
        /\ pings' = [pings EXCEPT ![p] = @ + 1]
        /\ UNCHANGED <<stage, pool, todo>>
     \/ pings[p] + 1 = MaxPings /\ pings' = [pings EXCEPT ![p] = 0] /\ NoDatabase(p)
  /\ UNCHANGED <<supabase, data, env, inFlight>>

\* guardDestructiveResetInProduction.
Forbidden(p) == env[p] = "reset in production"

\* migrateDB: the guard panics, or the files are listed.
Guard(p) ==
  /\ stage[p] = "guard"
  /\ IF Forbidden(p)
     THEN Goto(p, "exited") /\ pool' = [pool EXCEPT ![p] = "none"] /\ UNCHANGED todo
     ELSE /\ Goto(p, "migrate")
          /\ todo' = [todo EXCEPT ![p] = IF env[p] = "incremental"
                                        THEN <<"tables", "uuid", "rest">>
                                        ELSE <<"reset", "tables", "uuid", "rest">>]
          /\ UNCHANGED pool
  /\ UNCHANGED <<supabase, data, env, pings, inFlight>>

\* 000_reset.sql: DROP ... CASCADE of every table but refresh_tokens and
\* push_subscriptions, whose foreign keys go with beerUsers.
Reset ==
  /\ schema' = {} /\ policies' = FALSE
  /\ fk' = IF fk = "absent" THEN fk ELSE "lost"
  /\ users' = {} /\ wiped' = TRUE
  /\ UNCHANGED <<refs, lastId, given>>

\* CREATE TABLE IF NOT EXISTS.
Tables == schema' = schema \union {"tables"}
          /\ UNCHANGED <<policies, fk, users, refs, lastId, given, wiped>>

\* Mutant: the rewritten keys are not checked against the tables that refer to them.
Blocked_Never == FALSE

\* PostgreSQL refuses to change the type of a column that a policy reads, and to
\* rewrite a key that rows refer to with values they do not have.
Blocked == policies \/ (fk = "kept" /\ refs # {})

\* use_uuid_pk.sql: ALTER COLUMN id SET DATA TYPE UUID USING gen_random_uuid().
Uuid ==
  /\ "tables" \in schema /\ ~Blocked
  /\ schema' = schema \union {"uuid"}
  /\ \E f \in [users -> lastId + 1 .. lastId + Cardinality(users)] :
       /\ \A u, v \in users : u # v => f[u] # f[v]
       /\ users' = {[key |-> u.key, id |-> f[u]] : u \in users}
  /\ lastId' = lastId + Cardinality(users)
  /\ UNCHANGED <<policies, fk, refs, given, wiped>>

\* enable_rls.sql, and referring tables with keys if they do not exist yet.
Rest ==
  /\ "uuid" \in schema
  /\ schema' = schema \union {"rest"}
  /\ policies' = supabase
  /\ fk' = IF fk = "absent" THEN "kept" ELSE fk
  /\ wiped' = FALSE
  /\ UNCHANGED <<users, refs, lastId, given>>

Run(step) ==
  CASE step = "reset" -> Reset [] step = "tables" -> Tables
    [] step = "uuid"  -> Uuid  [] step = "rest"   -> Rest

\* Mutant: a file that fails is logged and the next one is run.
AfterFailure_Next(p) == Goto(p, "migrate") /\ todo' = [todo EXCEPT ![p] = Tail(@)] /\ UNCHANGED pool

AfterFailure(p) == NoDatabase(p)

\* executeSQLFile, or its failure.
Migrate(p) ==
  /\ stage[p] = "migrate"
  /\ \/ /\ todo[p] = <<>>
        /\ Goto(p, "build")
        /\ UNCHANGED <<data, todo, pool>>
     \/ /\ todo[p] # <<>>
        /\ Run(Head(todo[p]))
        /\ todo' = [todo EXCEPT ![p] = Tail(@)]
        /\ UNCHANGED <<stage, pool>>
     \/ /\ todo[p] # <<>>
        /\ AfterFailure(p)
        /\ UNCHANGED data
  /\ UNCHANGED <<supabase, env, pings, inFlight>>

\* BuildRouter and ListenAndServe, with or without a database.
Build(p) ==
  /\ stage[p] = "build"
  /\ Goto(p, "serving")
  /\ UNCHANGED <<supabase, data, env, todo, pings, pool, inFlight>>

----------------------------------------------------------------------------
(* Serving.                                                                *)

Accept(p) ==
  /\ stage[p] = "serving" /\ ~inFlight[p]
  /\ inFlight' = [inFlight EXCEPT ![p] = TRUE]
  /\ UNCHANGED <<supabase, data, stage, env, todo, pings, pool>>

Works(p) == pool[p] = "open" /\ schema = Steps

\* POST /users/register, a login (which stores a refresh token), or a failure.
Handle(p) ==
  /\ inFlight[p]
  /\ \/ /\ Works(p)
        /\ \E k \in Keys \ {g.key : g \in given} :
             /\ users' = users \union {[key |-> k, id |-> lastId + 1]}
             /\ given' = given \union {[key |-> k, id |-> lastId + 1]}
        /\ lastId' = lastId + 1
        /\ UNCHANGED <<schema, policies, fk, refs, wiped>>
     \/ /\ Works(p)
        /\ \E u \in users : refs' = refs \union {u.id}
        /\ UNCHANGED <<schema, policies, fk, users, lastId, given, wiped>>
     \/ UNCHANGED data
  /\ inFlight' = [inFlight EXCEPT ![p] = FALSE]
  /\ UNCHANGED <<supabase, stage, env, todo, pings, pool>>

----------------------------------------------------------------------------
(* Stopping.                                                               *)

\* SIGINT or SIGTERM, once main listens to them.
Signal(p) ==
  /\ stage[p] = "serving"
  /\ Goto(p, "drain")
  /\ UNCHANGED <<supabase, data, env, todo, pings, pool, inFlight>>

Drained(p) == ~inFlight[p]

\* Mutant: Shutdown with a context that has no deadline.
Deadline_None == FALSE

Deadline == TRUE

\* app.Shutdown (no background task is ever registered) and server.Shutdown:
\* no request is accepted any more; those being served have 10 seconds.
Drain(p) ==
  /\ stage[p] = "drain"
  /\ Drained(p) \/ Deadline
  /\ Goto(p, "close")
  /\ UNCHANGED <<supabase, data, env, todo, pings, pool, inFlight>>

\* db.Close and CloseRedis.
Close(p) ==
  /\ stage[p] = "close"
  /\ pool' = [pool EXCEPT ![p] = IF @ = "open" THEN "closed" ELSE @]
  /\ Goto(p, "closed")
  /\ UNCHANGED <<supabase, data, env, todo, pings, inFlight>>

\* The end of main, or of the process at any other time: what it was doing is
\* done or not, file by file and statement by statement.
Exit(p) ==
  /\ stage[p] \notin {"off", "exited"}
  /\ Goto(p, "exited")
  /\ pool' = [pool EXCEPT ![p] = "none"]
  /\ inFlight' = [inFlight EXCEPT ![p] = FALSE]
  /\ env' = [env EXCEPT ![p] = "incremental"]
  /\ todo' = [todo EXCEPT ![p] = <<>>]
  /\ pings' = [pings EXCEPT ![p] = 0]
  /\ UNCHANGED <<supabase, data>>

Main(p) == Ping(p) \/ Guard(p) \/ Migrate(p) \/ Build(p)
Stop(p) == Drain(p) \/ Close(p) \/ (stage[p] = "closed" /\ Exit(p))

Next ==
  \E p \in Processes :
       \/ Launch(p) \/ Main(p) \/ Accept(p) \/ Handle(p) \/ Signal(p) \/ Stop(p) \/ Exit(p)

Spec == Init /\ [][Next]_bootVars

\* main goes on; a request need not end.
Fairness == \A p \in Processes : WF_bootVars(Main(p)) /\ WF_bootVars(Stop(p))

----------------------------------------------------------------------------
(* Properties.                                                             *)

TypeOK ==
  /\ supabase \in BOOLEAN /\ policies \in BOOLEAN /\ wiped \in BOOLEAN
  /\ schema \subseteq Steps /\ fk \in {"absent", "kept", "lost"}
  /\ users \subseteq [key : Keys, id : 1 .. lastId]
  /\ given \subseteq [key : Keys, id : 1 .. lastId]
  /\ refs \subseteq 1 .. lastId /\ lastId \in Nat
  /\ stage \in [Processes -> {"off", "ping", "guard", "migrate", "build", "serving", "drain",
                             "close", "closed", "exited"}]
  /\ env \in [Processes -> Settings]
  /\ \A p \in Processes : todo[p] \in {<<>>, <<"rest">>, <<"uuid", "rest">>,
       <<"tables", "uuid", "rest">>, <<"reset", "tables", "uuid", "rest">>}
  /\ pings \in [Processes -> 0 .. MaxPings]
  /\ pool \in [Processes -> {"none", "open", "closed"}]
  /\ inFlight \in [Processes -> BOOLEAN]

\* A process with a database serves over a complete schema, whatever failed while
\* it or another was migrating, unless another one is resetting it.
ServesOnlyMigrated ==
  \A p \in Processes :
    stage[p] = "serving" /\ pool[p] = "open" => schema = Steps \/ wiped

\* A row refers to an account that exists, unless a reset has lost the foreign
\* keys: the files that run at every start do not tear the tables apart.
ReferencesHold ==
  fk = "kept" => refs \subseteq {u.id : u \in users}

\* A process that was told to stop does, however long its requests take.
StopsWhenTold ==
  \A p \in Processes : stage[p] = "drain" ~> stage[p] = "exited"

\* "apenas migrations incrementais são aplicadas" (app.go:393): an account that
\* is still there has the id its owner was given, across restarts.
IdsStand ==
  \A g \in given : \A u \in users : u.key = g.key => u.id = g.id
=============================================================================
