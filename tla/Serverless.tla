----------------------------- MODULE Serverless -----------------------------
(***************************************************************************)
(* One serverless instance: Handler of api/main.go and TryInitDB of        *)
(* internal/app/serverless.go.  The instance starts with a router that has *)
(* no database; the first request that needs one opens the pool and swaps  *)
(* the router, under initMu.  BuildRouter pings the database again for each*)
(* repository and seeds the administrator, without a timeout; a repository *)
(* whose ping fails stays nil in the new router.                           *)
(***************************************************************************)
EXTENDS Integers

CONSTANTS
  Requests,     \* requests of the life of the instance
  None

VARIABLES
  dsn,          \* the instance's environment names a database
  up,           \* the database answers
  pools,        \* pools that were opened and not closed
  current,      \* the router: its pool, or None, and whether its repositories work
  initMu,       \* who holds it
  where,        \* where each request is
  static,       \* the requests whose path needs no database
  opened,       \* the pool a request has opened
  status

slotVars == <<dsn, up, pools, current, initMu, where, static, opened, status>>

Init ==
  /\ dsn \in BOOLEAN /\ up \in BOOLEAN
  /\ pools = {}
  /\ current = [pool |-> None, works |-> FALSE]
  /\ initMu = None
  /\ where = [r \in Requests |-> "new"]
  /\ static \in SUBSET Requests
  /\ opened = [r \in Requests |-> None]
  /\ status = [r \in Requests |-> 0]

\* The database, or the way to it, fails and recovers.
Toggle == up' = ~up /\ UNCHANGED <<dsn, pools, current, initMu, where, static, opened, status>>

HasDB == current.pool # None

Goto(r, l) == where' = [where EXCEPT ![r] = l]

Reply(r, s) == Goto(r, "answered") /\ status' = [status EXCEPT ![r] = s]

\* Mutant: the static routes are told apart after the lock only.
NeedsDB_Always(r) == TRUE

NeedsDB(r) == r \notin static

\* Handler up to initMu.Lock: the fast path, the static routes, and 503 for the
\* others without a DSN.
Arrive(r) ==
  /\ where[r] = "new"
  /\ \/ (HasDB \/ ~NeedsDB(r)) /\ Goto(r, "serve") /\ UNCHANGED status
     \/ ~HasDB /\ NeedsDB(r) /\ dsn /\ Goto(r, "lock") /\ UNCHANGED status
     \/ ~HasDB /\ NeedsDB(r) /\ ~dsn /\ Reply(r, 503)
  /\ UNCHANGED <<dsn, up, pools, current, initMu, static, opened>>

\* Mutant: the router is not looked at again under the lock.
SwappedMeanwhile_Unseen == FALSE

SwappedMeanwhile == HasDB

Lock(r) ==
  /\ where[r] = "lock" /\ initMu = None
  /\ IF SwappedMeanwhile
     THEN Goto(r, "serve") /\ UNCHANGED initMu
     ELSE Goto(r, "open") /\ initMu' = r
  /\ UNCHANGED <<dsn, up, pools, current, static, opened, status>>

\* TryInitDB within 5 seconds: the pool stays open if the ping succeeds; a slow
\* database or a client that has left make it fail as well.
TryInitDB(r) ==
  /\ where[r] = "open"
  /\ \/ up /\ opened' = [opened EXCEPT ![r] = r] /\ pools' = pools \union {r} /\ Goto(r, "build")
           /\ UNCHANGED <<initMu, status>>
     \/ initMu' = None /\ Reply(r, 503) /\ UNCHANGED <<opened, pools>>
  /\ UNCHANGED <<dsn, up, current, static>>

\* BuildRouter, then the swap: the repositories work if their pings succeed.
Swap(r) ==
  /\ where[r] = "build"
  /\ current' = [pool |-> opened[r], works |-> up]
  /\ initMu' = None
  /\ Goto(r, "serve")
  /\ UNCHANGED <<dsn, up, pools, static, opened, status>>

\* The router that is current when it is asked; without working repositories a
\* data route answers 503.  (A pool that works may still fail: 500.)
Serve(r) ==
  /\ where[r] = "serve"
  /\ Reply(r, IF r \in static THEN 200
              ELSE IF ~current.works THEN 503
              ELSE IF up THEN 200 ELSE 500)
  /\ UNCHANGED <<dsn, up, pools, current, initMu, static, opened>>

Handle(r) == Arrive(r) \/ Lock(r) \/ TryInitDB(r) \/ Swap(r) \/ Serve(r)

Next == Toggle \/ \E r \in Requests : Handle(r)

Spec == Init /\ [][Next]_slotVars

\* BuildRouter may wait for the database for ever; nothing else does.
Fairness == \A r \in Requests : WF_slotVars(TryInitDB(r) \/ Serve(r))

----------------------------------------------------------------------------
(* Properties.                                                             *)

TypeOK ==
  /\ dsn \in BOOLEAN /\ up \in BOOLEAN /\ static \subseteq Requests /\ pools \subseteq Requests
  /\ current \in [pool : Requests \union {None}, works : BOOLEAN]
  /\ initMu \in Requests \union {None}
  /\ where \in [Requests -> {"new", "lock", "open", "build", "serve", "answered"}]
  /\ opened \in [Requests -> Requests \union {None}]
  /\ status \in [Requests -> {0, 200, 500, 503}]

\* The instance never keeps more than one pool, and none that its router does not
\* use once nobody is opening one: no request of a cold start leaks connections.
OnePool ==
  /\ \A p, q \in pools : p = q
  /\ initMu = None => pools \subseteq {current.pool}

\* A static route is answered even while a cold start hangs in BuildRouter with
\* initMu held and every data request waits for it.
StaticNeverWaits ==
  \A r \in Requests : r \in static /\ where[r] # "new" ~> where[r] = "answered"
=============================================================================
