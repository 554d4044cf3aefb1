------------------------------ MODULE RetryDB ------------------------------
(***************************************************************************)
(* Repeated statements: retryExec of pkg/database/retry.go, which every    *)
(* ExecContext, QueryContext, ScanRowContext, BeginTx and Ping of the      *)
(* repositories goes through.  fn is the same call of *sql.DB, which has a *)
(* loop of its own: on a bad connection database/sql sends the statement   *)
(* again.  A statement may take effect and its answer be lost with the     *)
(* connection; neither loop can tell that from one that never arrived.     *)
(***************************************************************************)
EXTENDS Integers

CONSTANTS
  Calls,        \* calls of retryExec, each by a goroutine with its context
  MaxRetries,
  Resends       \* how often one fn repeats: maxBadConnRetries of database/sql

VARIABLES
  at,           \* where the call is: the loop's head, fn (conn, send), the select
  attempt,
  sends,        \* how often this attempt's fn has sent the statement
  result,       \* what was returned
  cancelled,    \* ctx.Err() # nil
  applied,      \* how often the statement took effect (not part of the program)
  late          \* sent after the context ended (not part of the program)

retryVars == <<at, attempt, sends, result, cancelled, applied, late>>

Init ==
  /\ at = [c \in Calls |-> "idle"]
  /\ attempt = [c \in Calls |-> 0]
  /\ sends = [c \in Calls |-> 0]
  /\ result = [c \in Calls |-> "none"]
  /\ cancelled = [c \in Calls |-> FALSE]
  /\ applied = [c \in Calls |-> 0]
  /\ late = [c \in Calls |-> 0]

\* A repository calls one of the wrappers.
Call(c) ==
  /\ at[c] = "idle"
  /\ at' = [at EXCEPT ![c] = "head"]
  /\ UNCHANGED <<attempt, sends, result, cancelled, applied, late>>

\* The caller's request is over: its client left or its time is up.
Cancel(c) ==
  /\ at[c] # "returned" /\ ~cancelled[c]
  /\ cancelled' = [cancelled EXCEPT ![c] = TRUE]
  /\ UNCHANGED <<at, attempt, sends, result, applied, late>>

Return(c, r) ==
  /\ at' = [at EXCEPT ![c] = "returned"]
  /\ result' = [result EXCEPT ![c] = r]
  /\ UNCHANGED attempt

\* Mutant: the context is not looked at before another attempt.
Stops_Never(c) == FALSE

Stops(c) == cancelled[c]

\* The head of the loop: attempt <= maxRetries, then ctx.Err().
Head(c) ==
  /\ at[c] = "head"
  /\ IF Stops(c)
     THEN Return(c, "cancelled")
     ELSE at' = [at EXCEPT ![c] = "conn"] /\ UNCHANGED <<attempt, result>>
  /\ UNCHANGED <<sends, cancelled, applied, late>>

\* fn takes a connection.  database/sql gives up here when the context is over, and
\* that error ends the attempts; retryExec takes any fn, so nothing below relies on
\* it.  (A connection that cannot be had shows as a send without effect.)
Connect(c) ==
  /\ at[c] = "conn"
  /\ \/ cancelled[c] /\ Return(c, "permanent")
     \/ at' = [at EXCEPT ![c] = "send"] /\ UNCHANGED <<attempt, result>>
  /\ UNCHANGED <<sends, cancelled, applied, late>>

\* Mutant: one attempt too many.
LastAttempt_OffByOne(c) == attempt[c] = MaxRetries + 1

LastAttempt(c) == attempt[c] = MaxRetries

\* A transient error: wait and try again, unless that was the last attempt.
Transient(c) ==
  IF LastAttempt(c)
  THEN Return(c, "transient")
  ELSE at' = [at EXCEPT ![c] = "select"] /\ UNCHANGED <<attempt, result>>

\* A bad connection: fn sends again, unless it has done so often enough.
BadConn(c) ==
  IF sends[c] < Resends
  THEN at' = [at EXCEPT ![c] = "conn"] /\ UNCHANGED <<attempt, result>>
  ELSE Transient(c)

\* The statement is sent: success, an error that is not transient, a bad
\* connection, or another transient one, which fn returns at once; only of a
\* success is it known that the statement took effect.
Send(c) ==
  /\ at[c] = "send"
  /\ sends' = [sends EXCEPT ![c] = @ + 1]
  /\ late' = [late EXCEPT ![c] = IF cancelled[c] THEN @ + 1 ELSE @]
  /\ \E effect \in {0, 1} :
       /\ applied' = [applied EXCEPT ![c] = @ + effect]
       /\ \/ effect = 1 /\ Return(c, "ok")
          \/ Return(c, "permanent")
          \/ BadConn(c)
          \/ Transient(c)
  /\ UNCHANGED cancelled

NextAttempt(n) == n + 1

\* select: the timer, or ctx.Done(), whichever the runtime picks if both are ready.
Select(c) ==
  /\ at[c] = "select"
  /\ \/ /\ at' = [at EXCEPT ![c] = "head"]
        /\ attempt' = [attempt EXCEPT ![c] = NextAttempt(@)]
        /\ sends' = [sends EXCEPT ![c] = 0]
        /\ UNCHANGED result
     \/ cancelled[c] /\ Return(c, "cancelled") /\ UNCHANGED sends
  /\ UNCHANGED <<cancelled, applied, late>>

Step(c) == Head(c) \/ Connect(c) \/ Send(c) \/ Select(c)

Next == \E c \in Calls : Call(c) \/ Step(c) \/ Cancel(c)

Spec == Init /\ [][Next]_retryVars

----------------------------------------------------------------------------
(* Properties.                                                             *)

TypeOK ==
  /\ at \in [Calls -> {"idle", "head", "conn", "send", "select", "returned"}]
  /\ attempt \in [Calls -> 0 .. MaxRetries]
  /\ sends \in [Calls -> 0 .. Resends + 1]
  /\ result \in [Calls -> {"none", "ok", "permanent", "transient", "cancelled"}]
  /\ cancelled \in [Calls -> BOOLEAN]
  /\ applied \in [Calls -> Nat] /\ late \in [Calls -> Nat]

\* The two loops multiply: by lost answers a statement that is not idempotent
\* takes effect up to (MaxRetries + 1) * (Resends + 1) times, and no more; an
\* error that is not transient ends both.
EffectsBounded ==
  \A c \in Calls :
    /\ applied[c] <= (MaxRetries + 1) * (Resends + 1)
    /\ result[c] = "permanent" => applied[c] <= attempt[c] * (Resends + 1) + sends[c]

\* When the context has ended, only the attempt in progress goes on: the statement
\* is sent no more often than one fn may, however the timer and the cancellation race.
CancelStopsAttempts == \A c \in Calls : late[c] <= Resends + 1
=============================================================================
