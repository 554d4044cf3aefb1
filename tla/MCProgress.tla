---------------------------- MODULE MCProgress ----------------------------
(***************************************************************************)
(* Four components that share no state and promise to come to an end       *)
(* (moderation, repeated statements, the serverless instance, the life of a*)
(* process) checked in one run: `part`, chosen once, is the one that moves.*)
(* Boot is extended rather than instantiated, as its theorems are about    *)
(* this run's properties.                                                  *)
(***************************************************************************)
EXTENDS Boot

CONSTANTS
  Users, Admins, Beers, Handlers, Faults, MaxCalls, Nobody,
  Calls, MaxRetries, Resends,
  Requests, None

VARIABLES
  part,
  beers, accounts, filed, holds, pc, job, target, reply, numCalls, history,
  at, attempt, sends, result, cancelled, applied, late,
  dsn, up, pools, current, initMu, where, static, opened, status

\* Somebody of either role and a beer for the backlog; the bounds of
\* retry.go and database/sql are counts.
ASSUME ProgressAssumption ==
  /\ Admins \subseteq Users /\ Admins # {} /\ Users \ Admins # {} /\ Beers # {}
  /\ MaxCalls \in Nat
  /\ MaxRetries \in Nat /\ Resends \in Nat
  /\ None \notin Requests

\* What may have been filed when the observation starts: a pending request and a
\* report an administrator has resolved.
Backlog ==
  LET admin == CHOOSE u \in Admins : TRUE
      user == CHOOSE u \in Users \ Admins : TRUE
      beer == CHOOSE b \in Beers : TRUE
  IN {[kind |-> "request", n |-> 1, beer |-> beer, user |-> user, status |-> "pending",
       by |-> Nobody],
      [kind |-> "report", n |-> 2, beer |-> beer, user |-> user, status |-> "resolved",
       by |-> admin]}

M == INSTANCE Moderation WITH Filed <- 2
R == INSTANCE RetryDB
S == INSTANCE Serverless

mVars == <<beers, accounts, filed, holds, pc, job, target, reply, numCalls, history>>
rVars == <<at, attempt, sends, result, cancelled, applied, late>>
sVars == <<dsn, up, pools, current, initMu, where, static, opened, status>>

StartAll ==
  /\ part \in {"moderation", "retry", "serverless", "boot"}
  /\ M!Init /\ filed \in {{}, IF part = "moderation" THEN Backlog ELSE {}}
  /\ R!Init
  /\ S!Init /\ (part # "serverless" => dsn /\ up /\ static = {})
  /\ Init /\ (part # "boot" => supabase)

Step ==
  /\ UNCHANGED part
  /\ \/ part = "moderation" /\ M!Next /\ UNCHANGED <<rVars, sVars, bootVars>>
     \/ part = "retry"      /\ R!Next /\ UNCHANGED <<mVars, sVars, bootVars>>
     \/ part = "serverless" /\ S!Next /\ UNCHANGED <<mVars, rVars, bootVars>>
     \/ part = "boot"       /\ Next /\ UNCHANGED <<mVars, rVars, sVars>>

\* A part that does not move has nothing to do: none of its requests has begun.
SideBySide ==
  /\ StartAll /\ [][Step]_<<part, mVars, rVars, sVars, bootVars>>
  /\ M!Fairness /\ S!Fairness /\ Fairness

\* Type correctness of the four components.
AllTypesOK == M!TypeOK /\ R!TypeOK /\ S!TypeOK /\ TypeOK

\* The properties, each stated in its component's module; ServesOnlyMigrated,
\* ReferencesHold and StopsWhenTold are those of Boot.
NoDanglingRow == M!NoDanglingRow
OnlyJudgedBeersGo == M!OnlyJudgedBeersGo
ApprovalTakesEffect == M!ApprovalTakesEffect
EveryDecisionAnswered == M!EveryDecisionAnswered
EffectsBounded == R!EffectsBounded
CancelStopsAttempts == R!CancelStopsAttempts
OnePool == S!OnePool
StaticNeverWaits == S!StaticNeverWaits
=============================================================================
