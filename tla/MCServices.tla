---------------------------- MODULE MCServices ----------------------------
(***************************************************************************)
(* Six components that share no state (the event feed, the content filter, *)
(* accounts, the sessions of patient devices, the keys of identity         *)
(* providers, paged lists) checked in one run: `part`, chosen once, is the *)
(* one that moves.  The keys are extended rather than instantiated, and    *)
(* the sessions instantiated with their theorems, as these are about the   *)
(* properties of this run.                                                 *)
(***************************************************************************)
EXTENDS OidcKeys, Sequences, FiniteSets, TLC

CONSTANTS
  Writers, Readers, Data, Keep, PerSecond, MaxEvents, MaxTime,
  Texts, Flagged, Checkers, TTL, EndOfTime,
  Emails, AdminEmail, Identities, Endpoints, Workers, TokenTTL, LastHour, MaxAsks, NoIdentity,
  People, Devices, Handlers, MaxCalls,
  PageSize, MaxItem, MaxChanges

VARIABLES
  part,
  now, durable, cache, expiring, writing, event, polling, query, answer, known, tag,
  entered,
  clock, backend, verdicts, stage, text, passed, outcome, lenient,
  rows, subs, stamp, tokens, today, step, ask, copies, asks, seeded, gone,
  account, social, owner, revoked, expired, root, held, pc, job, given, numCalls,
  list, items, version, phase, page, half, stored, seen, since, reused, added, removed

\* Lives, periods and bounds are numbers, NotYet is none; somebody besides the
\* administrator, a key and a text exist.
ASSUME ServicesAssumption ==
  /\ Keep \in Nat \ {0} /\ PerSecond \in Nat \ {0} /\ MaxEvents \in Nat /\ MaxTime \in Nat
  /\ TTL \in Nat /\ EndOfTime \in Nat /\ Texts # {}
  /\ TokenTTL \in Nat \ {0} /\ LastHour \in Nat /\ MaxAsks \in Nat
  /\ AdminEmail \in Emails /\ Emails # {AdminEmail} /\ Endpoints # {}
  /\ NoIdentity \notin Identities
  /\ People # {} /\ Devices # {} /\ MaxCalls \in Nat
  /\ MaxAge \in Int /\ KeyTTL \in Nat /\ LastTime \in Nat /\ NotYet \notin Int \union Logins
  /\ PageSize \in Nat \ {0} /\ MaxItem \in Nat \ {0} /\ MaxChanges \in Nat

E == INSTANCE EventFeed
F == INSTANCE ContentFilter
A == INSTANCE Accounts
P == INSTANCE SessionsProofs WITH Emails <- People, Patient <- TRUE, Faults <- FALSE
L == INSTANCE Listing

eVars == <<now, durable, cache, expiring, writing, event, polling, query, answer, known, tag,
           entered>>
fVars == <<clock, backend, verdicts, stage, text, passed, outcome, lenient>>
aVars == <<rows, subs, stamp, tokens, today, step, ask, copies, asks, seeded, gone>>
pVars == <<account, social, owner, revoked, expired, root, held, pc, job, given, numCalls>>
lVars == <<list, items, version, phase, page, half, stored, seen, since, reused, added,
           removed>>

StartAll ==
  /\ part \in {"events", "filter", "accounts", "sessions", "keys", "lists"}
  /\ E!Init
  /\ F!Init /\ (part # "filter" => backend = "noop")
  /\ A!Init
  /\ P!Init
  /\ Init /\ (part # "keys" => published = {CHOOSE k \in Kids : TRUE})
  /\ L!Init /\ (part # "lists" => list = "beers" /\ items = {})

Step ==
  /\ UNCHANGED part
  /\ \/ part = "events"   /\ E!Next /\ UNCHANGED <<fVars, aVars, pVars, oidcVars, lVars>>
     \/ part = "filter"   /\ F!Next /\ UNCHANGED <<eVars, aVars, pVars, oidcVars, lVars>>
     \/ part = "accounts" /\ A!Next /\ UNCHANGED <<eVars, fVars, pVars, oidcVars, lVars>>
     \/ part = "sessions" /\ P!Next /\ UNCHANGED <<eVars, fVars, aVars, oidcVars, lVars>>
     \/ part = "keys"     /\ Next /\ UNCHANGED <<eVars, fVars, aVars, pVars, lVars>>
     \/ part = "lists"    /\ L!Next /\ UNCHANGED <<eVars, fVars, aVars, pVars, oidcVars>>

SideBySide == StartAll /\ [][Step]_<<part, eVars, fVars, aVars, pVars, oidcVars, lVars>>

\* Goroutines that serve the requests of patient devices are interchangeable.
Symmetry == Permutations(Handlers)

\* Type correctness of the components but Sessions, whose types MCSessions checks.
AllTypesOK == E!TypeOK /\ F!TypeOK /\ A!TypeOK /\ TypeOK /\ L!TypeOK

\* The properties, each stated in its component's module; WithdrawnKeysDie and
\* PublishedKeysWork are those of OidcKeys.
MissesOnlyLate == E!MissesOnlyLate
LeniencyExpires == F!LeniencyExpires
AdminsAreSeeded == A!AdminsAreSeeded
PowerOutlivesByTTL == A!PowerOutlivesByTTL
ProfileIsFresh == A!ProfileIsFresh
OneLivePerLogin == P!OneLivePerLogin
SessionsSurvive == P!SessionsSurvive
MissesOnlyShifted == L!MissesOnlyShifted
=============================================================================
