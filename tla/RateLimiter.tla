---------------------------- MODULE RateLimiter ----------------------------
(***************************************************************************)
(* The sliding-window limiter of pkg/middleware/rate_limit.go.  One        *)
(* limiter guards all write requests of a router; `allow` runs under the   *)
(* limiter's mutex, so one call is one step.  Time advances between calls. *)
(*                                                                         *)
(* The list of time stamps the code keeps for a key is a set of hits here: *)
(* the list is chronological (each hit is appended with the current time), *)
(* so its first element is an oldest hit, and two hits accepted in the     *)
(* same clock tick stay distinct through their number.                     *)
(***************************************************************************)
EXTENDS Integers, FiniteSets

CONSTANTS
  Keys,            \* client keys ("u:<id>" or "i:<ip>")
  Limit,           \* accepted writes per window
  Window,          \* length of the window
  MaxKeys,         \* maxRateLimitKeys: hard cap on tracked keys
  CleanupInterval, \* rateLimitCleanupInterval
  MaxTime,         \* model bound: the clock stops here
  MaxHits          \* model bound: accepted calls per behaviour

\* NewRateLimitMiddleware replaces limit <= 0 and window <= 0 by the defaults.
ASSUME LimiterAssumption ==
  /\ Limit \in Nat \ {0}
  /\ Window \in Nat \ {0}
  /\ MaxKeys \in Nat \ {0}
  /\ CleanupInterval \in Nat \ {0}
  /\ MaxTime \in Nat
  /\ MaxHits \in Nat

VARIABLES
  hits,         \* rl.hits: a map, its DOMAIN the keys that have an entry
  lastCleanup,  \* rl.lastCleanup
  now,          \* time.Now()
  granted,      \* history: what each key was granted since last forgotten
  numGranted,   \* history: how many calls were granted at all
  last          \* history: the last call and its answer

vars == <<hits, lastCleanup, now, granted, numGranted, last>>

Hit == [n : Nat, at : Nat]

NoHits == [k \in {} |-> {}]

----------------------------------------------------------------------------
\* The entries `t.After(cutoff)` keeps, cutoff being time t minus the window.
Live(s, t) == {h \in s : h.at + Window > t}

\* The list the map holds for a key; a missing key reads as the empty list.
Entry(m, k) == IF k \in DOMAIN m THEN m[k] ELSE {}

Put(m, k, s) == [j \in DOMAIN m \union {k} |-> IF j = k THEN s ELSE m[j]]

Drop(m, gone) == [k \in DOMAIN m \ gone |-> m[k]]

\* Mutant: drops the keys without live hits, keeps the lists of the others whole.
CleanupExpired_KeysOnly(m, t) ==
  [k \in {j \in DOMAIN m : Live(m[j], t) # {}} |-> m[k]]

CleanupExpired(m, t) ==
  [k \in {j \in DOMAIN m : Live(m[j], t) # {}} |-> Live(m[k], t)]

\* The keys evictOldest may pick: the first hit of k is not later than that of
\* any other key.  Map iteration order decides between ties, so any of them.
Oldest(m) ==
  {k \in DOMAIN m : /\ m[k] # {}
                    /\ \A j \in DOMAIN m : \A g \in m[j] :
                          \E h \in m[k] : h.at <= g.at}

\* Mutant: one key too late.
Evictable_OffByOne(m) ==
  IF Cardinality(DOMAIN m) > MaxKeys /\ Oldest(m) # {}
    THEN {{k} : k \in Oldest(m)}
    ELSE {{}}

\* The sets of keys the cap check may delete: nothing below the cap, one oldest
\* key at the cap (nothing when no key has a hit to compare).
Evictable(m) ==
  IF Cardinality(DOMAIN m) >= MaxKeys /\ Oldest(m) # {}
    THEN {{k} : k \in Oldest(m)}
    ELSE {{}}

----------------------------------------------------------------------------
Init ==
  /\ hits = NoHits
  /\ lastCleanup = 0
  /\ now = 0
  /\ granted = [k \in Keys |-> {}]
  /\ numGranted = 0
  /\ last = [key |-> {}, ok |-> TRUE, at |-> 0]

\* The map after the periodic cleanup at the head of `allow`.
Cleaned ==
  IF now - lastCleanup >= CleanupInterval THEN CleanupExpired(hits, now) ELSE hits

\* Mutant: remembers when the next cleanup is due instead of the last one.
CleanupTime_NextDue ==
  IF now - lastCleanup >= CleanupInterval THEN now + CleanupInterval ELSE lastCleanup

CleanupTime == IF now - lastCleanup >= CleanupInterval THEN now ELSE lastCleanup

\* Mutants: one grant too many, one too few.
QuotaLeft_OneMore(s) == Cardinality(s) <= Limit
QuotaLeft_OneLess(s) == Cardinality(s) + 1 < Limit

\* The quota test of `allow`: refuse once the live hits reach the limit.
QuotaLeft(s) == Cardinality(s) < Limit

Reject(k, gone) ==
  LET m == Drop(Cleaned, gone)
      filtered == Live(Entry(m, k), now)
  IN  /\ ~QuotaLeft(filtered)
      /\ hits' = Put(m, k, filtered)
      /\ granted' = [j \in Keys |-> IF j \in gone THEN {} ELSE granted[j]]
      /\ last' = [key |-> {k}, ok |-> FALSE, at |-> now]
      /\ UNCHANGED numGranted

Accept(k, gone) ==
  LET m == Drop(Cleaned, gone)
      filtered == Live(Entry(m, k), now)
      hit == [n |-> numGranted, at |-> now]
      kept == [j \in Keys |-> IF j \in gone THEN {} ELSE granted[j]]
  IN  /\ QuotaLeft(filtered)
      /\ numGranted < MaxHits
      /\ hits' = Put(m, k, filtered \union {hit})
      /\ granted' = [kept EXCEPT ![k] = @ \union {hit}]
      /\ numGranted' = numGranted + 1
      /\ last' = [key |-> {k}, ok |-> TRUE, at |-> now]

\* rateLimiter.allow(key): cleanup, cap, filter, then the answer.
Allow(k) ==
  /\ lastCleanup' = CleanupTime
  /\ \E gone \in Evictable(Cleaned) : Reject(k, gone) \/ Accept(k, gone)
  /\ UNCHANGED now

Tick ==
  /\ now < MaxTime
  /\ now' = now + 1
  /\ UNCHANGED <<hits, lastCleanup, granted, numGranted, last>>

Next ==
  \/ \E k \in Keys : Allow(k)
  \/ Tick

Spec == Init /\ [][Next]_vars

----------------------------------------------------------------------------
TypeOK ==
  /\ DOMAIN hits \subseteq Keys
  /\ \A k \in DOMAIN hits : hits[k] \subseteq Hit
  /\ lastCleanup \in 0 .. now
  /\ now \in Nat
  /\ granted \in [Keys -> SUBSET Hit]
  /\ numGranted \in Nat
  /\ last \in [key : SUBSET Keys, ok : BOOLEAN, at : Nat]

\* The map never tracks more than maxRateLimitKeys clients ("hard cap to
\* prevent unbounded memory growth"): whatever the order of cleanups, refusals
\* and new keys, evictOldest always finds room before a key is inserted.
KeysBounded == Cardinality(DOMAIN hits) <= MaxKeys

\* Between two evictions of its entry a client is granted at most Limit writes
\* in any window, through cleanups, refusals and re-insertions: the list the
\* code keeps never loses a grant that still counts.
WindowQuota == \A k \in Keys : Cardinality(Live(granted[k], now)) <= Limit

\* A refusal is always earned: at the time of the 429 the client had been
\* granted Limit writes inside the window, so that once the window (the
\* Retry-After of the answer) has passed the refusal no longer applies.
RefusalEarned ==
  ~last.ok => \A k \in last.key :
    Cardinality({h \in granted[k] : h.at + Window > last.at}) >= Limit

\* Memory of idle clients is reclaimed: no hit is kept that had already left
\* the window when the last periodic cleanup ran.
NothingStaleSurvivesCleanup ==
  \A k \in DOMAIN hits : \A h \in hits[k] : h.at + Window > lastCleanup
=============================================================================
