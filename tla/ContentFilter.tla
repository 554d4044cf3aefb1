---------------------------- MODULE ContentFilter ----------------------------
(***************************************************************************)
(* The check of a comment's text before it is stored (pkg/moderation): a   *)
(* cache of verdicts, in memory or in Redis, before the OpenAI API.        *)
(*                                                                         *)
(* The check is meant to fail open.  What fails open is also cached: a     *)
(* text let through by an outage stays let through until its entry dies.   *)
(***************************************************************************)
EXTENDS Integers

CONSTANTS
  Texts, Flagged,  \* texts, and those the API would flag
  Checkers,        \* handlers of POST /beers/{id}/comments
  TTL,             \* life of a cached verdict (24 h)
  EndOfTime        \* model bound

VARIABLES
  clock,
  backend,   \* "noop", "memory" or "redis": what the environment configures
  verdicts,  \* the cache: a verdict per text, with its expiry
  stage,     \* where each check is ...
  text,      \* ... its text, and the verdict it is to cache
  passed,
  outcome,   \* status of the last request
  lenient    \* when each text was last let through unchecked (history)

filterVars == <<clock, backend, verdicts, stage, text, passed, outcome, lenient>>

Never == -TTL - 1

Entries == [text : Texts, allowed : BOOLEAN, expires : 0 .. EndOfTime + TTL]

\* newModerator and NewModeratorWithCache.
Init ==
  /\ clock = 0
  /\ backend \in {"noop", "memory", "redis"}
  /\ verdicts = {}
  /\ stage = [c \in Checkers |-> "idle"]
  /\ text \in {[c \in Checkers |-> t] : t \in {CHOOSE t \in Texts : TRUE}}
  /\ passed = [c \in Checkers |-> TRUE]
  /\ outcome = [c \in Checkers |-> 0]
  /\ lenient = [t \in Texts |-> Never]

Tick ==
  /\ clock < EndOfTime
  /\ clock' = clock + 1
  /\ UNCHANGED <<backend, verdicts, stage, text, passed, outcome, lenient>>

Excused(t) == lenient' = [lenient EXCEPT ![t] = clock]

\* Commented, refused for its content, or refused because of an error.
Answer(c, status) ==
  /\ outcome' = [outcome EXCEPT ![c] = status]
  /\ stage' = [stage EXCEPT ![c] = "idle"]
  /\ passed' = [passed EXCEPT ![c] = TRUE]
  /\ UNCHANGED <<clock, backend, text>>

Goto(c, s) ==
  /\ stage' = [stage EXCEPT ![c] = s]
  /\ UNCHANGED <<clock, backend, text, outcome, verdicts>>

Status(allowed) == IF allowed THEN 201 ELSE 422

Submit(c) ==
  /\ stage[c] = "idle"
  /\ \E t \in Texts : text' = [text EXCEPT ![c] = t]
  /\ outcome' = [outcome EXCEPT ![c] = 0]
  /\ stage' = [stage EXCEPT ![c] = IF backend = "noop" THEN "noop" ELSE "get"]
  /\ UNCHANGED <<clock, backend, verdicts, passed, lenient>>

\* NoopModerator: no API key, everything goes.
Noop(c) ==
  /\ stage[c] = "noop"
  /\ Answer(c, 201) /\ Excused(text[c])
  /\ UNCHANGED verdicts

Cached(t) == {e \in verdicts : e.text = t /\ clock <= e.expires}

Get(c) ==
  /\ stage[c] = "get"
  /\ \/ \E e \in Cached(text[c]) :
          Answer(c, Status(e.allowed)) /\ UNCHANGED <<verdicts, lenient>>
     \/ Cached(text[c]) = {} /\ Goto(c, "ask") /\ UNCHANGED <<passed, lenient>>

\* Redis fails: allowed, and the API is not even asked.
GetFails(c) ==
  /\ stage[c] = "get" /\ backend = "redis"
  /\ Answer(c, 201) /\ Excused(text[c])
  /\ UNCHANGED verdicts

Ask(c) ==
  /\ stage[c] = "ask"
  /\ passed' = [passed EXCEPT ![c] = text[c] \notin Flagged]
  /\ Goto(c, "set")
  /\ UNCHANGED lenient

\* Unreachable after 300 ms, another status than 200, no result: allowed.
AskFails(c) ==
  /\ stage[c] = "ask"
  /\ passed' = [passed EXCEPT ![c] = TRUE]
  /\ Goto(c, "set")
  /\ UNCHANGED lenient

\* An answer that cannot be decoded is an error, and AddComment gives 500.
AskGarbled(c) ==
  /\ stage[c] = "ask"
  /\ Answer(c, 500)
  /\ UNCHANGED <<verdicts, lenient>>

\* Mutant: SET without a time to live.
Expiry_Never == EndOfTime + TTL + 1

Expiry == clock + TTL

Set(c) ==
  /\ stage[c] = "set"
  /\ LET t == text[c] IN
       /\ verdicts' = {e \in verdicts : e.text # t}
                        \union {[text |-> t, allowed |-> passed[c], expires |-> Expiry]}
       /\ IF passed[c] /\ t \in Flagged THEN Excused(t) ELSE UNCHANGED lenient
  /\ Answer(c, Status(passed[c]))

\* Redis fails: the verdict, either way, becomes an error.
SetFails(c) ==
  /\ stage[c] = "set" /\ backend = "redis"
  /\ Answer(c, 500)
  /\ UNCHANGED <<verdicts, lenient>>

\* The LRU is full, Redis is short of memory, or the process starts anew.
Evict ==
  /\ \E e \in verdicts : verdicts' = verdicts \ {e}
  /\ UNCHANGED <<clock, backend, stage, text, passed, outcome, lenient>>

Check(c) ==
  \/ Submit(c)
  \/ Noop(c)
  \/ Get(c)
  \/ GetFails(c)
  \/ Ask(c)
  \/ AskFails(c)
  \/ AskGarbled(c)
  \/ Set(c)
  \/ SetFails(c)

Next == Tick \/ Evict \/ \E c \in Checkers : Check(c)

Spec == Init /\ [][Next]_filterVars

----------------------------------------------------------------------------
TypeOK ==
  /\ clock \in 0 .. EndOfTime
  /\ backend \in {"noop", "memory", "redis"}
  /\ verdicts \subseteq Entries
  /\ stage \in [Checkers -> {"idle", "noop", "get", "ask", "set"}]
  /\ text \in [Checkers -> Texts]
  /\ passed \in [Checkers -> BOOLEAN]
  /\ outcome \in [Checkers -> {0, 201, 422, 500}]
  /\ lenient \in [Texts -> {Never} \union 0 .. EndOfTime]

\* A flagged text is let through only within TTL of an outage that excused it
\* (or of its absence: no API key): an outage is not remembered for ever.
LeniencyExpires ==
  [][\A c \in Checkers :
       outcome'[c] = 201 /\ outcome[c] # 201 /\ text[c] \in Flagged
         => clock - lenient'[text[c]] <= TTL]_filterVars
=============================================================================
