------------------------------ MODULE EventFeed ------------------------------
(***************************************************************************)
(* The event store of one beer (pkg/events) and the administrator who      *)
(* polls GET /beers/{id}/events.                                           *)
(*                                                                         *)
(* An event is durable in PostgreSQL before it is copied to Redis, where a *)
(* sorted set keeps the Keep newest until the key expires.  The copy is a  *)
(* pipeline of three commands that may be cut off anywhere.  A poll reads  *)
(* twice: the latest event for the ETag, then the list; each read falls    *)
(* back from Redis to PostgreSQL on its own.                               *)
(***************************************************************************)
EXTENDS Integers, FiniteSets, Sequences

CONSTANTS
  Writers,    \* handlers that change the beer
  Readers,    \* administrators that poll
  Data,       \* payloads: {"commentId": ...} or {"name": ...}
  Keep,       \* maxEventsPerBeer
  PerSecond,  \* timestamps are finer than the cursor, which counts seconds
  MaxEvents, MaxTime   \* model bounds

VARIABLES
  now,
  durable,    \* table beer_events
  cache,      \* the sorted set beer-api:beer:{id}
  expiring,   \* the key has a time to live
  writing,    \* where each writer is
  event,      \* ... and the event it carries
  polling,    \* where each poll is
  query,      \* ... its cursor, its If-None-Match and the ETag computed so far
  answer,     \* the last answer: status, and the store it was decided on
  known,      \* what the administrator has: events ...
  tag,        \* ... and the ETag of the last answer
  entered     \* events in the order in which they reached the cache (history)

writers == <<durable, cache, expiring, writing, event, entered>>
readers == <<polling, query, answer, known, tag>>
feedVars == <<now, writers, readers>>

Events == [n : 1 .. MaxEvents, at : 0 .. MaxTime, data : Data]

Second(e) == e.at \div PerSecond

\* Mutant: ZRANGE key 0 0, the lowest score.
Newest_Lowest(S) == {e \in S : \A f \in S : e.at <= f.at}

\* The events of S with the highest score; Redis breaks ties by the bytes of
\* the member, which is as good as either way.
Newest(S) == {e \in S : \A f \in S : f.at <= e.at}

NoTag == <<"none">>
NoQuery == [since |-> -1, match |-> NoTag, etag |-> NoTag]

Init ==
  /\ now = 0
  /\ durable = {} /\ cache = {} /\ expiring = FALSE
  /\ writing = [w \in Writers |-> "idle"]
  /\ event = [w \in Writers |-> {}]
  /\ polling = [r \in Readers |-> "idle"]
  /\ query = [r \in Readers |-> NoQuery]
  /\ answer = [r \in Readers |-> <<0, "none">>]
  /\ known = [r \in Readers |-> {}]
  /\ tag = [r \in Readers |-> NoTag]
  /\ entered = <<>>

Tick == now < MaxTime /\ now' = now + 1 /\ UNCHANGED <<writers, readers>>

----------------------------------------------------------------------------
(* Publishing.                                                             *)

Go(w, l) == writing' = [writing EXCEPT ![w] = l] /\ UNCHANGED <<now, readers>>

\* Event ids are never used twice.
Unused == (1 .. MaxEvents) \ {e.n : e \in durable \union UNION {event[w] : w \in Writers}}

\* newBeerEvent takes the time before the transaction gets its row lock.
Stamp(w) ==
  /\ writing[w] = "idle"
  /\ \E n \in Unused, d \in Data :
       /\ \A k \in Unused : n <= k
       /\ event' = [event EXCEPT ![w] = {[n |-> n, at |-> now, data |-> d]}]
  /\ Go(w, "insert")
  /\ UNCHANGED <<durable, cache, expiring, entered>>

\* The transaction commits with its event, or comes to nothing.
Insert(w) ==
  /\ writing[w] = "insert"
  /\ durable' = durable \union event[w]
  /\ Go(w, "zadd")
  /\ UNCHANGED <<cache, expiring, event, entered>>

Abort(w) ==
  /\ writing[w] = "insert"
  /\ event' = [event EXCEPT ![w] = {}]
  /\ Go(w, "idle")
  /\ UNCHANGED <<durable, cache, expiring, entered>>

\* A key that was gone comes back without a time to live.
ZAdd(w) ==
  /\ writing[w] = "zadd"
  /\ \E e \in event[w] : /\ cache' = cache \union {e}
                         /\ entered' = Append(entered, e)
  /\ Go(w, "trim")
  /\ UNCHANGED <<durable, expiring, event>>

Trimmed == {e \in cache : Cardinality({f \in cache : f.at > e.at \/ (f.at = e.at /\ f.n > e.n)}) < Keep}

\* ZREMRANGEBYRANK key 0 -Keep-1.
Trim(w) ==
  /\ writing[w] = "trim"
  /\ cache' = Trimmed
  /\ Go(w, "expire")
  /\ UNCHANGED <<durable, expiring, event, entered>>

Expire(w) ==
  /\ writing[w] = "expire"
  /\ expiring' = (cache # {})
  /\ event' = [event EXCEPT ![w] = {}]
  /\ Go(w, "idle")
  /\ UNCHANGED <<durable, cache, entered>>

\* Redis is unreachable, or the connection or the process dies between two
\* commands: the caller ignores the error.
CutOff(w) ==
  /\ writing[w] \in {"zadd", "trim", "expire"}
  /\ event' = [event EXCEPT ![w] = {}]
  /\ Go(w, "idle")
  /\ UNCHANGED <<durable, cache, expiring, entered>>

\* 72 hours without a publication, or Redis starts anew.
KeyExpires ==
  /\ cache # {} /\ expiring
  /\ cache' = {} /\ expiring' = FALSE
  /\ UNCHANGED <<now, readers, durable, writing, event, entered>>

----------------------------------------------------------------------------
(* Polling.                                                                *)

Serve(r, l) == polling' = [polling EXCEPT ![r] = l] /\ UNCHANGED <<now, writers>>

\* The administrator asks from the beginning or from the second of an event it
\* has, with or without the ETag of the last answer.
Ask(r) ==
  /\ polling[r] = "idle"
  /\ \E s \in {-1} \union {Second(e) : e \in known[r]}, m \in {NoTag, tag[r]} :
       query' = [query EXCEPT ![r] = [NoQuery EXCEPT !.since = s, !.match = m]]
  /\ answer' = [answer EXCEPT ![r] = <<0, "none">>]
  /\ Serve(r, "latest")
  /\ UNCHANGED <<known, tag>>

Finish(r, status, store) ==
  /\ answer' = [answer EXCEPT ![r] = <<status, store>>]
  /\ query' = [query EXCEPT ![r] = NoQuery]
  /\ Serve(r, "idle")

\* 304 when the client has this very ETag, otherwise on to the list.
Compare(r, etag, store) ==
  /\ \/ /\ etag = query[r].match
        /\ Finish(r, 304, store)
     \/ /\ etag # query[r].match
        /\ query' = [query EXCEPT ![r].etag = etag]
        /\ Serve(r, "list")
        /\ UNCHANGED answer
  /\ UNCHANGED <<known, tag>>

\* CompositeStore.LatestEvent: the hash of the member, or, when Redis has none,
\* fails, or loses the member between the two commands, of the payload alone.
Latest(r) ==
  /\ polling[r] = "latest"
  /\ \/ \E e \in Newest(cache) : Compare(r, <<"member", e.n>>, "cache")
     \/ \E e \in Newest(durable) : Compare(r, <<"data", e.data>>, "table")
     \/ durable = {} /\ Compare(r, <<"zero">>, "table")

\* ZRANGEBYSCORE key since +inf.
Cached(since) == {e \in cache : e.at >= since * PerSecond}

\* WHERE timestamp > since.
Stored(since) == {e \in durable : e.at > since * PerSecond}

\* The list came from Redis: its last id is the ETag, whatever was sent before.
ListCached(r) ==
  /\ polling[r] = "list"
  /\ \E e \in Newest(Cached(query[r].since)) :
       IF <<"id", e.n>> = query[r].match
         THEN Finish(r, 304, "cache") /\ UNCHANGED <<known, tag>>
         ELSE /\ known' = [known EXCEPT ![r] = @ \union Cached(query[r].since)]
              /\ tag' = [tag EXCEPT ![r] = <<"id", e.n>>]
              /\ Finish(r, 200, "cache")

\* Redis has nothing or fails: PostgreSQL's rows cannot be scanned into the
\* event (a JSONB column into a map), so any row there is ends in 500.
ListStored(r) ==
  /\ polling[r] = "list"
  /\ \/ /\ Stored(query[r].since) # {}
        /\ Finish(r, 500, "table")
        /\ UNCHANGED <<known, tag>>
     \/ /\ Stored(query[r].since) = {}
        /\ tag' = [tag EXCEPT ![r] = query[r].etag]
        /\ UNCHANGED known
        /\ Finish(r, 200, "table")

\* A statement on PostgreSQL fails, or the answer does not arrive.
PollFails(r) ==
  /\ polling[r] # "idle"
  /\ Finish(r, 500, "table")
  /\ UNCHANGED <<known, tag>>

Publish(w) ==
  Stamp(w) \/ Insert(w) \/ Abort(w) \/ ZAdd(w) \/ Trim(w) \/ Expire(w) \/ CutOff(w)

Poll(r) == Ask(r) \/ Latest(r) \/ ListCached(r) \/ ListStored(r) \/ PollFails(r)

Next ==
  \/ Tick
  \/ KeyExpires
  \/ \E w \in Writers : Publish(w)
  \/ \E r \in Readers : Poll(r)

Spec == Init /\ [][Next]_feedVars

----------------------------------------------------------------------------
Tags == {NoTag, <<"zero">>} \union {<<"member", n>> : n \in 1 .. MaxEvents}
          \union {<<"id", n>> : n \in 1 .. MaxEvents} \union {<<"data", d>> : d \in Data}

TypeOK ==
  /\ now \in 0 .. MaxTime
  /\ durable \subseteq Events /\ cache \subseteq Events
  /\ expiring \in BOOLEAN
  /\ writing \in [Writers -> {"idle", "insert", "zadd", "trim", "expire"}]
  /\ event \in [Writers -> SUBSET Events]
  /\ polling \in [Readers -> {"idle", "latest", "list"}]
  /\ query \in [Readers -> [since : -1 .. MaxTime, match : Tags, etag : Tags]]
  /\ answer \in [Readers -> {0, 200, 304, 500} \X {"none", "cache", "table"}]
  /\ known \in [Readers -> SUBSET Events]
  /\ tag \in [Readers -> Tags]

Before(e, f) ==
  \E i, j \in DOMAIN entered : i < j /\ entered[i] = e /\ entered[j] = f

\* e reached the cache after an event that carries a later, or the same, time.
Late(e) == \E f \in durable : Before(f, e) /\ f.at >= e.at

\* An administrator who is answered out of the cache has, from then on, every
\* event that is in it: cursors that count seconds, two ETags and two reads miss
\* none but those that reached the cache late.
MissesOnlyLate ==
  [][\A r \in Readers :
       answer'[r] # answer[r] /\ answer'[r] \in {<<200, "cache">>, <<304, "cache">>}
         => \A e \in cache : e \in known'[r] \/ Late(e)]_feedVars
=============================================================================
