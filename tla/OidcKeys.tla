------------------------------ MODULE OidcKeys ------------------------------
(***************************************************************************)
(* Verification of a provider's id_token: OIDCVerifier of pkg/auth/oidc.go *)
(* with its JWKSCache (oidc_keys.go).  A key is its kid; a token names a   *)
(* kid and its signature is genuine or not.  Issuer, audience and expiry of*)
(* a token are checked without state and left out.                         *)
(*                                                                         *)
(* Verify may download the key set four times: when the verifier's set is  *)
(* older than MaxAge, when the kid is not in the cache, when the first     *)
(* parse failed, and when the kid is not in the cache then.  A download    *)
(* and the storing of its keys are two steps, and nothing makes downloads  *)
(* of several goroutines one.                                              *)
(***************************************************************************)
EXTENDS Integers

CONSTANTS
  Kids,
  Logins,       \* goroutines, each with one call of Verify
  MaxAge,       \* cacheMaxAge
  KeyTTL,       \* ttl of the JWKSCache
  LastTime,     \* model bound: the clock
  NotYet        \* cachedAt is zero; a key is not cached; was never withdrawn

VARIABLES
  time,
  published,    \* the provider's JWKS document
  withdrawn,    \* when each key was last taken out of it (not part of the program)
  cachedAt,
  expires,      \* JWKSCache.keys
  place,        \* where each login is
  token, doc,   \* the token it verifies, the document it has downloaded
  keyFunc,      \* whose request's context the key function holds
  using,        \* ... and the one whose lookup each login waits for
  smooth        \* nothing has gone wrong during this login (not part of the program)

oidcVars == <<time, published, withdrawn, cachedAt, expires, place, token, doc,
              keyFunc, using, smooth>>

Init ==
  /\ time = 0
  /\ published \in {{k} : k \in Kids}
  /\ withdrawn = [k \in Kids |-> NotYet]
  /\ cachedAt = NotYet
  /\ expires = [k \in Kids |-> NotYet]
  /\ place = [l \in Logins |-> "idle"]
  /\ token = [l \in Logins |-> [kid |-> CHOOSE k \in Kids : TRUE, genuine |-> TRUE]]
  /\ doc = [l \in Logins |-> {}]
  /\ keyFunc = NotYet
  /\ using = [l \in Logins |-> NotYet]
  /\ smooth = [l \in Logins |-> TRUE]

\* Mutant: a cached key is good for ever.
Cached_Forever(k) == expires[k] # NotYet

\* JWKSCache.Get.
Cached(k) == expires[k] # NotYet /\ time <= expires[k]

\* A download takes no longer than the client's timeout, which is less than a tick.
\* A login for which the life of the key it has just downloaded is over when it parses
\* again has gone wrong (it slept for a day).
Tick ==
  /\ time < LastTime
  /\ time' = time + 1
  /\ \A l \in Logins : doc[l] = {}
  /\ UNCHANGED <<published, withdrawn, cachedAt, expires, place, token, doc, keyFunc, using>>
  /\ smooth' = [l \in Logins |-> smooth[l] /\ (place[l] = "parse 2" => Cached(token[l].kid)')]

Busy(l) == place[l] \notin {"idle", "accepted", "rejected"}

\* The provider rotates its keys; it never publishes an empty set, nor a key again.
Rotate ==
  /\ \E ks \in SUBSET {k \in Kids : withdrawn[k] = NotYet} \ {{}, published} :
       /\ published' = ks
       /\ withdrawn' = [k \in Kids |-> IF k \in published \ ks THEN time ELSE withdrawn[k]]
       /\ smooth' = [l \in Logins |-> smooth[l] /\ (Busy(l) => token[l].kid \in ks)]
  /\ UNCHANGED <<time, cachedAt, expires, place, token, doc, keyFunc, using>>

----------------------------------------------------------------------------
Goto(l, p) == place' = [place EXCEPT ![l] = p]

Fresh == cachedAt # NotYet /\ time - cachedAt < MaxAge

\* ensureKeys.
Start(l) ==
  /\ place[l] = "idle"
  /\ \E k \in Kids, g \in BOOLEAN :
       /\ token' = [token EXCEPT ![l] = [kid |-> k, genuine |-> g]]
       /\ smooth' = [smooth EXCEPT ![l] = k \in published]
  /\ Goto(l, IF Fresh THEN "parse 1" ELSE "ensure")
  /\ UNCHANGED <<time, published, withdrawn, cachedAt, expires, doc, keyFunc, using>>

Downloads == {"ensure", "lookup 1", "refresh", "lookup 2"}

\* Whose context a download uses: a lookup is made by the key function, with that
\* of the request that built it.
Ctx(l) == IF place[l] \in {"lookup 1", "lookup 2"} THEN using[l] ELSE l

Fetch(l) ==
  /\ place[l] \in Downloads /\ doc[l] = {}
  /\ Busy(Ctx(l))
  /\ doc' = [doc EXCEPT ![l] = published]
  /\ UNCHANGED <<time, published, withdrawn, cachedAt, expires, place, token, keyFunc, using, smooth>>

\* Mutant: a key that is in the cache already keeps its expiry.
StoredUntil_First(k) == IF expires[k] # NotYet THEN expires[k] ELSE time + KeyTTL

StoredUntil(k) == time + KeyTTL

\* Parsing: the key is there and the signature is genuine, or it is not.
Verified(l) ==
  Cached(token[l].kid) /\ token[l].genuine /\ Goto(l, "accepted")

Failed(l, next) ==
  /\ Cached(token[l].kid) /\ ~token[l].genuine
  /\ Goto(l, next)

\* Parser.Parse with the keyfunc: a kid that is not cached asks for a download.
Parse(l, here, lookup, next) ==
  /\ place[l] = here
  /\ \/ (Verified(l) \/ Failed(l, next)) /\ UNCHANGED using
     \/ /\ ~Cached(token[l].kid)
        /\ using' = [using EXCEPT ![l] = keyFunc]
        /\ Goto(l, lookup)
  /\ UNCHANGED <<time, published, withdrawn, cachedAt, expires, token, doc, keyFunc, smooth>>

\* Where a login goes after a download that succeeded (found: its kid is there).
After(l, found) ==
  CASE place[l] = "ensure"   -> Goto(l, "parse 1")
    [] place[l] = "refresh"  -> Goto(l, "parse 2")
    [] found /\ token[l].genuine -> Goto(l, "accepted")
    [] place[l] = "lookup 1" -> Goto(l, "refresh")
    [] place[l] = "lookup 2" -> Goto(l, "rejected")

\* refreshKeys: the keys of the document are stored, a new keyfunc with its time.
Store(l) ==
  LET kept == [k \in Kids |-> IF k \in doc[l] THEN StoredUntil(k) ELSE expires[k]]
      k == token[l].kid
  IN /\ doc[l] # {}
     /\ expires' = kept
     /\ cachedAt' = time
     /\ keyFunc' = Ctx(l)
     /\ using' = [using EXCEPT ![l] = NotYet]
     /\ doc' = [doc EXCEPT ![l] = {}]
     /\ After(l, kept[k] # NotYet /\ time <= kept[k])
     /\ UNCHANGED <<time, published, withdrawn, token, smooth>>

\* A download that fails: ensureKeys and the refresh give up, a lookup is a
\* failed parse.  It always does when the request that built the key function has
\* been answered, which ended its context.
FetchFails(l) ==
  /\ place[l] \in Downloads /\ doc[l] = {}
  /\ smooth' = [smooth EXCEPT ![l] = @ /\ ~Busy(Ctx(l))]
  /\ Goto(l, IF place[l] = "lookup 1" THEN "refresh" ELSE "rejected")
  /\ using' = [using EXCEPT ![l] = NotYet]
  /\ UNCHANGED <<time, published, withdrawn, cachedAt, expires, token, doc, keyFunc>>

Verify(l) ==
  \/ Fetch(l) \/ Store(l)
  \/ Parse(l, "parse 1", "lookup 1", "refresh") \/ Parse(l, "parse 2", "lookup 2", "rejected")

Next == Tick \/ Rotate \/ \E l \in Logins : Start(l) \/ Verify(l) \/ FetchFails(l)

Spec == Init /\ [][Next]_oidcVars

----------------------------------------------------------------------------
(* Properties.                                                             *)

TypeOK ==
  /\ time \in 0 .. LastTime
  /\ published \subseteq Kids
  /\ cachedAt \in {NotYet} \union 0 .. LastTime
  /\ withdrawn \in [Kids -> {NotYet} \union 0 .. LastTime]
  /\ expires \in [Kids -> {NotYet} \union 0 .. LastTime + KeyTTL]
  /\ place \in [Logins -> {"idle", "parse 1", "parse 2", "accepted", "rejected"} \union Downloads]
  /\ token \in [Logins -> [kid : Kids, genuine : BOOLEAN]]
  /\ doc \in [Logins -> SUBSET Kids]
  /\ keyFunc \in Logins \union {NotYet}
  /\ using \in [Logins -> Logins \union {NotYet}]
  /\ smooth \in [Logins -> BOOLEAN]

Decides(l, v) == place[l] # v /\ place'[l] = v

\* A key the provider has withdrawn is good for KeyTTL at most, whichever
\* downloads were under way when it was, and a forged signature never is.
WithdrawnKeysDie ==
  [][\A l \in Logins :
       Decides(l, "accepted")
         => /\ token[l].genuine
            /\ \/ token[l].kid \in published
               \/ time <= withdrawn[token[l].kid] + KeyTTL]_oidcVars

\* A genuine token whose key was published all the time is accepted when no
\* download failed and the login was over within a key's life: new keys are found
\* although an old set is cached, whoever built the key function and left.
PublishedKeysWork ==
  [][\A l \in Logins : Decides(l, "rejected") /\ token[l].genuine => ~smooth'[l]]_oidcVars
=============================================================================
