--------------------------- MODULE OidcKeysProofs ---------------------------
(***************************************************************************)
(* A withdrawn signing key outlives its withdrawal by KeyTTL at most, for  *)
(* any number of keys and of concurrent logins.  A cached key is stamped   *)
(* when its download is stored, not when it was made: the argument is that *)
(* a download under way ends before the clock ticks.  And a published key  *)
(* is found: a login that fails by its key had a reason.                   *)
(***************************************************************************)
EXTENDS OidcKeys, TLAPS

\* What the module assumes of the constants.
Values == KeyTTL \in Nat /\ NotYet \notin Int

Times == Int \union {NotYet}

Places == {"idle", "parse 1", "parse 2", "accepted", "rejected",
           "ensure", "lookup 1", "refresh", "lookup 2"}

\* The part of TypeOK the argument needs.
Types ==
  /\ time \in Int
  /\ withdrawn \in [Kids -> Times] /\ expires \in [Kids -> Times]
  /\ published \subseteq Kids /\ doc \in [Logins -> SUBSET Kids]
  /\ token \in [Logins -> [kid : Kids, genuine : BOOLEAN]]
  /\ place \in [Logins -> Places]

\* The provider never publishes a key it has withdrawn.
PublishedStands == \A k \in published : withdrawn[k] = NotYet

\* A key in the cache is published, or was, and its expiry was set before that.
CacheFollowsProvider ==
  \A k \in Kids :
    expires[k] # NotYet
      => \/ k \in published /\ expires[k] <= time + KeyTTL
         \/ withdrawn[k] # NotYet /\ expires[k] <= withdrawn[k] + KeyTTL

\* A document that was downloaded and not stored yet is that of this moment.
DownloadsAreRecent ==
  \A l \in Logins : \A k \in doc[l] : k \in published \/ withdrawn[k] = time

\* A login that holds a document is at a place where documents are downloaded.
DownloadsInPlace == \A l \in Logins : doc[l] # {} => place[l] \in Downloads

IInv ==
  Types /\ PublishedStands /\ CacheFollowsProvider /\ DownloadsAreRecent /\ DownloadsInPlace

----------------------------------------------------------------------------
LEMMA InitEstablishes ==
  ASSUME Values, Init
  PROVE  IInv
<1>1. PICK k0 \in Kids : published = {k0}
  BY DEF Init
<1>2. (CHOOSE k \in Kids : TRUE) \in Kids
  BY <1>1
<1>3. [kid |-> CHOOSE k \in Kids : TRUE, genuine |-> TRUE] \in [kid : Kids, genuine : BOOLEAN]
  BY <1>2
<1>4. Types
  <2>1. /\ time \in Int /\ withdrawn \in [Kids -> Times] /\ expires \in [Kids -> Times]
        /\ published \subseteq Kids /\ doc \in [Logins -> SUBSET Kids]
    BY <1>1 DEF Init, Times
  <2>2. token \in [Logins -> [kid : Kids, genuine : BOOLEAN]]
    BY <1>3 DEF Init
  <2>3. place \in [Logins -> Places]
    BY DEF Init, Places
  <2> QED BY <2>1, <2>2, <2>3 DEF Types
<1>5. PublishedStands /\ CacheFollowsProvider /\ DownloadsAreRecent /\ DownloadsInPlace
  BY <1>1 DEF Init, PublishedStands, CacheFollowsProvider, DownloadsAreRecent, DownloadsInPlace
<1> QED BY <1>4, <1>5 DEF IInv

LEMMA TickPreserves ==
  ASSUME Values, IInv, Tick
  PROVE  IInv'
<1>1. /\ time' = time + 1 /\ time \in Int /\ \A l \in Logins : doc[l] = {}
      /\ UNCHANGED <<published, withdrawn, expires, place, token, doc>>
  BY DEF Tick, IInv, Types
<1>2. Types'
  BY <1>1 DEF IInv, Types
<1>3. PublishedStands' /\ DownloadsAreRecent' /\ DownloadsInPlace'
  BY <1>1 DEF IInv, PublishedStands, DownloadsAreRecent, DownloadsInPlace
<1>4. ASSUME NEW k \in Kids, expires[k] # NotYet, expires[k] <= time + KeyTTL
      PROVE  expires[k] <= time' + KeyTTL
  BY <1>1, <1>4 DEF Values, IInv, Types, Times
<1>5. CacheFollowsProvider'
  BY <1>1, <1>4 DEF IInv, CacheFollowsProvider
<1> QED BY <1>2, <1>3, <1>5 DEF IInv

\* A key leaves the document with the time of this moment, which bounds the expiry
\* it has and dates the downloads that still hold it.
LEMMA RotatePreserves ==
  ASSUME Values, IInv, Rotate
  PROVE  IInv'
<1>1. PICK ks \in SUBSET {k \in Kids : withdrawn[k] = NotYet} :
        /\ published' = ks
        /\ withdrawn' = [k \in Kids |-> IF k \in published \ ks THEN time ELSE withdrawn[k]]
  BY DEF Rotate
<1>2. UNCHANGED <<time, expires, place, token, doc>>
  BY DEF Rotate
<1>3. Types'
  <2>1. withdrawn' \in [Kids -> Times] /\ published' \subseteq Kids
    BY <1>1 DEF IInv, Types, Times
  <2> QED BY <1>2, <2>1 DEF IInv, Types
<1>4. PublishedStands'
  BY <1>1 DEF PublishedStands
<1>5. ASSUME NEW k \in Kids, k \in published, k \notin published' PROVE withdrawn'[k] = time
  BY <1>1, <1>5
<1>6. ASSUME NEW k \in Kids, k \notin published PROVE withdrawn'[k] = withdrawn[k]
  BY <1>1, <1>6
<1>7. time # NotYet
  BY DEF Values, IInv, Types
<1>8. ASSUME NEW k \in Kids, expires[k] # NotYet
      PROVE  \/ k \in published' /\ expires[k] <= time + KeyTTL
             \/ withdrawn'[k] # NotYet /\ expires[k] <= withdrawn'[k] + KeyTTL
  <2>1. CASE k \in published
    <3>1. withdrawn[k] = NotYet
      BY <2>1 DEF IInv, PublishedStands
    <3>2. expires[k] <= time + KeyTTL
      BY <1>8, <3>1 DEF IInv, CacheFollowsProvider
    <3> QED BY <2>1, <3>2, <1>5, <1>7
  <2>2. CASE k \notin published
    BY <1>6, <1>8, <2>2 DEF IInv, CacheFollowsProvider
  <2> QED BY <2>1, <2>2
<1>9. CacheFollowsProvider'
  BY <1>2, <1>8 DEF CacheFollowsProvider
<1>10. DownloadsAreRecent'
  <2> SUFFICES ASSUME NEW l \in Logins, NEW k \in doc[l]
               PROVE  k \in published' \/ withdrawn'[k] = time
    BY <1>2 DEF DownloadsAreRecent
  <2>1. k \in Kids /\ (k \in published \/ withdrawn[k] = time)
    BY DEF IInv, Types, DownloadsAreRecent
  <2> QED BY <2>1, <1>5, <1>6
<1>11. DownloadsInPlace'
  BY <1>2 DEF IInv, DownloadsInPlace
<1> QED BY <1>3, <1>4, <1>9, <1>10, <1>11 DEF IInv

\* The steps of a login that store nothing.
LEMMA LoginPreserves ==
  ASSUME Values, IInv, NEW l \in Logins,
         \/ Start(l) \/ FetchFails(l)
         \/ Parse(l, "parse 1", "lookup 1", "refresh")
         \/ Parse(l, "parse 2", "lookup 2", "rejected")
  PROVE  IInv'
<1>1. UNCHANGED <<time, published, withdrawn, expires, doc>>
  BY DEF Start, FetchFails, Parse
<1>2. \E p \in Places : place' = [place EXCEPT ![l] = p]
  <2>1. CASE Start(l)
    BY <2>1 DEF Start, Goto, Places
  <2>2. CASE FetchFails(l)
    BY <2>2 DEF FetchFails, Goto, Places
  <2>3. CASE Parse(l, "parse 1", "lookup 1", "refresh")
    BY <2>3 DEF Parse, Verified, Failed, Goto, Places
  <2>4. CASE Parse(l, "parse 2", "lookup 2", "rejected")
    BY <2>4 DEF Parse, Verified, Failed, Goto, Places
  <2> QED BY <2>1, <2>2, <2>3, <2>4
<1>3. token' \in [Logins -> [kid : Kids, genuine : BOOLEAN]]
  <2>1. CASE Start(l)
    <3>1. PICK k \in Kids, g \in BOOLEAN : token' = [token EXCEPT ![l] = [kid |-> k, genuine |-> g]]
      BY <2>1 DEF Start
    <3> QED BY <3>1 DEF IInv, Types
  <2>2. CASE token' = token
    BY <2>2 DEF IInv, Types
  <2> QED BY <2>1, <2>2 DEF FetchFails, Parse
<1>4. Types'
  BY <1>1, <1>2, <1>3 DEF IInv, Types
<1>5. PublishedStands' /\ CacheFollowsProvider' /\ DownloadsAreRecent'
  BY <1>1 DEF IInv, PublishedStands, CacheFollowsProvider, DownloadsAreRecent
<1>6. doc[l] = {}
  BY DEF Start, FetchFails, Parse, IInv, DownloadsInPlace, Downloads
<1>7. DownloadsInPlace'
  BY <1>1, <1>2, <1>6 DEF IInv, Types, DownloadsInPlace
<1> QED BY <1>4, <1>5, <1>7 DEF IInv

LEMMA FetchPreserves ==
  ASSUME Values, IInv, NEW l \in Logins, Fetch(l)
  PROVE  IInv'
<1>1. /\ doc' = [doc EXCEPT ![l] = published]
      /\ UNCHANGED <<time, published, withdrawn, expires, place, token>>
  BY DEF Fetch
<1>2. Types'
  BY <1>1 DEF IInv, Types
<1>3. PublishedStands' /\ CacheFollowsProvider'
  BY <1>1 DEF IInv, PublishedStands, CacheFollowsProvider
<1>4. DownloadsAreRecent'
  BY <1>1 DEF IInv, Types, DownloadsAreRecent
<1>5. DownloadsInPlace'
  BY <1>1 DEF Fetch, IInv, Types, DownloadsInPlace
<1> QED BY <1>2, <1>3, <1>4, <1>5 DEF IInv

\* Where a login may be after a download, and that it is accepted only with a
\* genuine token whose key has been found.
LEMMA AfterDownload ==
  ASSUME NEW l \in Logins, NEW found \in BOOLEAN, After(l, found),
         place[l] \in Downloads
  PROVE  \E p \in Places : /\ place' = [place EXCEPT ![l] = p]
                           /\ p = "accepted" => found /\ token[l].genuine
<1> DEFINE good == found /\ token[l].genuine
<1>1. CASE place[l] = "ensure"
  BY <1>1 DEF After, Goto, Places
<1>2. CASE place[l] = "refresh"
  BY <1>2 DEF After, Goto, Places
<1>3. CASE place[l] \in {"lookup 1", "lookup 2"} /\ good
  BY <1>3 DEF After, Goto, Places
<1>4. CASE place[l] = "lookup 1" /\ ~good
  BY <1>4 DEF After, Goto, Places
<1>5. CASE place[l] = "lookup 2" /\ ~good
  BY <1>5 DEF After, Goto, Places
<1> QED BY <1>1, <1>2, <1>3, <1>4, <1>5 DEF Downloads

\* What a download stores: of each of its keys, an expiry counted from this moment.
Kept(l) == [k \in Kids |-> IF k \in doc[l] THEN StoredUntil(k) ELSE expires[k]]

\* The cache with a download stored still follows the provider.
LEMMA KeptFollowsProvider ==
  ASSUME Values, IInv, NEW l \in Logins, NEW k \in Kids, Kept(l)[k] # NotYet
  PROVE  /\ Kept(l)[k] \in Int
         /\ \/ k \in published /\ Kept(l)[k] <= time + KeyTTL
            \/ withdrawn[k] # NotYet /\ Kept(l)[k] <= withdrawn[k] + KeyTTL
<1>1. time \in Int /\ KeyTTL \in Int /\ time # NotYet
  BY DEF Values, IInv, Types
<1>2. CASE k \in doc[l]
  <2>1. Kept(l)[k] = time + KeyTTL
    BY <1>2 DEF Kept, StoredUntil
  <2>2. k \in published \/ withdrawn[k] = time
    BY <1>2 DEF IInv, DownloadsAreRecent
  <2> QED BY <1>1, <2>1, <2>2
<1>3. CASE k \notin doc[l]
  <2>1. Kept(l)[k] = expires[k]
    BY <1>3 DEF Kept
  <2>2. expires[k] \in Times
    BY DEF IInv, Types
  <2> QED BY <2>1, <2>2 DEF Times, IInv, CacheFollowsProvider
<1> QED BY <1>2, <1>3

LEMMA StorePreserves ==
  ASSUME Values, IInv, NEW l \in Logins, Store(l)
  PROVE  IInv'
<1>1. /\ expires' = Kept(l) /\ doc' = [doc EXCEPT ![l] = {}]
      /\ UNCHANGED <<time, published, withdrawn, token>>
  BY DEF Store, Kept
<1>2. /\ place[l] \in Downloads
      /\ \E p \in Places : place' = [place EXCEPT ![l] = p]
  <2>1. place[l] \in Downloads
    BY DEF Store, IInv, DownloadsInPlace
  <2>2. PICK found \in BOOLEAN : After(l, found)
    BY DEF Store
  <2> QED BY <2>1, <2>2, AfterDownload
<1>3. \A k \in Kids : Kept(l)[k] \in Times
  BY KeptFollowsProvider DEF Times
<1>4. Types'
  BY <1>1, <1>2, <1>3 DEF Kept, IInv, Types
<1>5. PublishedStands'
  BY <1>1 DEF IInv, PublishedStands
<1>6. CacheFollowsProvider'
  BY <1>1, KeptFollowsProvider DEF CacheFollowsProvider
<1>7. DownloadsAreRecent'
  BY <1>1 DEF IInv, Types, DownloadsAreRecent
<1>8. DownloadsInPlace'
  BY <1>1, <1>2 DEF IInv, Types, DownloadsInPlace
<1> QED BY <1>4, <1>5, <1>6, <1>7, <1>8 DEF IInv

LEMMA StepPreserves ==
  ASSUME Values, IInv, [Next]_oidcVars
  PROVE  IInv'
<1>1. ASSUME NEW l \in Logins, Start(l) \/ Verify(l) \/ FetchFails(l) PROVE IInv'
  BY <1>1, LoginPreserves, FetchPreserves, StorePreserves DEF Verify
<1>2. CASE UNCHANGED oidcVars
  BY <1>2 DEF oidcVars, IInv, Types, PublishedStands, CacheFollowsProvider,
              DownloadsAreRecent, DownloadsInPlace
<1> QED BY <1>1, <1>2, TickPreserves, RotatePreserves DEF Next

----------------------------------------------------------------------------
\* What the property asks of a step, for one login.
Justified(l) ==
  Decides(l, "accepted")
    => /\ token[l].genuine
       /\ \/ token[l].kid \in published
          \/ time <= withdrawn[token[l].kid] + KeyTTL

\* A key found in the cache justifies a genuine token.
LEMMA CachedKeyJustifies ==
  ASSUME Values, IInv, NEW l \in Logins, token[l].genuine, Cached(token[l].kid)
  PROVE  Justified(l)
<1> DEFINE k == token[l].kid
<1>1. k \in Kids
  BY DEF IInv, Types
<1>2. time \in Int /\ KeyTTL \in Int /\ expires[k] \in Int /\ time <= expires[k]
  BY <1>1 DEF Cached, Values, IInv, Types, Times
<1>3. withdrawn[k] # NotYet => withdrawn[k] \in Int
  BY <1>1 DEF IInv, Types, Times
<1>4. k \in published \/ (withdrawn[k] # NotYet /\ expires[k] <= withdrawn[k] + KeyTTL)
  BY <1>1 DEF Cached, IInv, CacheFollowsProvider
<1>5. k \in published \/ time <= withdrawn[k] + KeyTTL
  BY <1>2, <1>3, <1>4
<1> QED BY <1>5 DEF Justified

\* A download justifies a token whose key it leaves in the cache.
LEMMA StoredKeyJustifies ==
  ASSUME Values, IInv, NEW l \in Logins, Store(l)
  PROVE  \A q \in Logins : Justified(q)
<1> DEFINE k == token[l].kid
           found == Kept(l)[k] # NotYet /\ time <= Kept(l)[k]
<1>1. place[l] \in Downloads /\ After(l, found)
  BY DEF Store, Kept, IInv, DownloadsInPlace
<1>2. PICK p \in Places : /\ place' = [place EXCEPT ![l] = p]
                          /\ p = "accepted" => found /\ token[l].genuine
  <2>1. found \in BOOLEAN
    OBVIOUS
  <2> HIDE DEF found
  <2> QED BY <1>1, <2>1, AfterDownload
<1>3. CASE p = "accepted"
  <2>1. k \in Kids /\ token[l].genuine /\ found
    BY <1>2, <1>3 DEF IInv, Types
  <2>2. /\ Kept(l)[k] \in Int
        /\ \/ k \in published /\ Kept(l)[k] <= time + KeyTTL
           \/ withdrawn[k] # NotYet /\ Kept(l)[k] <= withdrawn[k] + KeyTTL
    BY <2>1, KeptFollowsProvider
  <2>3. time \in Int /\ KeyTTL \in Int /\ (withdrawn[k] # NotYet => withdrawn[k] \in Int)
    BY <2>1 DEF Values, IInv, Types, Times
  <2>4. k \in published \/ time <= withdrawn[k] + KeyTTL
    BY <2>1, <2>2, <2>3
  <2>5. Justified(l)
    BY <2>1, <2>4 DEF Justified
  <2> QED BY <1>2, <2>5 DEF Justified, Decides, IInv, Types
<1>4. CASE p # "accepted"
  BY <1>2, <1>4 DEF Justified, Decides, IInv, Types
<1> QED BY <1>3, <1>4

LEMMA ParseJustifies ==
  ASSUME Values, IInv, NEW l \in Logins, NEW here, NEW lookup \in Places, NEW next \in Places,
         lookup # "accepted", next # "accepted", Parse(l, here, lookup, next)
  PROVE  \A q \in Logins : Justified(q)
<1>1. CASE Verified(l)
  <2>1. Justified(l)
    BY <1>1, CachedKeyJustifies DEF Verified
  <2>2. place' = [place EXCEPT ![l] = "accepted"]
    BY <1>1 DEF Verified, Goto
  <2> QED BY <2>1, <2>2 DEF Justified, Decides, IInv, Types
<1>2. CASE Goto(l, lookup) \/ Goto(l, next)
  BY <1>2 DEF Goto, Justified, Decides, IInv, Types
<1> QED BY <1>1, <1>2 DEF Parse, Failed

LEMMA StepJustified ==
  ASSUME Values, IInv, [Next]_oidcVars, NEW q \in Logins
  PROVE  Justified(q)
<1>1. CASE place' = place
  BY <1>1 DEF Justified, Decides
<1>2. ASSUME NEW l \in Logins, Start(l) \/ FetchFails(l) PROVE Justified(q)
  <2>1. PICK p \in Places \ {"accepted"} : place' = [place EXCEPT ![l] = p]
    <3>1. CASE Start(l)
      BY <3>1 DEF Start, Goto, Places
    <3>2. CASE FetchFails(l)
      <4>1. CASE place[l] = "lookup 1"
        BY <3>2, <4>1 DEF FetchFails, Goto, Places
      <4>2. CASE place[l] # "lookup 1"
        BY <3>2, <4>2 DEF FetchFails, Goto, Places
      <4> QED BY <4>1, <4>2
    <3> QED BY <1>2, <3>1, <3>2
  <2> QED BY <2>1 DEF Justified, Decides, IInv, Types
<1>3. ASSUME NEW l \in Logins, Verify(l) PROVE Justified(q)
  <2>1. CASE Fetch(l)
    BY <1>1, <2>1 DEF Fetch
  <2>2. CASE Store(l)
    BY <2>2, StoredKeyJustifies
  <2>3. CASE Parse(l, "parse 1", "lookup 1", "refresh")
    BY <2>3, ParseJustifies DEF Places
  <2>4. CASE Parse(l, "parse 2", "lookup 2", "rejected")
    BY <2>4, ParseJustifies DEF Places
  <2> QED BY <1>3, <2>1, <2>2, <2>3, <2>4 DEF Verify
<1> QED BY <1>1, <1>2, <1>3 DEF Next, Tick, Rotate, oidcVars

\* A token is accepted only with a genuine signature and a key that is published or
\* was withdrawn no longer than KeyTTL ago, whichever downloads were under way then.
THEOREM WithdrawnKeysAreForgotten ==
  ASSUME Values
  PROVE  Spec => WithdrawnKeysDie
<1>1. Init => IInv
  BY InitEstablishes
<1>2. IInv /\ [Next]_oidcVars => IInv'
  BY StepPreserves
<1>3. IInv /\ [Next]_oidcVars
        => [\A l \in Logins :
              Decides(l, "accepted")
                => /\ token[l].genuine
                   /\ \/ token[l].kid \in published
                      \/ time <= withdrawn[token[l].kid] + KeyTTL]_oidcVars
  BY StepJustified DEF Justified
<1> QED BY <1>1, <1>2, <1>3, PTL DEF Spec, WithdrawnKeysDie

----------------------------------------------------------------------------
(* Published keys.                                                         *)

\* The key of a login that goes well is in the provider's document, ...
KeyStaysPublished == \A l \in Logins : smooth[l] /\ Busy(l) => token[l].kid \in published

\* ... in the document the login has downloaded, ...
DocumentHasKey == \A l \in Logins : smooth[l] /\ doc[l] # {} => token[l].kid \in doc[l]

\* ... and in the cache when it parses again: it needs no second lookup, which would
\* be made in the context of a request that may have ended.
SecondParseFinds ==
  \A l \in Logins : smooth[l] => /\ place[l] = "parse 2" => Cached(token[l].kid)
                                 /\ place[l] # "lookup 2"

KInv == TypeOK /\ DownloadsInPlace /\ KeyStaysPublished /\ DocumentHasKey /\ SecondParseFinds

\* What TypeOK assumes of the constants.
Bounds == Values /\ LastTime \in Nat

LEMMA KeysStart ==
  ASSUME Bounds, Init
  PROVE  KInv
<1>1. PICK k0 \in Kids : published = {k0}
  BY DEF Init
<1>2. (CHOOSE k \in Kids : TRUE) \in Kids
  BY <1>1
<1>3. [kid |-> CHOOSE k \in Kids : TRUE, genuine |-> TRUE] \in [kid : Kids, genuine : BOOLEAN]
  BY <1>2
<1>4. token \in [Logins -> [kid : Kids, genuine : BOOLEAN]]
  BY <1>3 DEF Init
<1>5. TypeOK
  <2>1. time \in 0 .. LastTime
    BY DEF Init, Bounds
  <2>2. published \subseteq Kids
    BY <1>1
  <2> QED BY <1>4, <2>1, <2>2 DEF Init, TypeOK
<1>6. DownloadsInPlace /\ KeyStaysPublished /\ DocumentHasKey /\ SecondParseFinds
  BY DEF Init, DownloadsInPlace, KeyStaysPublished, DocumentHasKey, SecondParseFinds, Busy
<1> QED BY <1>5, <1>6 DEF KInv

\* The clock and the provider.
LEMMA WorldKeeps ==
  ASSUME Bounds, KInv, Tick \/ Rotate
  PROVE  KInv'
<1>1. CASE Tick
  <2>1. /\ time' \in 0 .. LastTime
        /\ \A l \in Logins : doc[l] = {}
        /\ UNCHANGED <<published, withdrawn, cachedAt, expires, place, token, doc, keyFunc, using>>
        /\ \A l \in Logins : smooth'[l] = (smooth[l] /\ (place[l] = "parse 2" => Cached(token[l].kid)'))
        /\ smooth' \in [Logins -> BOOLEAN]
    <3>1. \A l \in Logins : (smooth[l] /\ (place[l] = "parse 2" => Cached(token[l].kid)')) \in BOOLEAN
      OBVIOUS
    <3>2. smooth' = [l \in Logins |-> smooth[l] /\ (place[l] = "parse 2" => Cached(token[l].kid)')]
      BY <1>1 DEF Tick
    <3>3. smooth' \in [Logins -> BOOLEAN]
      BY <3>1, <3>2
    <3>4. time' \in 0 .. LastTime
      <4>1. time \in 0 .. LastTime /\ LastTime \in Nat
        BY DEF KInv, TypeOK, Bounds
      <4>2. time < LastTime /\ time' = time + 1
        BY <1>1 DEF Tick
      <4> QED BY <4>1, <4>2
    <3> QED BY <1>1, <3>2, <3>3, <3>4 DEF Tick
  <2>2. TypeOK'
    BY <2>1 DEF KInv, TypeOK
  <2>3. DownloadsInPlace' /\ KeyStaysPublished' /\ DocumentHasKey'
    BY <2>1 DEF KInv, DownloadsInPlace, KeyStaysPublished, DocumentHasKey, Busy
  <2>4. SecondParseFinds'
    BY <2>1 DEF KInv, SecondParseFinds
  <2> QED BY <2>2, <2>3, <2>4 DEF KInv
<1>2. CASE Rotate
  <2>1. PICK ks \in SUBSET {k \in Kids : withdrawn[k] = NotYet} :
          /\ published' = ks
          /\ withdrawn' = [k \in Kids |-> IF k \in published \ ks THEN time ELSE withdrawn[k]]
          /\ smooth' = [l \in Logins |-> smooth[l] /\ (Busy(l) => token[l].kid \in ks)]
    BY <1>2 DEF Rotate
  <2>2. UNCHANGED <<time, cachedAt, expires, place, token, doc, keyFunc, using>>
    BY <1>2 DEF Rotate
  <2>3. \A l \in Logins : (smooth[l] /\ (Busy(l) => token[l].kid \in ks)) \in BOOLEAN
    OBVIOUS
  <2>4. smooth' \in [Logins -> BOOLEAN]
    BY <2>1, <2>3
  <2>5. \A l \in Logins : smooth'[l] => smooth[l] /\ (Busy(l) => token[l].kid \in published')
    BY <2>1
  <2>6. TypeOK'
    BY <2>1, <2>2, <2>4 DEF KInv, TypeOK
  <2>7. DownloadsInPlace' /\ KeyStaysPublished' /\ DocumentHasKey' /\ SecondParseFinds'
    BY <2>2, <2>5 DEF KInv, DownloadsInPlace, KeyStaysPublished, DocumentHasKey, SecondParseFinds,
                      Busy, Cached
  <2> QED BY <2>6, <2>7 DEF KInv
<1> QED BY <1>1, <1>2

LEMMA MembershipIsBoolean ==
  ASSUME NEW x, NEW S
  PROVE  (x \in S) \in BOOLEAN
OBVIOUS

\* The steps of a login that store nothing.
LEMMA LoginKeeps ==
  ASSUME Bounds, KInv, NEW l \in Logins,
         \/ Start(l) \/ FetchFails(l)
         \/ Parse(l, "parse 1", "lookup 1", "refresh")
         \/ Parse(l, "parse 2", "lookup 2", "rejected")
  PROVE  KInv'
<1>1. UNCHANGED <<time, published, withdrawn, cachedAt, expires, doc, keyFunc>>
  BY DEF Start, FetchFails, Parse
<1>2. PICK p \in Places :
        /\ place' = [place EXCEPT ![l] = p]
        /\ \/ Start(l) /\ p \in {"parse 1", "ensure"}
           \/ /\ Busy(l) /\ ~Start(l)
              /\ \/ p \in {"accepted", "rejected", "refresh", "lookup 1"}
                 \/ p = "lookup 2" /\ place[l] = "parse 2" /\ ~Cached(token[l].kid)
  <2>1. CASE Start(l)
    <3>1. \E p \in {"parse 1", "ensure"} : place' = [place EXCEPT ![l] = p]
      BY <2>1 DEF Start, Goto
    <3> QED BY <2>1, <3>1 DEF Places
  <2>2. CASE FetchFails(l)
    <3>1. /\ \E p \in {"refresh", "rejected"} : place' = [place EXCEPT ![l] = p]
          /\ place[l] \in Downloads
      BY <2>2 DEF FetchFails, Goto
    <3>2. Busy(l) /\ ~Start(l)
      BY <3>1 DEF Busy, Start, Downloads
    <3> QED BY <3>1, <3>2 DEF Places
  <2>3. CASE Parse(l, "parse 1", "lookup 1", "refresh")
    <3>1. /\ \E p \in {"accepted", "refresh", "lookup 1"} : place' = [place EXCEPT ![l] = p]
          /\ place[l] = "parse 1"
      BY <2>3 DEF Parse, Verified, Failed, Goto
    <3>2. Busy(l) /\ ~Start(l)
      BY <3>1 DEF Busy, Start
    <3> QED BY <3>1, <3>2 DEF Places
  <2>4. CASE Parse(l, "parse 2", "lookup 2", "rejected")
    <3>1. /\ \/ \E p \in {"accepted", "rejected"} : place' = [place EXCEPT ![l] = p]
             \/ place' = [place EXCEPT ![l] = "lookup 2"] /\ ~Cached(token[l].kid)
          /\ place[l] = "parse 2"
      BY <2>4 DEF Parse, Verified, Failed, Goto
    <3>2. Busy(l) /\ ~Start(l)
      BY <3>1 DEF Busy, Start
    <3> QED BY <3>1, <3>2 DEF Places
  <2> QED BY <2>1, <2>2, <2>3, <2>4
<1>3. doc[l] = {}
  BY DEF Start, FetchFails, Parse, KInv, DownloadsInPlace, Downloads
<1>4. /\ token' \in [Logins -> [kid : Kids, genuine : BOOLEAN]]
      /\ smooth' \in [Logins -> BOOLEAN]
      /\ using' \in [Logins -> Logins \union {NotYet}]
      /\ \A q \in Logins \ {l} : token'[q] = token[q] /\ smooth'[q] = smooth[q]
      /\ smooth'[l] => \/ Start(l) /\ token'[l].kid \in published
                       \/ ~Start(l) /\ smooth[l] /\ token'[l] = token[l]
  <2>1. CASE Start(l)
    <3>1. PICK k \in Kids, g \in BOOLEAN :
            /\ token' = [token EXCEPT ![l] = [kid |-> k, genuine |-> g]]
            /\ smooth' = [smooth EXCEPT ![l] = k \in published]
      BY <2>1 DEF Start
    <3>2. UNCHANGED using
      BY <2>1 DEF Start
    <3>3. /\ [kid |-> k, genuine |-> g] \in [kid : Kids, genuine : BOOLEAN]
          /\ [kid |-> k, genuine |-> g].kid = k
      OBVIOUS
    <3>4. PICK b \in BOOLEAN : smooth' = [smooth EXCEPT ![l] = b] /\ (b => k \in published)
      BY <3>1, MembershipIsBoolean
    <3>5. token \in [Logins -> [kid : Kids, genuine : BOOLEAN]] /\ smooth \in [Logins -> BOOLEAN]
          /\ using \in [Logins -> Logins \union {NotYet}]
      BY DEF KInv, TypeOK
    <3>6. token'[l].kid = k /\ token' \in [Logins -> [kid : Kids, genuine : BOOLEAN]]
          /\ \A q \in Logins \ {l} : token'[q] = token[q]
      BY <3>1, <3>3, <3>5
    <3>7. (smooth'[l] => k \in published) /\ smooth' \in [Logins -> BOOLEAN]
          /\ \A q \in Logins \ {l} : smooth'[q] = smooth[q]
      BY <3>4, <3>5
    <3> QED BY <2>1, <3>2, <3>5, <3>6, <3>7
  <2>2. CASE FetchFails(l)
    <3>1. /\ smooth' = [smooth EXCEPT ![l] = smooth[l] /\ ~Busy(Ctx(l))]
          /\ using' = [using EXCEPT ![l] = NotYet] /\ UNCHANGED token /\ ~Start(l)
      BY <2>2 DEF FetchFails, Start, Downloads
    <3>2. (smooth[l] /\ ~Busy(Ctx(l))) \in BOOLEAN
      OBVIOUS
    <3> QED BY <3>1, <3>2 DEF KInv, TypeOK
  <2>3. ASSUME NEW here \in {"parse 1", "parse 2"}, NEW look, NEW next, Parse(l, here, look, next)
        PROVE  <1>4!:
    <3>1. ~Start(l) /\ UNCHANGED <<token, smooth>>
      BY <2>3 DEF Parse, Start
    <3>2. using' \in [Logins -> Logins \union {NotYet}]
      BY <2>3 DEF Parse, KInv, TypeOK
    <3> QED BY <3>1, <3>2 DEF KInv, TypeOK
  <2> QED BY <2>1, <2>2, <2>3
<1>5. TypeOK'
  BY <1>1, <1>2, <1>4 DEF KInv, TypeOK, Places, Downloads
<1>6. DownloadsInPlace'
  BY <1>1, <1>2, <1>3 DEF KInv, TypeOK, DownloadsInPlace
<1>7. \A q \in Logins \ {l} : place'[q] = place[q]
  BY <1>2 DEF KInv, TypeOK
<1>8. place'[l] = p
  BY <1>2 DEF KInv, TypeOK
<1>9. KeyStaysPublished'
  <2> SUFFICES ASSUME NEW q \in Logins, smooth'[q], Busy(q)' PROVE token'[q].kid \in published
    BY <1>1 DEF KeyStaysPublished
  <2>1. CASE q = l
    BY <1>2, <1>4, <1>8, <2>1 DEF KInv, KeyStaysPublished
  <2>2. CASE q # l
    BY <1>4, <1>7, <2>2 DEF KInv, KeyStaysPublished, Busy
  <2> QED BY <2>1, <2>2
<1>10. DocumentHasKey'
  BY <1>1, <1>3, <1>4 DEF KInv, DocumentHasKey
<1>11. SecondParseFinds'
  <2> SUFFICES ASSUME NEW q \in Logins, smooth'[q]
               PROVE  /\ place'[q] = "parse 2" => Cached(token[q].kid)'
                      /\ place'[q] # "lookup 2"
    BY DEF SecondParseFinds
  <2>1. CASE q = l
    BY <1>2, <1>4, <1>8, <2>1 DEF KInv, SecondParseFinds
  <2>2. CASE q # l
    BY <1>1, <1>4, <1>7, <2>2 DEF KInv, SecondParseFinds, Cached
  <2> QED BY <2>1, <2>2
<1> QED BY <1>5, <1>6, <1>9, <1>10, <1>11 DEF KInv

LEMMA FetchKeeps ==
  ASSUME Bounds, KInv, NEW l \in Logins, Fetch(l)
  PROVE  KInv'
<1>1. /\ place[l] \in Downloads /\ doc' = [doc EXCEPT ![l] = published] /\ Busy(l)
      /\ UNCHANGED <<time, published, withdrawn, cachedAt, expires, place, token, keyFunc, using, smooth>>
  BY DEF Fetch, Busy, Downloads
<1>2. TypeOK'
  BY <1>1 DEF KInv, TypeOK
<1>3. DownloadsInPlace' /\ KeyStaysPublished' /\ SecondParseFinds'
  BY <1>1 DEF KInv, TypeOK, DownloadsInPlace, KeyStaysPublished, SecondParseFinds, Busy, Cached
<1>4. DocumentHasKey'
  BY <1>1 DEF KInv, TypeOK, KeyStaysPublished, DocumentHasKey
<1> QED BY <1>2, <1>3, <1>4 DEF KInv

LEMMA StoreKeeps ==
  ASSUME Bounds, KInv, NEW l \in Logins, Store(l)
  PROVE  KInv'
<1>1. /\ expires' = Kept(l) /\ doc' = [doc EXCEPT ![l] = {}] /\ cachedAt' = time
      /\ keyFunc' = Ctx(l) /\ using' = [using EXCEPT ![l] = NotYet] /\ doc[l] # {}
      /\ UNCHANGED <<time, published, withdrawn, token, smooth>>
  BY DEF Store, Kept
<1>2. place[l] \in Downloads /\ place \in [Logins -> Places]
  BY <1>1 DEF KInv, TypeOK, DownloadsInPlace, Places, Downloads
<1>3. PICK p \in Places \ {"idle"} :
        /\ place' = [place EXCEPT ![l] = p]
        /\ p = "parse 2" => place[l] = "refresh"
        /\ p # "lookup 2" 
  <2>1. PICK found \in BOOLEAN : After(l, found)
    BY DEF Store
  <2> DEFINE good == found /\ token[l].genuine
  <2>2. CASE place[l] = "ensure"
    BY <2>1, <2>2 DEF After, Goto, Places
  <2>3. CASE place[l] = "refresh"
    BY <2>1, <2>3 DEF After, Goto, Places
  <2>4. CASE place[l] \in {"lookup 1", "lookup 2"} /\ good
    BY <2>1, <2>4 DEF After, Goto, Places
  <2>5. CASE place[l] = "lookup 1" /\ ~good
    BY <2>1, <2>5 DEF After, Goto, Places
  <2>6. CASE place[l] = "lookup 2" /\ ~good
    BY <2>1, <2>6 DEF After, Goto, Places
  <2> QED BY <1>2, <2>2, <2>3, <2>4, <2>5, <2>6 DEF Downloads
<1>4. /\ time \in 0 .. LastTime /\ time \in Int /\ time + KeyTTL \in 0 .. LastTime + KeyTTL
      /\ time + KeyTTL # NotYet /\ time <= time + KeyTTL
      /\ \A k \in Kids : expires[k] \in {NotYet} \union 0 .. LastTime + KeyTTL
  <2>1. /\ time \in 0 .. LastTime /\ LastTime \in Nat /\ KeyTTL \in Nat /\ NotYet \notin Int
        /\ expires \in [Kids -> {NotYet} \union 0 .. LastTime + KeyTTL]
    BY DEF KInv, TypeOK, Bounds, Values
  <2> QED BY <2>1
<1>5. \A k \in Kids : k \in doc[l] \/ Cached(k) => expires'[k] # NotYet /\ time <= expires'[k]
  <2> SUFFICES ASSUME NEW k \in Kids, k \in doc[l] \/ Cached(k)
               PROVE  expires'[k] # NotYet /\ time <= expires'[k]
    OBVIOUS
  <2>1. expires'[k] = IF k \in doc[l] THEN time + KeyTTL ELSE expires[k]
    BY <1>1 DEF Kept, StoredUntil
  <2>2. CASE k \in doc[l]
    BY <1>4, <2>1, <2>2
  <2>3. CASE k \notin doc[l]
    BY <2>1, <2>3 DEF Cached
  <2> QED BY <2>2, <2>3
<1>6. expires' \in [Kids -> {NotYet} \union 0 .. LastTime + KeyTTL]
  BY <1>1, <1>4 DEF Kept, StoredUntil
<1>7. Ctx(l) \in Logins \union {NotYet}
  BY DEF Ctx, KInv, TypeOK
<1>8. TypeOK'
  BY <1>1, <1>2, <1>3, <1>4, <1>6, <1>7 DEF KInv, TypeOK, Places, Downloads
<1>9. DownloadsInPlace'
  BY <1>1, <1>2, <1>3 DEF KInv, TypeOK, DownloadsInPlace
<1>10. Busy(l)
  BY <1>2 DEF Busy, Downloads
<1>11. KeyStaysPublished'
  BY <1>1, <1>2, <1>3, <1>10 DEF KInv, KeyStaysPublished, Busy
<1>12. DocumentHasKey'
  BY <1>1 DEF KInv, TypeOK, DocumentHasKey
<1>13. SecondParseFinds'
  <2> SUFFICES ASSUME NEW q \in Logins, smooth[q]
               PROVE  /\ place'[q] = "parse 2" => Cached(token[q].kid)'
                      /\ place'[q] # "lookup 2"
    BY <1>1 DEF SecondParseFinds
  <2>1. token[q].kid \in Kids
    BY DEF KInv, TypeOK
  <2>2. CASE q = l
    <3>1. token[l].kid \in doc[l]
      BY <1>1, <2>2 DEF KInv, DocumentHasKey
    <3>2. Cached(token[q].kid)'
      BY <1>1, <1>5, <2>1, <2>2, <3>1 DEF Cached
    <3>3. place'[q] = p
      BY <1>2, <1>3, <2>2
    <3> QED BY <1>3, <3>2, <3>3
  <2>3. CASE q # l
    <3>1. place'[q] = place[q]
      BY <1>2, <1>3, <2>3
    <3>2. Cached(token[q].kid) => Cached(token[q].kid)'
      BY <1>1, <1>5, <2>1 DEF Cached
    <3> QED BY <3>1, <3>2 DEF KInv, SecondParseFinds
  <2> QED BY <2>2, <2>3
<1> QED BY <1>8, <1>9, <1>11, <1>12, <1>13 DEF KInv

LEMMA KeysStep ==
  ASSUME Bounds, KInv, [Next]_oidcVars
  PROVE  KInv'
<1>1. ASSUME NEW l \in Logins, Start(l) \/ Verify(l) \/ FetchFails(l) PROVE KInv'
  BY <1>1, LoginKeeps, FetchKeeps, StoreKeeps DEF Verify
<1>2. CASE UNCHANGED oidcVars
  BY <1>2 DEF oidcVars, KInv, TypeOK, DownloadsInPlace, KeyStaysPublished, DocumentHasKey,
              SecondParseFinds, Busy, Cached
<1> QED BY <1>1, <1>2, WorldKeeps DEF Next

\* What PublishedKeysWork asks of a step.
LEMMA RejectionHasReason ==
  ASSUME Bounds, KInv, [Next]_oidcVars, NEW l \in Logins, Decides(l, "rejected"), token[l].genuine
  PROVE  ~smooth'[l]
<1>1. place \in [Logins -> Places] /\ place[l] # "rejected" /\ place'[l] = "rejected"
  BY DEF KInv, TypeOK, Decides, Places, Downloads
<1>2. PICK q \in Logins : Start(q) \/ Verify(q) \/ FetchFails(q)
  BY <1>1 DEF Next, Tick, Rotate, oidcVars
<1>3. \E p \in Places : place' = [place EXCEPT ![q] = p] \/ UNCHANGED place
  <2>1. CASE Start(q)
    BY <2>1 DEF Start, Goto, Places
  <2>2. CASE FetchFails(q)
    BY <2>2 DEF FetchFails, Goto, Places
  <2>3. CASE Fetch(q)
    BY <2>3 DEF Fetch, Places
  <2>4. CASE Store(q)
    <3>1. place[q] \in Downloads /\ \E found \in BOOLEAN : After(q, found)
      BY <2>4 DEF Store, KInv, DownloadsInPlace
    <3> QED BY <3>1, AfterDownload
  <2>5. CASE Parse(q, "parse 1", "lookup 1", "refresh")
    BY <2>5 DEF Parse, Verified, Failed, Goto, Places
  <2>6. CASE Parse(q, "parse 2", "lookup 2", "rejected")
    BY <2>6 DEF Parse, Verified, Failed, Goto, Places
  <2> QED BY <1>2, <2>1, <2>2, <2>3, <2>4, <2>5, <2>6 DEF Verify
<1>4. q = l
  BY <1>1, <1>3
<1>5. CASE FetchFails(l)
  <2>1. /\ place[l] \in Downloads \ {"lookup 1"}
        /\ smooth' = [smooth EXCEPT ![l] = smooth[l] /\ ~Busy(Ctx(l))]
    BY <1>1, <1>5 DEF FetchFails, Goto
  <2>2. smooth'[l] = (smooth[l] /\ ~Busy(Ctx(l)))
    BY <2>1 DEF KInv, TypeOK
  <2>3. CASE place[l] = "lookup 2"
    BY <2>2, <2>3 DEF KInv, SecondParseFinds
  <2>4. CASE place[l] # "lookup 2"
    BY <2>1, <2>2, <2>4 DEF Ctx, Busy, Downloads
  <2> QED BY <2>3, <2>4
<1>6. CASE Store(l)
  <2>1. place[l] = "lookup 2" /\ UNCHANGED smooth
    BY <1>1, <1>6 DEF Store, After, Goto, KInv, DownloadsInPlace, Downloads
  <2> QED BY <2>1 DEF KInv, SecondParseFinds
<1>7. CASE Parse(l, "parse 2", "lookup 2", "rejected")
  BY <1>1, <1>7 DEF Parse, Verified, Failed, Goto
<1>8. ~Start(l) /\ ~Fetch(l) /\ ~Parse(l, "parse 1", "lookup 1", "refresh")
  BY <1>1 DEF Start, Fetch, Parse, Verified, Failed, Goto
<1> QED BY <1>2, <1>4, <1>5, <1>6, <1>7, <1>8 DEF Verify

\* A genuine token whose key is published all the time is rejected only if a download
\* failed or the key's life was over before it was used: new keys are found although
\* an old set is cached, whichever request built the key function and has ended.
THEOREM PublishedKeysAreFound ==
  ASSUME Bounds
  PROVE  Spec => PublishedKeysWork
<1>1. Init => KInv
  BY KeysStart
<1>2. KInv /\ [Next]_oidcVars => KInv'
  BY KeysStep
<1>3. KInv /\ [Next]_oidcVars
        => [\A l \in Logins : Decides(l, "rejected") /\ token[l].genuine => ~smooth'[l]]_oidcVars
  BY RejectionHasReason
<1> QED BY <1>1, <1>2, <1>3, PTL DEF Spec, PublishedKeysWork
=============================================================================
