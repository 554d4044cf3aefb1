--------------------------- MODULE ServicesProofs ---------------------------
(***************************************************************************)
(* What the components of MCServices keep to although what they work with  *)
(* may be stale: verdicts of an outage, tokens of a deleted account,       *)
(* profiles that a client has stored, a copy of the event table in Redis,  *)
(* lists that change while they are paged through, keys of a provider.     *)
(* Each component moves alone, so its own invariant is that of the         *)
(* behaviours in which it stands beside the others.                        *)
(***************************************************************************)
EXTENDS MCServices, OidcKeysProofs, FiniteSetTheorems

----------------------------------------------------------------------------
(* Content moderation.                                                     *)

\* An entry that lets a flagged text through dies TTL after its excuse at latest.
ExcusesDie ==
  \A e \in verdicts : e.allowed /\ e.text \in Flagged => e.expires <= lenient[e.text] + TTL

ExcusesPast == \A t \in Texts : lenient[t] <= clock

FilterInv == F!TypeOK /\ ExcusesDie /\ ExcusesPast

LEMMA FilterNumbers == TTL \in Nat /\ EndOfTime \in Nat /\ Texts # {} /\ F!Never \in Int /\ F!Never < 0
BY ServicesAssumption DEF ServicesAssumption, F!Never

LEMMA FilterStart ==
  ASSUME F!Init
  PROVE  FilterInv
<1>1. (CHOOSE t \in Texts : TRUE) \in Texts
  BY FilterNumbers
<1> QED BY <1>1, FilterNumbers DEF F!Init, FilterInv, F!TypeOK, ExcusesDie, ExcusesPast

\* A text is excused at this moment, which is later than any excuse it had.
LEMMA ExcuseKeeps ==
  ASSUME FilterInv, NEW t \in Texts, F!Excused(t)
  PROVE  /\ lenient' \in [Texts -> {F!Never} \union 0 .. EndOfTime]
         /\ \A u \in Texts : lenient[u] <= lenient'[u] /\ lenient'[u] <= clock
         /\ lenient'[t] = clock
<1>1. /\ lenient' = [lenient EXCEPT ![t] = clock] /\ clock \in 0 .. EndOfTime
      /\ lenient \in [Texts -> {F!Never} \union 0 .. EndOfTime]
      /\ \A u \in Texts : lenient[u] <= clock /\ lenient[u] \in Int
  BY FilterNumbers DEF F!Excused, FilterInv, F!TypeOK, ExcusesPast
<1> QED BY <1>1

\* The answer of a check that leaves the cache alone, excused or not.
LEMMA AnswerKeeps ==
  ASSUME FilterInv, NEW c \in Checkers, NEW s \in {201, 422, 500}, F!Answer(c, s),
         UNCHANGED verdicts, F!Excused(text[c]) \/ UNCHANGED lenient
  PROVE  FilterInv'
<1>1. /\ lenient' \in [Texts -> {F!Never} \union 0 .. EndOfTime]
      /\ \A u \in Texts : lenient[u] <= lenient'[u] /\ lenient'[u] <= clock
                          /\ lenient[u] \in Int /\ lenient'[u] \in Int
  <2>1. text[c] \in Texts
    BY DEF FilterInv, F!TypeOK
  <2>2. CASE F!Excused(text[c])
    BY <2>1, <2>2, ExcuseKeeps, FilterNumbers DEF FilterInv, F!TypeOK
  <2>3. CASE UNCHANGED lenient
    BY <2>3, FilterNumbers DEF FilterInv, F!TypeOK, ExcusesPast
  <2> QED BY <2>2, <2>3
<1>2. F!TypeOK'
  BY <1>1 DEF F!Answer, FilterInv, F!TypeOK
<1>3. ExcusesPast'
  BY <1>1 DEF F!Answer, ExcusesPast
<1>4. ASSUME NEW e \in verdicts, e.allowed, e.text \in Flagged
      PROVE  e.expires <= lenient'[e.text] + TTL
  <2>1. e.text \in Texts /\ e.expires \in Int /\ e.expires <= lenient[e.text] + TTL
    BY <1>4, FilterNumbers DEF FilterInv, F!TypeOK, F!Entries, ExcusesDie
  <2> QED BY <1>1, <2>1, FilterNumbers
<1>5. ExcusesDie'
  BY <1>4 DEF ExcusesDie
<1> QED BY <1>2, <1>3, <1>5 DEF FilterInv

\* A verdict is cached, and the excuse with it.
LEMMA SetKeeps ==
  ASSUME FilterInv, NEW c \in Checkers, F!Set(c)
  PROVE  FilterInv'
<1> DEFINE t == text[c]
           mine == [text |-> t, allowed |-> passed[c], expires |-> clock + TTL]
<1>1. t \in Texts /\ passed[c] \in BOOLEAN /\ clock \in 0 .. EndOfTime
  BY DEF FilterInv, F!TypeOK
<1>2. /\ verdicts' = {e \in verdicts : e.text # t} \union {mine}
      /\ IF passed[c] /\ t \in Flagged THEN F!Excused(t) ELSE UNCHANGED lenient
      /\ F!Answer(c, F!Status(passed[c]))
  BY DEF F!Set, F!Expiry
<1>3. mine \in F!Entries
  BY <1>1, FilterNumbers DEF F!Entries
<1>4. /\ lenient' \in [Texts -> {F!Never} \union 0 .. EndOfTime]
      /\ \A u \in Texts : lenient[u] <= lenient'[u] /\ lenient'[u] <= clock
                          /\ lenient[u] \in Int /\ lenient'[u] \in Int
      /\ passed[c] /\ t \in Flagged => lenient'[t] = clock
  <2>1. CASE passed[c] /\ t \in Flagged
    BY <1>1, <1>2, <2>1, ExcuseKeeps, FilterNumbers DEF FilterInv, F!TypeOK
  <2>2. CASE ~(passed[c] /\ t \in Flagged)
    BY <1>2, <2>2, FilterNumbers DEF FilterInv, F!TypeOK, ExcusesPast
  <2> QED BY <2>1, <2>2
<1>5. F!TypeOK'
  BY <1>2, <1>3, <1>4 DEF F!Answer, F!Status, FilterInv, F!TypeOK
<1>6. ExcusesPast'
  BY <1>2, <1>4 DEF F!Answer, ExcusesPast
<1>7. ASSUME NEW e \in verdicts, e.allowed, e.text \in Flagged
      PROVE  e.expires <= lenient'[e.text] + TTL
  <2>1. e.text \in Texts /\ e.expires \in Int /\ e.expires <= lenient[e.text] + TTL
    BY <1>7, FilterNumbers DEF FilterInv, F!TypeOK, F!Entries, ExcusesDie
  <2> QED BY <1>4, <2>1, FilterNumbers
<1>8. ExcusesDie'
  <2>1. mine.allowed /\ mine.text \in Flagged => mine.expires <= lenient'[mine.text] + TTL
    BY <1>1, <1>4, FilterNumbers
  <2> HIDE DEF mine
  <2> QED BY <1>2, <1>7, <2>1 DEF ExcusesDie
<1> QED BY <1>5, <1>6, <1>8 DEF FilterInv

LEMMA FilterStep ==
  ASSUME FilterInv, [F!Next]_fVars
  PROVE  FilterInv'
<1>1. CASE F!Tick
  <2>1. clock' = clock + 1 /\ clock' \in 0 .. EndOfTime /\ clock \in Int
    BY <1>1, FilterNumbers DEF F!Tick, FilterInv, F!TypeOK
  <2>2. \A t \in Texts : lenient[t] \in Int
    BY FilterNumbers DEF FilterInv, F!TypeOK
  <2> QED BY <1>1, <2>1, <2>2 DEF F!Tick, FilterInv, F!TypeOK, ExcusesDie, ExcusesPast
<1>2. CASE F!Evict
  BY <1>2 DEF F!Evict, FilterInv, F!TypeOK, ExcusesDie, ExcusesPast
<1>3. ASSUME NEW c \in Checkers, F!Submit(c) PROVE FilterInv'
  BY <1>3 DEF F!Submit, FilterInv, F!TypeOK, ExcusesDie, ExcusesPast
<1>4. ASSUME NEW c \in Checkers,
             F!Noop(c) \/ F!Get(c) \/ F!GetFails(c) \/ F!AskGarbled(c) \/ F!SetFails(c)
      PROVE  FilterInv'
  <2>1. CASE F!Get(c) /\ F!Cached(text[c]) = {}
    BY <2>1 DEF F!Get, F!Goto, FilterInv, F!TypeOK, ExcusesDie, ExcusesPast
  <2>2. CASE ~(F!Get(c) /\ F!Cached(text[c]) = {})
    <3>1. PICK s \in {201, 422, 500} :
            F!Answer(c, s) /\ UNCHANGED verdicts /\ (F!Excused(text[c]) \/ UNCHANGED lenient)
      BY <1>4, <2>2 DEF F!Noop, F!Get, F!GetFails, F!AskGarbled, F!SetFails, F!Status
    <3> QED BY <3>1, AnswerKeeps
  <2> QED BY <2>1, <2>2
<1>5. ASSUME NEW c \in Checkers, F!Ask(c) \/ F!AskFails(c) PROVE FilterInv'
  <2>1. /\ stage' = [stage EXCEPT ![c] = "set"]
        /\ \E b \in BOOLEAN : passed' = [passed EXCEPT ![c] = b]
        /\ UNCHANGED <<clock, backend, text, outcome, verdicts, lenient>>
    <3>1. CASE F!Ask(c)
      <4>1. (text[c] \notin Flagged) \in BOOLEAN
        OBVIOUS
      <4> QED BY <3>1, <4>1 DEF F!Ask, F!Goto
    <3>2. CASE F!AskFails(c)
      BY <3>2 DEF F!AskFails, F!Goto
    <3> QED BY <1>5, <3>1, <3>2
  <2>2. F!TypeOK'
    BY <2>1 DEF FilterInv, F!TypeOK
  <2> QED BY <2>1, <2>2 DEF FilterInv, ExcusesDie, ExcusesPast
<1>6. CASE UNCHANGED fVars
  BY <1>6 DEF fVars, FilterInv, F!TypeOK, ExcusesDie, ExcusesPast
<1> QED BY <1>1, <1>2, <1>3, <1>4, <1>5, <1>6, SetKeeps DEF F!Next, F!Check

\* What LeniencyExpires asks of a step.
LEMMA LeniencyFades ==
  ASSUME FilterInv, [F!Next]_fVars, NEW c \in Checkers,
         outcome'[c] = 201, outcome[c] # 201, text[c] \in Flagged
  PROVE  clock - lenient'[text[c]] <= TTL
<1>1. text[c] \in Texts /\ clock \in Int /\ lenient[text[c]] \in Int
  BY FilterNumbers DEF FilterInv, F!TypeOK
<1>2. PICK d \in Checkers : F!Noop(d) \/ F!Get(d) \/ F!GetFails(d) \/ F!Set(d)
  BY DEF F!Next, F!Check, F!Tick, F!Evict, F!Submit, F!Ask, F!AskFails, F!AskGarbled, F!SetFails,
         F!Goto, F!Answer, FilterInv, F!TypeOK, fVars
<1>3. \E s \in {0, 201, 422, 500} : outcome' = [outcome EXCEPT ![d] = s]
  BY <1>2 DEF F!Noop, F!Get, F!GetFails, F!Set, F!Goto, F!Answer, F!Status, FilterInv, F!TypeOK
<1>4. d = c
  BY <1>3 DEF FilterInv, F!TypeOK
<1>5. CASE F!Excused(text[c])
  <2>1. lenient'[text[c]] = clock
    BY <1>1, <1>5, ExcuseKeeps
  <2> QED BY <1>1, <2>1, FilterNumbers
<1>6. CASE F!Get(c)
  <2>1. PICK e \in F!Cached(text[c]) : F!Answer(c, F!Status(e.allowed)) /\ UNCHANGED lenient
    BY <1>6 DEF F!Get, F!Goto
  <2>2. e.allowed
    BY <2>1 DEF F!Answer, F!Status, FilterInv, F!TypeOK
  <2>3. e \in verdicts /\ e.text = text[c] /\ clock <= e.expires /\ e.expires \in Int
    BY <2>1, FilterNumbers DEF F!Cached, FilterInv, F!TypeOK, F!Entries
  <2>4. e.expires <= lenient[text[c]] + TTL
    BY <2>2, <2>3 DEF FilterInv, ExcusesDie
  <2> QED BY <1>1, <2>1, <2>3, <2>4, FilterNumbers
<1>7. CASE F!Set(c)
  <2>1. passed[c]
    BY <1>7 DEF F!Set, F!Answer, F!Status, FilterInv, F!TypeOK
  <2> QED BY <1>5, <1>7, <2>1 DEF F!Set
<1> QED BY <1>2, <1>4, <1>5, <1>6, <1>7 DEF F!Noop, F!GetFails

----------------------------------------------------------------------------
(* Accounts.                                                               *)

\* Operations that need a token; they are admitted and then run.
PowerOps == {"profile", "update", "delete", "subscribe", "unsubscribe"}

JobsFit ==
  \A w \in Workers :
    /\ step[w] = "idle" => ask[w] = {}
    /\ step[w] = "find" => \A j \in ask[w] : j.op \in {"register", "login", "oauth", "seed"}

\* An id is that of one account for ever, and everything was stamped in the past.
IdsUnique == \A r, q \in rows : r.id = q.id => r = q

StampsPast ==
  /\ \A r \in rows : r.id <= stamp /\ r.updatedAt <= stamp
  /\ \A c \in copies : c.updatedAt <= stamp
  /\ \A i \in seeded : i <= stamp

\* An ETag stands for one email.
CopiesMatch == \A c \in copies, r \in rows : A!ETag(c) = A!ETag(r) => c.email = r.email

RowsSeeded == \A r \in rows : r.role = "admin" => r.id \in seeded

Tables ==
  /\ rows \subseteq A!Users /\ copies \subseteq A!Users /\ stamp \in Nat \ {0}
  /\ seeded \subseteq A!Ids
  /\ IdsUnique /\ StampsPast /\ CopiesMatch /\ RowsSeeded

\* Requests that may still stamp a row: each does so once.
Due == {w \in Workers : \/ step[w] = "find"
                        \/ step[w] = "run" /\ \E j \in ask[w] : j.op \notin {"login", "oauth"}}

Counted == IsFiniteSet(Due) /\ stamp + Cardinality(Due) <= 2 + asks

\* The account exists, or went so late that what ends at t ends within TokenTTL.
Backed(id, t) == A!Exists(id) \/ \E g \in gone : g.id = id /\ t <= g.at + TokenTTL

TokensBacked == \A t \in tokens : t.exp <= today + TokenTTL /\ Backed(t.id, t.exp)

JobsBacked ==
  \A w \in Workers : \A j \in ask[w] :
    step[w] = "run" /\ j.op \in PowerOps => j.at <= today /\ Backed(j.by, j.at + 1)

\* Who holds the power of an administrator, or is about to be given a token for it,
\* owes it to SeedAdmin.
PowersSeeded ==
  /\ \A t \in tokens : t.role = "admin" => t.id \in seeded
  /\ \A w \in Workers : \A j \in ask[w] :
       step[w] = "run" /\ j.op \in {"login", "oauth"} /\ j.role = "admin" => j.id \in seeded

AccountsInv ==
  A!TypeOK /\ JobsFit /\ Tables /\ Counted /\ TokensBacked /\ JobsBacked /\ PowersSeeded

LEMMA AccountNumbers ==
  /\ TokenTTL \in Nat \ {0} /\ LastHour \in Nat /\ MaxAsks \in Nat
  /\ AdminEmail \in Emails /\ Emails # {AdminEmail} /\ NoIdentity \notin Identities
  /\ (CHOOSE p \in Endpoints : TRUE) \in Endpoints
  /\ A!Ids = 1 .. 2 + MaxAsks
BY ServicesAssumption DEF ServicesAssumption, A!Ids

LEMMA AccountsStart ==
  ASSUME A!Init
  PROVE  AccountsInv
<1> DEFINE other == CHOOSE e \in Emails : e # AdminEmail
           admin == [id |-> 1, email |-> AdminEmail, role |-> "admin",
                     identity |-> NoIdentity, updatedAt |-> 1]
           user == [id |-> 2, email |-> other, role |-> "user",
                    identity |-> NoIdentity, updatedAt |-> 2]
<1>1. other \in Emails
  BY AccountNumbers
<1>2. rows = {admin, user} /\ copies = {} /\ stamp = 2 /\ seeded = {1} /\ gone = {}
  BY DEF A!Init
<1>3. admin \in A!Users /\ user \in A!Users
  BY <1>1, AccountNumbers DEF A!Users
<1>4. Tables
  BY <1>2, <1>3, AccountNumbers
     DEF Tables, IdsUnique, StampsPast, CopiesMatch, RowsSeeded
<1>5. A!TypeOK
  BY <1>4, AccountNumbers DEF A!Init, A!TypeOK, Tables
<1>6. JobsFit /\ JobsBacked /\ PowersSeeded
  BY <1>2 DEF A!Init, JobsFit, JobsBacked, PowersSeeded
<1>7. TokensBacked
  BY <1>2, AccountNumbers DEF A!Init, TokensBacked, Backed, A!Exists
<1>8. Counted
  <2>1. Due = {}
    BY DEF A!Init, Due
  <2> QED BY <2>1, FS_EmptySet, AccountNumbers DEF A!Init, Counted
<1> QED BY <1>4, <1>5, <1>6, <1>7, <1>8 DEF AccountsInv

\* A request that had yet to stamp a row has done so, or will not.
LEMMA DueLeaves ==
  ASSUME Counted, stamp \in Nat, asks \in Nat, NEW w \in Due, Due' = Due \ {w},
         stamp' \in {stamp, stamp + 1}, UNCHANGED asks
  PROVE  Counted'
<1>1. IsFiniteSet(Due') /\ Cardinality(Due') = Cardinality(Due) - 1 /\ Cardinality(Due) \in Nat
  BY FS_RemoveElement, FS_CardinalityType DEF Counted
<1> QED BY <1>1 DEF Counted

LEMMA DueStays ==
  ASSUME Counted, stamp \in Nat, asks \in Nat, Due' \subseteq Due, UNCHANGED <<stamp, asks>>
  PROVE  Counted'
<1>1. /\ IsFiniteSet(Due') /\ Cardinality(Due') <= Cardinality(Due)
      /\ Cardinality(Due) \in Nat /\ Cardinality(Due') \in Nat
  BY FS_Subset, FS_CardinalityType DEF Counted
<1> QED BY <1>1 DEF Counted

\* There is a number for the row a request is to insert.
LEMMA NextId ==
  ASSUME AccountsInv, NEW w \in Due
  PROVE  stamp + 1 \in A!Ids
<1>1. IsFiniteSet(Due) /\ Cardinality(Due) \in Nat /\ stamp \in Nat \ {0} /\ asks \in 0 .. MaxAsks
      /\ stamp + Cardinality(Due) <= 2 + asks
  BY FS_CardinalityType DEF AccountsInv, Counted, Tables, A!TypeOK
<1>2. Cardinality(Due) # 0
  BY <1>1, FS_EmptySet
<1> QED BY <1>1, <1>2, AccountNumbers

LEMMA StampIsId ==
  ASSUME AccountsInv
  PROVE  1 .. stamp \subseteq A!Ids
<1>1. Cardinality(Due) \in Nat /\ stamp \in Nat \ {0} /\ asks \in 0 .. MaxAsks
      /\ stamp + Cardinality(Due) <= 2 + asks
  BY FS_CardinalityType DEF AccountsInv, Counted, Tables, A!TypeOK
<1> QED BY <1>1, AccountNumbers

----------------------------------------------------------------------------
\* An account that is inserted gets a number nobody has.
LEMMA InsertKeeps ==
  ASSUME Tables, stamp + 1 \in A!Ids, NEW j, NEW role \in {"user", "admin"},
         j.email \in Emails, j.identity \in Identities \union {NoIdentity},
         A!Insert(A!NewUser(j, role)), UNCHANGED copies,
         seeded' = IF role = "admin" THEN seeded \union {stamp + 1} ELSE seeded
  PROVE  Tables' /\ rows \subseteq rows'
<1> DEFINE r == [id |-> stamp + 1, email |-> j.email, role |-> role, identity |-> j.identity,
                 updatedAt |-> stamp + 1]
<1>1. rows' = rows \union {r} /\ stamp' = stamp + 1 /\ stamp \in Nat \ {0} /\ stamp' \in Nat \ {0}
  BY DEF A!Insert, A!NewUser, Tables
<1>2. r \in A!Users
  BY <1>1 DEF A!Users
<1>3. /\ \A q \in rows : q.id \in Nat /\ q.updatedAt \in Nat /\ q.id <= stamp /\ q.updatedAt <= stamp
      /\ \A c \in copies : c.updatedAt \in Nat /\ c.updatedAt <= stamp
      /\ \A i \in seeded : i \in Nat /\ i <= stamp
  BY AccountNumbers DEF Tables, StampsPast, A!Users
<1>4. r.id = stamp + 1 /\ r.updatedAt = stamp + 1 /\ r.role = role
  OBVIOUS
<1> HIDE DEF r
<1>5. IdsUnique'
  BY <1>1, <1>3, <1>4 DEF Tables, IdsUnique
<1>6. StampsPast'
  BY <1>1, <1>3, <1>4 DEF StampsPast
<1>7. CopiesMatch'
  BY <1>1, <1>3, <1>4 DEF Tables, CopiesMatch, A!ETag
<1>8. RowsSeeded'
  BY <1>1, <1>4 DEF Tables, RowsSeeded
<1>9. seeded' \subseteq A!Ids
  BY DEF Tables
<1> QED BY <1>1, <1>2, <1>5, <1>6, <1>7, <1>8, <1>9 DEF Tables

\* An edit keeps ids and roles, and stamps the row anew.
LEMMA EditKeeps ==
  ASSUME Tables, NEW id, NEW email \in Emails, A!Edit(id, email), UNCHANGED copies,
         seeded \subseteq seeded', \A i \in seeded' \ seeded : A!Exists(i)
  PROVE  /\ Tables' /\ stamp' \in {stamp, stamp + 1}
         /\ \A r \in rows : \E q \in rows' : q.id = r.id
<1> DEFINE mine == {r \in rows : r.id = id}
<1>0. /\ \A q \in rows : q.id \in Nat /\ q.updatedAt \in Nat /\ q.id <= stamp /\ q.updatedAt <= stamp
      /\ \A c \in copies : c.updatedAt \in Nat /\ c.updatedAt <= stamp
      /\ \A i \in seeded' : i \in A!Ids /\ i \in Nat /\ i <= stamp
  BY AccountNumbers DEF Tables, StampsPast, A!Users, A!Exists
<1>1. CASE mine = {} \/ A!Taken(email, id)
  <2>1. UNCHANGED <<rows, stamp>>
    BY <1>1 DEF A!Edit
  <2>2. StampsPast'
    BY <1>0, <2>1 DEF Tables, StampsPast
  <2> QED BY <1>0, <2>1, <2>2 DEF Tables, IdsUnique, CopiesMatch, RowsSeeded, A!ETag
<1>2. CASE ~(mine = {} \/ A!Taken(email, id))
  <2> DEFINE edited(r) == A!Edited(r, email)
  <2>0. rows' = (rows \ mine) \union {edited(r) : r \in mine} /\ stamp' = stamp + 1
    BY <1>2 DEF A!Edit
  <2>1. /\ rows' = (rows \ mine) \union {edited(r) : r \in mine}
        /\ stamp' = stamp + 1 /\ stamp \in Nat /\ stamp' \in Nat \ {0}
    BY <2>0 DEF Tables
  <2>2. \A r \in rows : /\ edited(r) \in A!Users /\ edited(r).id = r.id /\ edited(r).role = r.role
                        /\ edited(r).updatedAt = stamp + 1
    BY <2>1 DEF Tables, A!Users, A!Edited
  <2> HIDE DEF edited
  <2>4. \A q \in rows' : \/ q \in rows /\ q.id # id
                         \/ \E r \in rows : q = edited(r) /\ r.id = id
    BY <2>1
  <2>5. rows' \subseteq A!Users
    BY <2>2, <2>4 DEF Tables
  <2>6. IdsUnique'
    BY <2>2, <2>4 DEF Tables, IdsUnique
  <2>7. StampsPast'
    BY <1>0, <2>1, <2>2, <2>4 DEF StampsPast
  <2>8. CopiesMatch'
    BY <1>0, <2>1, <2>2, <2>4 DEF Tables, CopiesMatch, A!ETag
  <2>9. RowsSeeded'
    BY <2>2, <2>4 DEF Tables, RowsSeeded
  <2>10. \A r \in rows : \E q \in rows' : q.id = r.id
    BY <2>1, <2>2
  <2> QED BY <1>0, <2>1, <2>5, <2>6, <2>7, <2>8, <2>9, <2>10 DEF Tables
<1> QED BY <1>1, <1>2

\* What has been backed stays so when the time stands still and no row goes but
\* by a deletion at this moment.
BackingStays ==
  \A id \in A!Ids, t \in Int : t <= today + TokenTTL /\ Backed(id, t) => Backed(id, t)'

LEMMA RowsStay ==
  ASSUME \A r \in rows : \E q \in rows' : q.id = r.id, gone' = gone
  PROVE  BackingStays
BY DEF BackingStays, Backed, A!Exists

\* A request is answered or goes on: what its step did to the tables is sound.
LEMMA StatementKeeps ==
  ASSUME AccountsInv, NEW w \in Workers, step[w] # "idle", NEW j \in ask[w],
         NEW l \in {"idle", "run"}, step' = [step EXCEPT ![w] = l],
         NEW k \in A!Jobs, ask' = [ask EXCEPT ![w] = IF l = "idle" THEN {} ELSE {k}],
         l = "run" => step[w] = "find" /\ k.op = j.op,
         UNCHANGED <<today, asks>>,
         Tables', BackingStays,
         \/ UNCHANGED stamp
         \/ /\ stamp' = stamp + 1
            /\ l = "idle" \/ j.op = "oauth"
            /\ step[w] = "find" \/ j.op \notin {"login", "oauth"},
         tokens' \subseteq [id : A!Ids, role : {"user", "admin"}, exp : TokenTTL .. LastHour + TokenTTL],
         \A t \in tokens' \ tokens : t.exp <= today + TokenTTL /\ Backed(t.id, t.exp)',
         seeded \subseteq seeded',
         \A t \in tokens' \ tokens : t.role = "admin" => t.id \in seeded',
         l = "run" /\ k.role = "admin" /\ k.op \in {"login", "oauth"} => k.id \in seeded',
         subs' \subseteq [user : A!Ids, endpoint : Endpoints],
         gone' \subseteq [id : A!Ids, at : 0 .. LastHour]
  PROVE  AccountsInv'
<1>1. /\ step \in [Workers -> {"idle", "find", "run"}] /\ today \in 0 .. LastHour
      /\ \A v \in Workers : ask[v] \subseteq A!Jobs /\ \A i, m \in ask[v] : i = m
      /\ asks \in 0 .. MaxAsks /\ stamp \in Nat /\ asks \in Nat
  BY AccountNumbers DEF AccountsInv, A!TypeOK
<1>2. /\ step'[w] = l
      /\ \A v \in Workers \ {w} : step'[v] = step[v]
  BY <1>1
<1>3. ask \in [Workers -> SUBSET A!Jobs]
  BY DEF AccountsInv, A!TypeOK
<1>4. /\ ask'[w] = IF l = "idle" THEN {} ELSE {k}
      /\ \A v \in Workers \ {w} : ask'[v] = ask[v]
  BY <1>3
<1>5. A!TypeOK'
  <2>1. \A v \in Workers : ask'[v] \subseteq A!Jobs /\ \A i, m \in ask'[v] : i = m
    BY <1>1, <1>4
  <2>2. ask' \in [Workers -> SUBSET A!Jobs]
    BY <1>3
  <2> QED BY <1>1, <2>1, <2>2 DEF A!TypeOK, Tables
<1>6. JobsFit'
  BY <1>2, <1>4 DEF AccountsInv, JobsFit
<1>7. ask[w] = {j} /\ (step[w] = "find" => j.op \in {"register", "login", "oauth", "seed"})
  BY <1>1 DEF AccountsInv, JobsFit
<1>8. Counted'
  <2>1. \A v \in Workers \ {w} : v \in Due' <=> v \in Due
    BY <1>2, <1>4 DEF Due
  <2>2. w \in Due' => w \in Due
    BY <1>2, <1>4, <1>7 DEF Due
  <2>3. Due \subseteq Workers /\ Due' \subseteq Workers
    BY DEF Due
  <2>4. CASE UNCHANGED stamp
    <3>1. Due' \subseteq Due
      BY <2>1, <2>2, <2>3
    <3> QED BY <1>1, <2>4, <3>1, DueStays DEF AccountsInv
  <2>5. CASE stamp' = stamp + 1 /\ ~ UNCHANGED stamp
    <3>1. w \in Due
      BY <1>1, <1>7, <2>5 DEF Due
    <3>2. w \notin Due'
      BY <1>2, <1>4, <2>5 DEF Due
    <3>3. Due' = Due \ {w}
      BY <2>1, <2>3, <3>2
    <3> QED BY <1>1, <2>5, <3>1, <3>3, DueLeaves DEF AccountsInv
  <2> QED BY <2>4, <2>5
<1>9. TokensBacked'
  <2>1. \A t \in tokens : t.id \in A!Ids /\ t.exp \in Int /\ t.exp <= today + TokenTTL /\ Backed(t.id, t.exp)
    BY AccountNumbers DEF AccountsInv, A!TypeOK, TokensBacked
  <2>2. \A t \in tokens : Backed(t.id, t.exp)'
    BY <2>1 DEF BackingStays
  <2> QED BY <2>1, <2>2 DEF TokensBacked
<1>10. JobsBacked'
  <2> SUFFICES ASSUME NEW v \in Workers, NEW i \in ask'[v], step'[v] = "run", i.op \in PowerOps
               PROVE  i.at <= today /\ Backed(i.by, i.at + 1)'
    BY DEF JobsBacked
  <2>1. v # w
    BY <1>2, <1>4, <1>7 DEF PowerOps
  <2>2. i \in A!Jobs /\ i.at <= today /\ Backed(i.by, i.at + 1)
    BY <1>1, <1>2, <1>4, <2>1 DEF AccountsInv, JobsBacked
  <2>3. i.by \in A!Ids /\ i.at \in 0 .. LastHour
    BY <2>2 DEF A!Jobs
  <2>4. i.at + 1 \in Int /\ i.at + 1 <= today + TokenTTL
    BY <1>1, <2>2, <2>3, AccountNumbers
  <2> QED BY <2>2, <2>3, <2>4 DEF BackingStays
<1>11. PowersSeeded'
  BY <1>2, <1>4 DEF AccountsInv, PowersSeeded
<1> QED BY <1>5, <1>6, <1>8, <1>9, <1>10, <1>11 DEF AccountsInv

\* A request is admitted.
LEMMA AdmitKeeps ==
  ASSUME AccountsInv, NEW w \in Workers, NEW j \in A!Jobs, NEW l \in {"find", "run"},
         A!Admit(w, j, l),
         l = "find" => j.op \in {"register", "login", "oauth", "seed"},
         l = "run" => j.at <= today /\ Backed(j.by, j.at + 1) /\ j.op \in PowerOps
  PROVE  AccountsInv'
<1>1. /\ step \in [Workers -> {"idle", "find", "run"}] /\ ask \in [Workers -> SUBSET A!Jobs]
      /\ asks \in 0 .. MaxAsks /\ stamp \in Nat /\ asks \in Nat
  BY AccountNumbers DEF AccountsInv, A!TypeOK
<1>2. /\ step[w] = "idle" /\ asks' = asks + 1 /\ asks' \in 0 .. MaxAsks
      /\ step' = [step EXCEPT ![w] = l] /\ ask' = [ask EXCEPT ![w] = {j}]
      /\ UNCHANGED <<rows, subs, stamp, tokens, today, copies, seeded, gone>>
  BY <1>1, AccountNumbers DEF A!Admit
<1>3. /\ step'[w] = l /\ ask'[w] = {j}
      /\ \A v \in Workers \ {w} : step'[v] = step[v] /\ ask'[v] = ask[v]
  BY <1>1, <1>2
<1>4. A!TypeOK'
  <2>1. ask' \in [Workers -> SUBSET A!Jobs]
    BY <1>1, <1>2
  <2>2. \A v \in Workers : \A i, m \in ask'[v] : i = m
    BY <1>3 DEF AccountsInv, A!TypeOK
  <2> QED BY <1>2, <2>1, <2>2 DEF AccountsInv, A!TypeOK
<1>5. JobsFit'
  BY <1>3 DEF AccountsInv, JobsFit
<1>6. Tables'
  BY <1>2 DEF AccountsInv, Tables, IdsUnique, StampsPast, CopiesMatch, RowsSeeded, A!ETag
<1>7. Counted'
  <2>1. Due' \subseteq Due \union {w}
    BY <1>3 DEF Due
  <2>2. /\ IsFiniteSet(Due \union {w}) /\ Cardinality(Due \union {w}) <= Cardinality(Due) + 1
        /\ Cardinality(Due) \in Nat /\ Cardinality(Due \union {w}) \in Nat
    <3>1. IsFiniteSet(Due) /\ Cardinality(Due) \in Nat
      BY FS_CardinalityType DEF AccountsInv, Counted
    <3>2. /\ IsFiniteSet(Due \union {w})
          /\ Cardinality(Due \union {w}) = IF w \in Due THEN Cardinality(Due) ELSE Cardinality(Due) + 1
      BY <3>1, FS_AddElement
    <3> QED BY <3>1, <3>2
  <2>3. /\ IsFiniteSet(Due') /\ Cardinality(Due') <= Cardinality(Due \union {w})
        /\ Cardinality(Due') \in Nat
    BY <2>1, <2>2, FS_Subset, FS_CardinalityType
  <2>4. stamp + Cardinality(Due) <= 2 + asks
    BY DEF AccountsInv, Counted
  <2> QED BY <1>1, <1>2, <2>2, <2>3, <2>4 DEF Counted
<1>8. TokensBacked'
  BY <1>2 DEF AccountsInv, TokensBacked, Backed, A!Exists
<1>9. JobsBacked'
  <2> SUFFICES ASSUME NEW v \in Workers, NEW i \in ask'[v], step'[v] = "run", i.op \in PowerOps
               PROVE  i.at <= today /\ Backed(i.by, i.at + 1)
    BY <1>2 DEF JobsBacked, Backed, A!Exists
  <2> QED BY <1>3 DEF AccountsInv, JobsBacked
<1>10. PowersSeeded'
  BY <1>2, <1>3 DEF AccountsInv, PowersSeeded, PowerOps
<1> QED BY <1>4, <1>5, <1>6, <1>7, <1>8, <1>9, <1>10 DEF AccountsInv

\* A token that is valid now backs a request that is admitted now.
LEMMA ValidBacks ==
  ASSUME AccountsInv, NEW t \in tokens, A!Valid(t)
  PROVE  t.id \in A!Ids /\ today \in 0 .. LastHour /\ today <= today /\ Backed(t.id, today + 1)
<1>1. /\ t.id \in A!Ids /\ t.exp \in Int /\ today \in 0 .. LastHour /\ today < t.exp
      /\ Backed(t.id, t.exp)
      /\ \A g \in gone : g.at \in Int
  BY AccountNumbers DEF AccountsInv, A!TypeOK, TokensBacked, A!Valid
<1> QED BY <1>1, AccountNumbers DEF Backed

LEMMA AskKeeps ==
  ASSUME AccountsInv, NEW w \in Workers,
         \/ A!AskRegister(w) \/ A!AskLogin(w) \/ A!AskOAuth(w) \/ A!AskSeed(w)
         \/ A!AskAccount(w) \/ A!AskUpdate(w) \/ A!AskPush(w)
  PROVE  AccountsInv'
<1>1. 1 \in A!Ids /\ today \in 0 .. LastHour /\ 1 .. stamp \subseteq A!Ids
  BY StampIsId, AccountNumbers DEF AccountsInv, A!TypeOK
<1>2. CASE A!AskRegister(w)
  <2>1. PICK e \in Emails, r \in {"user", "admin"} :
          A!Admit(w, [A!Ask("register", 1, 1) EXCEPT !.email = e, !.role = r], "find")
    BY <1>2 DEF A!AskRegister
  <2> DEFINE j == [A!Ask("register", 1, 1) EXCEPT !.email = e, !.role = r]
  <2>2. j \in A!Jobs /\ j.op = "register"
    BY <1>1, AccountNumbers DEF A!Ask, A!Jobs
  <2> HIDE DEF j
  <2> QED BY <2>1, <2>2, AdmitKeeps DEF j
<1>3. CASE A!AskLogin(w)
  <2>1. PICK e \in Emails : A!Admit(w, [A!Ask("login", 1, 1) EXCEPT !.email = e], "find")
    BY <1>3 DEF A!AskLogin
  <2> DEFINE j == [A!Ask("login", 1, 1) EXCEPT !.email = e]
  <2>2. j \in A!Jobs /\ j.op = "login"
    BY <1>1, AccountNumbers DEF A!Ask, A!Jobs
  <2>3. A!Admit(w, j, "find")
    BY <2>1
  <2> HIDE DEF j
  <2> QED BY <2>2, <2>3, AdmitKeeps
<1>4. CASE A!AskOAuth(w)
  <2>1. PICK s \in Identities, e \in Emails :
          A!Admit(w, [A!Ask("oauth", 1, 1) EXCEPT !.identity = s, !.email = e], "find")
    BY <1>4 DEF A!AskOAuth
  <2> DEFINE j == [A!Ask("oauth", 1, 1) EXCEPT !.identity = s, !.email = e]
  <2>2. j \in A!Jobs /\ j.op = "oauth"
    BY <1>1, AccountNumbers DEF A!Ask, A!Jobs
  <2>3. A!Admit(w, j, "find")
    BY <2>1
  <2> HIDE DEF j
  <2> QED BY <2>2, <2>3, AdmitKeeps
<1>5. CASE A!AskSeed(w)
  <2> DEFINE j == A!Ask("seed", 1, 1)
  <2>1. j \in A!Jobs /\ j.op = "seed"
    BY <1>1, AccountNumbers DEF A!Ask, A!Jobs
  <2>2. A!Admit(w, j, "find")
    BY <1>5 DEF A!AskSeed
  <2> HIDE DEF j
  <2> QED BY <2>1, <2>2, AdmitKeeps
<1>6. CASE A!AskAccount(w)
  <2>1. PICK t \in tokens, id \in 1 .. stamp, op \in {"profile", "delete"} :
          A!Valid(t) /\ A!Admit(w, A!Ask(op, t.id, id), "run")
    BY <1>6 DEF A!AskAccount
  <2> DEFINE j == A!Ask(op, t.id, id)
  <2>2. j \in A!Jobs /\ j.at = today /\ j.by = t.id /\ j.op \in PowerOps
    BY <1>1, <2>1, ValidBacks, AccountNumbers DEF A!Ask, A!Jobs, PowerOps
  <2>3. A!Admit(w, j, "run")
    BY <2>1
  <2> HIDE DEF j
  <2> QED BY <2>1, <2>2, <2>3, ValidBacks, AdmitKeeps
<1>7. CASE A!AskUpdate(w)
  <2>1. PICK t \in tokens, id \in 1 .. stamp, e \in Emails :
          A!Valid(t) /\ A!Admit(w, [A!Ask("update", t.id, id) EXCEPT !.email = e], "run")
    BY <1>7 DEF A!AskUpdate
  <2> DEFINE j == [A!Ask("update", t.id, id) EXCEPT !.email = e]
  <2>2. j \in A!Jobs /\ j.at = today /\ j.by = t.id /\ j.op \in PowerOps
    BY <1>1, <2>1, ValidBacks, AccountNumbers DEF A!Ask, A!Jobs, PowerOps
  <2>3. A!Admit(w, j, "run")
    BY <2>1
  <2> HIDE DEF j
  <2> QED BY <2>1, <2>2, <2>3, ValidBacks, AdmitKeeps
<1>8. CASE A!AskPush(w)
  <2>1. PICK t \in tokens, id \in 1 .. stamp, p \in Endpoints, op \in {"subscribe", "unsubscribe"} :
          A!Valid(t) /\ A!Admit(w, [A!Ask(op, t.id, id) EXCEPT !.endpoint = p], "run")
    BY <1>8 DEF A!AskPush
  <2> DEFINE j == [A!Ask(op, t.id, id) EXCEPT !.endpoint = p]
  <2>2. j \in A!Jobs /\ j.at = today /\ j.by = t.id /\ j.op \in PowerOps
    BY <1>1, <2>1, ValidBacks, AccountNumbers DEF A!Ask, A!Jobs, PowerOps
  <2>3. A!Admit(w, j, "run")
    BY <2>1
  <2> HIDE DEF j
  <2> QED BY <2>1, <2>2, <2>3, ValidBacks, AdmitKeeps
<1> QED BY <1>2, <1>3, <1>4, <1>5, <1>6, <1>7, <1>8

\* Where the worker is after a step, in the form StatementKeeps has it.
LEMMA Proceeds ==
  ASSUME AccountsInv, NEW w \in Workers, NEW j \in ask[w]
  PROVE  /\ j \in A!Jobs /\ ask[w] = {j}
         /\ step[w] = "find" => j.op \in {"register", "login", "oauth", "seed"}
         /\ subs \subseteq [user : A!Ids, endpoint : Endpoints]
         /\ gone \subseteq [id : A!Ids, at : 0 .. LastHour]
         /\ tokens \subseteq [id : A!Ids, role : {"user", "admin"}, exp : TokenTTL .. LastHour + TokenTTL]
         /\ today \in 0 .. LastHour
         /\ stamp \in Nat \ {0}
BY DEF AccountsInv, A!TypeOK, JobsFit, Tables

\* The same for a request that goes on.
LEMMA GoOnKeeps ==
  ASSUME AccountsInv, NEW w \in Workers, step[w] = "find", NEW j \in ask[w],
         NEW k \in A!Jobs, k.op = j.op, A!GoOn(w, k),
         k.role = "admin" /\ k.op \in {"login", "oauth"} => k.id \in seeded',
         Tables', BackingStays, seeded \subseteq seeded',
         UNCHANGED stamp \/ (stamp' = stamp + 1 /\ j.op = "oauth"),
         UNCHANGED <<tokens, subs, gone>>
  PROVE  AccountsInv'
<1> DEFINE l == "run"
<1>1. /\ l \in {"idle", "run"} /\ l = "run" /\ step' = [step EXCEPT ![w] = l]
      /\ ask' = [ask EXCEPT ![w] = IF l = "idle" THEN {} ELSE {k}]
      /\ UNCHANGED <<today, asks>> /\ step[w] # "idle"
  BY DEF A!GoOn
<1> HIDE DEF l
<1>2. /\ tokens' \subseteq [id : A!Ids, role : {"user", "admin"}, exp : TokenTTL .. LastHour + TokenTTL]
      /\ subs' \subseteq [user : A!Ids, endpoint : Endpoints]
      /\ gone' \subseteq [id : A!Ids, at : 0 .. LastHour]
      /\ tokens' \ tokens = {}
  BY Proceeds
<1> QED BY <1>1, <1>2, StatementKeeps

\* A lookup, or a statement that does nothing.
LEMMA QuietKeeps ==
  ASSUME AccountsInv, NEW w \in Workers, NEW j \in ask[w], step[w] # "idle",
         UNCHANGED <<rows, subs, stamp, tokens, copies, seeded, gone>>,
         NEW k \in A!Jobs,
         \/ A!Answer(w)
         \/ /\ step[w] = "find" /\ k.op = j.op /\ A!GoOn(w, k)
            /\ k.role = "admin" /\ k.op \in {"login", "oauth"} => k.id \in seeded
  PROVE  AccountsInv'
<1>1. Tables'
  BY DEF AccountsInv, Tables, IdsUnique, StampsPast, CopiesMatch, RowsSeeded, A!ETag
<1>2. BackingStays
  BY RowsStay
<1>3. CASE A!Answer(w)
  BY <1>1, <1>2, <1>3, Proceeds, StatementKeeps DEF A!Answer
<1>4. CASE /\ step[w] = "find" /\ k.op = j.op /\ A!GoOn(w, k)
           /\ k.role = "admin" /\ k.op \in {"login", "oauth"} => k.id \in seeded
  BY <1>1, <1>2, <1>4, GoOnKeeps
<1> QED BY <1>3, <1>4

LEMMA LookupKeeps ==
  ASSUME AccountsInv, NEW w \in Workers, NEW j \in ask[w], step[w] = "find",
         A!FindRegister(w, j) \/ A!FindLogin(w, j) \/ A!FindSeed(w, j)
  PROVE  AccountsInv'
<1>1. j \in A!Jobs
  BY Proceeds
<1>2. \A r \in rows : /\ r.id \in A!Ids /\ r.role \in {"user", "admin"}
                      /\ r.role = "admin" => r.id \in seeded
  BY DEF AccountsInv, Tables, RowsSeeded, A!Users
<1>3. UNCHANGED <<rows, subs, stamp, tokens, copies, seeded, gone>>
  BY DEF A!FindRegister, A!FindLogin, A!FindSeed
<1>4. ASSUME NEW r \in rows
      PROVE  /\ [j EXCEPT !.id = r.id, !.role = r.role] \in A!Jobs
             /\ [j EXCEPT !.id = r.id, !.role = r.role].op = j.op
             /\ [j EXCEPT !.id = r.id, !.role = r.role].id = r.id
             /\ [j EXCEPT !.id = r.id, !.role = r.role].role = r.role
             /\ [j EXCEPT !.id = r.id] \in A!Jobs /\ [j EXCEPT !.id = r.id].op = j.op
             /\ [j EXCEPT !.role = "admin"] \in A!Jobs /\ [j EXCEPT !.role = "admin"].op = j.op
  BY <1>1, <1>2 DEF A!Jobs
<1>5. \E k \in A!Jobs :
        \/ A!Answer(w)
        \/ /\ k.op = j.op /\ A!GoOn(w, k)
           /\ k.role = "admin" /\ k.op \in {"login", "oauth"} => k.id \in seeded
  <2>1. CASE A!FindRegister(w, j)
    BY <1>1, <2>1 DEF A!FindRegister
  <2>2. CASE A!FindLogin(w, j)
    <3>1. ASSUME NEW r \in rows, A!GoOn(w, [j EXCEPT !.id = r.id, !.role = r.role]) PROVE <1>5!:
      <4> DEFINE k == [j EXCEPT !.id = r.id, !.role = r.role]
      <4>1. k \in A!Jobs /\ k.op = j.op /\ (k.role = "admin" => k.id \in seeded) /\ A!GoOn(w, k)
        BY <1>2, <1>4, <3>1
      <4> HIDE DEF k
      <4> QED BY <4>1
    <3> QED BY <1>1, <2>2, <3>1 DEF A!FindLogin
  <2>3. CASE A!FindSeed(w, j)
    <3>1. [j EXCEPT !.role = "admin"] \in A!Jobs /\ [j EXCEPT !.role = "admin"].op = j.op
      BY <1>1 DEF A!Jobs
    <3> QED BY <1>1, <1>4, <2>3, <3>1 DEF A!FindSeed
  <2> QED BY <2>1, <2>2, <2>3
<1> QED BY <1>3, <1>5, QuietKeeps

LEMMA UpsertKeeps ==
  ASSUME AccountsInv, NEW w \in Workers, NEW j \in ask[w], step[w] = "find", A!Upsert(w, j)
  PROVE  AccountsInv'
<1>1. /\ j \in A!Jobs /\ j.op = "oauth" /\ j.email \in Emails
      /\ j.identity \in Identities \union {NoIdentity}
      /\ UNCHANGED <<subs, tokens, copies, seeded, gone>>
  BY Proceeds DEF A!Upsert, A!Jobs
<1>2. /\ stamp + 1 \in A!Ids /\ Tables
      /\ \A r \in rows : /\ r.id \in A!Ids /\ r.role \in {"user", "admin"}
                         /\ r.role = "admin" => r.id \in seeded
  <2>1. w \in Due
    BY DEF Due
  <2> QED BY <2>1, NextId DEF AccountsInv, Tables, RowsSeeded, A!Users
<1>3. CASE A!Insert(A!NewUser(j, "user")) /\ A!GoOn(w, [j EXCEPT !.id = stamp + 1, !.role = "user"])
  <2> DEFINE k == [j EXCEPT !.id = stamp + 1, !.role = "user"]
  <2>1. k \in A!Jobs /\ k.op = j.op /\ k.role = "user"
    BY <1>1, <1>2 DEF A!Jobs
  <2>2. Tables' /\ rows \subseteq rows' /\ stamp' = stamp + 1
    BY <1>1, <1>2, <1>3, InsertKeeps DEF A!Insert
  <2>3. BackingStays
    BY <1>1, <2>2, RowsStay
  <2>4. A!GoOn(w, k)
    BY <1>3
  <2> HIDE DEF k
  <2> QED BY <1>1, <2>1, <2>2, <2>3, <2>4, GoOnKeeps
<1>4. ASSUME NEW r \in rows, A!Edit(r.id, j.email),
             A!GoOn(w, [j EXCEPT !.id = r.id, !.role = r.role])
      PROVE  AccountsInv'
  <2> DEFINE k == [j EXCEPT !.id = r.id, !.role = r.role]
  <2>1. k \in A!Jobs /\ k.op = j.op /\ (k.role = "admin" => k.id \in seeded)
    BY <1>1, <1>2 DEF A!Jobs
  <2>2. /\ Tables' /\ stamp' \in {stamp, stamp + 1}
        /\ \A q \in rows : \E p \in rows' : p.id = q.id
    BY <1>1, <1>2, <1>4, EditKeeps
  <2>3. BackingStays
    BY <1>1, <2>2, RowsStay
  <2>4. A!GoOn(w, k)
    BY <1>4
  <2> HIDE DEF k
  <2> QED BY <1>1, <2>1, <2>2, <2>3, <2>4, GoOnKeeps
<1>5. CASE A!Answer(w) /\ UNCHANGED <<rows, stamp>>
  BY <1>1, <1>5, QuietKeeps
<1> QED BY <1>3, <1>4, <1>5 DEF A!Upsert, A!Conflicts

\* A row is written and the request answered.
LEMMA WriteKeeps ==
  ASSUME AccountsInv, NEW w \in Workers, NEW j \in ask[w], step[w] = "run",
         A!Create(w, j) \/ A!Seed(w, j) \/ A!UpdateProfile(w, j)
  PROVE  AccountsInv'
<1>1. /\ j \in A!Jobs /\ j.op \notin {"login", "oauth"} /\ j.email \in Emails
      /\ j.identity \in Identities \union {NoIdentity}
      /\ UNCHANGED <<subs, tokens, copies, gone>> /\ A!Answer(w)
  BY Proceeds DEF A!Create, A!Seed, A!UpdateProfile, A!Jobs
<1>2. stamp + 1 \in A!Ids /\ Tables
  <2>1. w \in Due
    BY <1>1 DEF Due
  <2> QED BY <2>1, NextId DEF AccountsInv
<1>3. /\ Tables' /\ stamp' \in {stamp, stamp + 1}
      /\ \A r \in rows : \E q \in rows' : q.id = r.id
      /\ seeded \subseteq seeded'
  <2>1. CASE A!Insert(A!NewUser(j, "user")) /\ UNCHANGED seeded
    BY <1>1, <1>2, <2>1, InsertKeeps DEF A!Insert
  <2>2. CASE A!Insert(A!NewUser(j, "admin")) /\ seeded' = seeded \union {stamp + 1}
    BY <1>1, <1>2, <2>2, InsertKeeps DEF A!Insert
  <2>3. ASSUME NEW email \in Emails, A!Edit(j.id, email),
               seeded \subseteq seeded', \A i \in seeded' \ seeded : A!Exists(i)
        PROVE  <1>3!:
    BY <1>1, <1>2, <2>3, EditKeeps
  <2>4. CASE UNCHANGED <<rows, stamp, seeded>>
    BY <1>1, <1>2, <2>4 DEF Tables, IdsUnique, StampsPast, CopiesMatch, RowsSeeded, A!ETag
  <2> QED BY <1>1, <2>1, <2>2, <2>3, <2>4, AccountNumbers DEF A!Create, A!Seed, A!UpdateProfile
<1>4. BackingStays
  BY <1>1, <1>3, RowsStay
<1> QED BY <1>1, <1>3, <1>4, Proceeds, StatementKeeps DEF A!Answer

\* The access token is signed once the refresh token has found its account.
LEMMA IssueKeeps ==
  ASSUME AccountsInv, NEW w \in Workers, NEW j \in ask[w], step[w] = "run", A!Issue(w, j)
  PROVE  AccountsInv'
<1> DEFINE t == [id |-> j.id, role |-> j.role, exp |-> today + TokenTTL]
<1>1. /\ j \in A!Jobs /\ today \in 0 .. LastHour /\ A!Answer(w)
      /\ UNCHANGED <<rows, subs, stamp, copies, seeded, gone>>
      /\ tokens' = IF A!Exists(j.id) THEN tokens \union {t} ELSE tokens
  BY Proceeds DEF A!Issue, A!Storable
<1>2. t \in [id : A!Ids, role : {"user", "admin"}, exp : TokenTTL .. LastHour + TokenTTL]
  BY <1>1, AccountNumbers DEF A!Jobs
<1>3. Tables'
  BY <1>1 DEF AccountsInv, Tables, IdsUnique, StampsPast, CopiesMatch, RowsSeeded, A!ETag
<1>4. BackingStays
  BY <1>1, RowsStay
<1>5. t.exp = today + TokenTTL /\ t.exp <= today + TokenTTL /\ t.id = j.id
  BY <1>1, AccountNumbers
<1> HIDE DEF t
<1>6. \A u \in tokens' \ tokens : u.exp <= today + TokenTTL /\ Backed(u.id, u.exp)'
  BY <1>1, <1>5 DEF Backed, A!Exists
<1>7. \A u \in tokens' \ tokens : u.role = "admin" => u.id \in seeded
  <2>1. j.op \in {"login", "oauth"} /\ t.role = j.role
    BY DEF A!Issue, t
  <2> QED BY <1>1, <1>5, <2>1 DEF AccountsInv, PowersSeeded
<1> QED BY <1>1, <1>2, <1>3, <1>4, <1>6, <1>7, Proceeds, StatementKeeps DEF A!Answer

\* The client's copy of a profile becomes that row, or has its ETag.
LEMMA ProfileKeeps ==
  ASSUME AccountsInv, NEW w \in Workers, NEW j \in ask[w], step[w] = "run", A!GetProfile(w, j)
  PROVE  AccountsInv'
<1>1. /\ j \in A!Jobs /\ A!Answer(w)
      /\ UNCHANGED <<rows, subs, stamp, tokens, seeded, gone>>
  BY Proceeds DEF A!GetProfile
<1>2. copies' \subseteq copies \union rows
  BY DEF A!GetProfile, A!Stored
<1>3. Tables'
  BY <1>1, <1>2 DEF AccountsInv, Tables, IdsUnique, StampsPast, CopiesMatch, RowsSeeded, A!ETag
<1>4. BackingStays
  BY <1>1, RowsStay
<1> QED BY <1>1, <1>3, <1>4, Proceeds, StatementKeeps DEF A!Answer

\* What goes now backs whatever ends within TokenTTL.
LEMMA DeleteKeeps ==
  ASSUME AccountsInv, NEW w \in Workers, NEW j \in ask[w], step[w] = "run", A!Delete(w, j)
  PROVE  AccountsInv'
<1>1. /\ j \in A!Jobs /\ today \in 0 .. LastHour /\ A!Answer(w)
      /\ UNCHANGED <<stamp, tokens, copies, seeded, today>>
      /\ rows' \subseteq rows /\ subs' \subseteq subs
      /\ \/ UNCHANGED <<rows, gone>>
         \/ /\ rows' = {r \in rows : r.id # j.id}
            /\ gone' = IF A!Exists(j.id) THEN gone \union {[id |-> j.id, at |-> today]} ELSE gone
  BY Proceeds DEF A!Delete, A!Answer
<1>2. Tables'
  BY <1>1 DEF AccountsInv, Tables, IdsUnique, StampsPast, CopiesMatch, RowsSeeded, A!ETag
<1>3. [id |-> j.id, at |-> today] \in [id : A!Ids, at : 0 .. LastHour]
  BY <1>1 DEF A!Jobs
<1>4. BackingStays
  <2>0. CASE UNCHANGED <<rows, gone>>
    BY <2>0, RowsStay
  <2> SUFFICES ASSUME ~UNCHANGED <<rows, gone>>,
                      NEW id \in A!Ids, NEW t \in Int, t <= today + TokenTTL, Backed(id, t)
               PROVE  Backed(id, t)'
    BY <2>0 DEF BackingStays
  <2>1. CASE id = j.id /\ A!Exists(id)
    <3>1. [id |-> j.id, at |-> today] \in gone'
      BY <1>1, <2>1
    <3> QED BY <2>1, <3>1 DEF Backed
  <2>2. CASE id # j.id /\ A!Exists(id)
    BY <1>1, <2>2 DEF Backed, A!Exists
  <2>3. CASE ~A!Exists(id)
    BY <1>1, <2>3 DEF Backed
  <2> QED BY <2>1, <2>2, <2>3
<1>5. gone' \subseteq [id : A!Ids, at : 0 .. LastHour] /\ subs' \subseteq [user : A!Ids, endpoint : Endpoints]
  BY <1>1, <1>3, Proceeds
<1> QED BY <1>1, <1>2, <1>4, <1>5, Proceeds, StatementKeeps DEF A!Answer

LEMMA PushKeeps ==
  ASSUME AccountsInv, NEW w \in Workers, NEW j \in ask[w], step[w] = "run",
         A!Subscribe(w, j) \/ A!Unsubscribe(w, j)
  PROVE  AccountsInv'
<1>1. /\ j \in A!Jobs /\ A!Answer(w)
      /\ UNCHANGED <<rows, stamp, tokens, copies, seeded, gone>>
      /\ subs' \subseteq subs \union {[user |-> j.id, endpoint |-> j.endpoint]}
  BY Proceeds DEF A!Subscribe, A!Unsubscribe
<1>2. subs' \subseteq [user : A!Ids, endpoint : Endpoints]
  BY <1>1, Proceeds DEF A!Jobs
<1>3. Tables'
  BY <1>1 DEF AccountsInv, Tables, IdsUnique, StampsPast, CopiesMatch, RowsSeeded, A!ETag
<1>4. BackingStays
  BY <1>1, RowsStay
<1> QED BY <1>1, <1>2, <1>3, <1>4, Proceeds, StatementKeeps DEF A!Answer

LEMMA AccountsStep ==
  ASSUME AccountsInv, [A!Next]_aVars
  PROVE  AccountsInv'
<1>1. CASE A!Tick
  <2>1. today' = today + 1 /\ today \in 0 .. LastHour /\ today' \in 0 .. LastHour
        /\ UNCHANGED <<rows, subs, stamp, tokens, step, ask, copies, asks, seeded, gone>>
    BY <1>1, AccountNumbers DEF A!Tick, AccountsInv, A!TypeOK
  <2>2. A!TypeOK' /\ JobsFit' /\ Counted'
    BY <2>1 DEF AccountsInv, A!TypeOK, JobsFit, Counted, Due
  <2>3. Tables'
    BY <2>1 DEF AccountsInv, Tables, IdsUnique, StampsPast, CopiesMatch, RowsSeeded, A!ETag
  <2>4. /\ \A t \in tokens : t.exp \in Int
        /\ \A v \in Workers : \A j \in ask[v] : j.at \in Int
    BY AccountNumbers DEF AccountsInv, A!TypeOK, A!Jobs
  <2>5. TokensBacked' /\ JobsBacked'
    BY <2>1, <2>4, AccountNumbers DEF AccountsInv, TokensBacked, JobsBacked, Backed, A!Exists
  <2>6. PowersSeeded'
    BY <2>1 DEF AccountsInv, PowersSeeded
  <2> QED BY <2>2, <2>3, <2>5, <2>6 DEF AccountsInv
<1>2. ASSUME NEW w \in Workers, NEW j \in ask[w], A!Find(w, j) \/ A!Run(w, j) PROVE AccountsInv'
  BY <1>2, LookupKeeps, UpsertKeeps, WriteKeeps, IssueKeeps, ProfileKeeps, DeleteKeeps, PushKeeps
     DEF A!Find, A!Run
<1>3. CASE UNCHANGED aVars
  <2>1. Tables'
    BY <1>3 DEF aVars, AccountsInv, Tables, IdsUnique, StampsPast, CopiesMatch, RowsSeeded, A!ETag
  <2> QED BY <1>3, <2>1 DEF aVars, AccountsInv, A!TypeOK, JobsFit, Counted, Due, TokensBacked,
                            JobsBacked, Backed, A!Exists, PowersSeeded
<1> QED BY <1>1, <1>2, <1>3, AskKeeps DEF A!Next

----------------------------------------------------------------------------
\* What PowerOutlivesByTTL asks of a request that runs.
LEMMA PowerIsBacked ==
  ASSUME AccountsInv, NEW w \in Workers, NEW j \in ask[w], step[w] = "run", j.op \in PowerOps
  PROVE  A!Exists(j.by) \/ \E g \in gone : g.id = j.by /\ j.at < g.at + TokenTTL
<1>1. Backed(j.by, j.at + 1) /\ j.at \in 0 .. LastHour
  BY Proceeds DEF AccountsInv, JobsBacked, A!Jobs
<1>2. \A g \in gone : g.at \in 0 .. LastHour
  BY DEF AccountsInv, A!TypeOK
<1>3. ASSUME NEW g \in gone, j.at + 1 <= g.at + TokenTTL PROVE j.at < g.at + TokenTTL
  BY <1>1, <1>2, <1>3, AccountNumbers
<1> QED BY <1>1, <1>3 DEF Backed

\* A worker becomes idle by a statement of its own request.
LEMMA RunsItsOwn ==
  ASSUME AccountsInv, [A!Next]_aVars, NEW w \in Workers, NEW j \in ask[w],
         step[w] = "run", step'[w] = "idle"
  PROVE  A!Run(w, j)
<1>1. /\ step \in [Workers -> {"idle", "find", "run"}]
      /\ \A i, m \in ask[w] : i = m
  BY DEF AccountsInv, A!TypeOK
<1>2. ~(UNCHANGED aVars) /\ ~A!Tick
  BY DEF aVars, A!Tick
<1>3. ASSUME NEW v \in Workers, NEW i \in A!Jobs, NEW l \in {"find", "run"}, A!Admit(v, i, l)
      PROVE  FALSE
  BY <1>1, <1>3 DEF A!Admit
<1>4. ASSUME NEW v \in Workers,
             \/ A!AskRegister(v) \/ A!AskLogin(v) \/ A!AskOAuth(v) \/ A!AskSeed(v)
             \/ A!AskAccount(v) \/ A!AskUpdate(v) \/ A!AskPush(v)
      PROVE  FALSE
  <2>1. \E l \in {"find", "run"} : step' = [step EXCEPT ![v] = l] /\ step[v] = "idle"
    BY <1>4 DEF A!AskRegister, A!AskLogin, A!AskOAuth, A!AskSeed, A!AskAccount, A!AskUpdate,
                A!AskPush, A!Admit
  <2> QED BY <1>1, <2>1
<1>5. ASSUME NEW v \in Workers, NEW i \in ask[v], A!Find(v, i) PROVE FALSE
  <2>1. step[v] = "find" /\ \E l \in {"idle", "run"} : step' = [step EXCEPT ![v] = l]
    BY <1>5 DEF A!Find, A!FindRegister, A!FindLogin, A!FindSeed, A!Upsert, A!Answer, A!GoOn
  <2> QED BY <1>1, <2>1
<1>6. ASSUME NEW v \in Workers, NEW i \in ask[v], A!Run(v, i) PROVE v = w /\ i = j
  <2>1. step' = [step EXCEPT ![v] = "idle"]
    BY <1>6 DEF A!Run, A!Create, A!Issue, A!Seed, A!GetProfile, A!UpdateProfile, A!Delete,
                A!Subscribe, A!Unsubscribe, A!Answer
  <2> QED BY <1>1, <2>1
<1>7. PICK v \in Workers : \E i \in ask[v] : A!Run(v, i)
  BY <1>2, <1>4, <1>5 DEF A!Next
<1> QED BY <1>6, <1>7

\* What ProfileIsFresh asks of a step.
LEMMA ProfileIsSent ==
  ASSUME AccountsInv, [A!Next]_aVars, NEW w \in Workers, NEW j \in ask[w],
         step[w] = "run", step'[w] = "idle", j.op = "profile", NEW r \in rows, r.id = j.id
  PROVE  \E c \in copies' : c.id = r.id /\ c.email = r.email
<1>1. A!GetProfile(w, j)
  BY RunsItsOwn DEF A!Run, A!Create, A!Issue, A!Seed, A!UpdateProfile, A!Delete, A!Subscribe,
     A!Unsubscribe
<1>2. PICK q \in rows :
        /\ q.id = j.id
        /\ copies' = IF \E c \in copies : A!ETag(c) = A!ETag(q) THEN copies ELSE A!Stored(q)
  BY <1>1 DEF A!GetProfile, A!Exists
<1>3. q = r
  BY <1>2 DEF AccountsInv, Tables, IdsUnique
<1>4. CASE \E c \in copies : A!ETag(c) = A!ETag(q)
  <2>1. PICK c \in copies : A!ETag(c) = A!ETag(q)
    BY <1>4
  <2>2. c.id = r.id
    BY <1>3, <2>1 DEF A!ETag
  <2>3. c.email = r.email
    BY <1>3, <2>1 DEF AccountsInv, Tables, CopiesMatch
  <2> QED BY <1>2, <1>4, <2>2, <2>3
<1>5. CASE ~\E c \in copies : A!ETag(c) = A!ETag(q)
  BY <1>2, <1>3, <1>5 DEF A!Stored
<1> QED BY <1>4, <1>5

----------------------------------------------------------------------------
(* The event feed.                                                         *)

\* Events that are in the table, or that a handler still carries.
Carried == durable \union UNION {event[w] : w \in Writers}

EventIds == \A e, f \in Carried : e.n = f.n => e = f

\* What is copied to Redis, and what a client has, is in the table.
CopiesDurable ==
  /\ cache \subseteq durable
  /\ \A w \in Writers : writing[w] \in {"zadd", "trim", "expire"} => event[w] \subseteq durable
  /\ \A r \in Readers : known[r] \subseteq durable

Entered(e) == \E i \in DOMAIN entered : entered[i] = e

EntriesRecorded ==
  /\ entered \in Seq(E!Events)
  /\ \A e \in cache : Entered(e)
  /\ \A r \in Readers : \A e \in known[r] : Entered(e)

\* A cursor is the second of an event the client has.
CursorFits(r) == query[r].since = -1 \/ \E g \in known[r] : query[r].since = E!Second(g)

\* An ETag that names an event says that the client has it, or has something no
\* older: a client got the ETag of a member with an empty list.
Tells(r, t) ==
  \A n \in 1 .. MaxEvents :
    /\ t = <<"id", n>> => \E e \in known[r] : e.n = n
    /\ t = <<"member", n>> => \E e \in durable : e.n = n /\ \E g \in known[r] : e.at <= g.at

\* The ETag of a poll under way is that of an event in the table, if of an event.
Promised(t) ==
  \A n \in 1 .. MaxEvents :
    /\ t # <<"id", n>>
    /\ t = <<"member", n>> => \E e \in durable : e.n = n

TagsTell(r) == Tells(r, tag[r]) /\ Tells(r, query[r].match) /\ Promised(query[r].etag)

\* A client has whatever is in the cache and no newer than what it has, but for what
\* came late.
MissesNone(r) ==
  \A f \in known[r], e \in cache : e.at <= f.at => e \in known[r] \/ E!Late(e)

ReadersFit == \A r \in Readers : CursorFits(r) /\ TagsTell(r) /\ MissesNone(r)

FeedInv == E!TypeOK /\ EventIds /\ CopiesDurable /\ EntriesRecorded /\ ReadersFit

LEMMA FeedNumbers ==
  /\ PerSecond \in Nat \ {0} /\ MaxEvents \in Nat /\ MaxTime \in Nat
  /\ E!Events = [n : 1 .. MaxEvents, at : 0 .. MaxTime, data : Data]
BY ServicesAssumption DEF ServicesAssumption, E!Events

\* Whole seconds, which is what a cursor counts, round down.
LEMMA SecondRoundsDown ==
  ASSUME NEW e \in E!Events
  PROVE  E!Second(e) \in 0 .. MaxTime /\ E!Second(e) * PerSecond <= e.at
<1>1. e.at \in 0 .. MaxTime /\ e.at \in Nat
  BY FeedNumbers
<1>2. /\ (e.at \div PerSecond) \in Nat /\ (e.at \div PerSecond) * PerSecond <= e.at
      /\ e.at \div PerSecond <= e.at
  BY <1>1, FeedNumbers
<1> QED BY <1>1, <1>2, FeedNumbers DEF E!Second

\* Tags of different sorts differ.
LEMMA TagsDiffer ==
  ASSUME NEW n, NEW m
  PROVE  /\ <<"member", n>> # <<"id", m>> /\ <<"member", n>> # <<"zero">> /\ <<"member", n>> # <<"data", m>>
         /\ <<"id", n>> # <<"zero">> /\ <<"id", n>> # <<"data", m>>
         /\ E!NoTag # <<"id", n>> /\ E!NoTag # <<"member", n>>
         /\ <<"id", n>> = <<"id", m>> => n = m
         /\ <<"member", n>> = <<"member", m>> => n = m
BY DEF E!NoTag

LEMMA FeedStart ==
  ASSUME E!Init
  PROVE  FeedInv
<1>1. E!TypeOK
  <2>1. E!NoTag \in E!Tags
    BY DEF E!Tags
  <2>2. E!NoQuery \in [since : -1 .. MaxTime, match : E!Tags, etag : E!Tags]
    BY <2>1, FeedNumbers DEF E!NoQuery
  <2>3. now \in 0 .. MaxTime
    BY FeedNumbers DEF E!Init
  <2> QED BY <2>1, <2>2, <2>3 DEF E!Init, E!TypeOK
<1>2. EventIds /\ CopiesDurable
  BY DEF E!Init, EventIds, Carried, CopiesDurable
<1>3. EntriesRecorded
  BY DEF E!Init, EntriesRecorded
<1>4. ReadersFit
  BY TagsDiffer DEF E!Init, ReadersFit, CursorFits, TagsTell, Tells, Promised, MissesNone, E!NoQuery
<1> QED BY <1>1, <1>2, <1>3, <1>4 DEF FeedInv

\* What was late stays so: no event leaves the table, and the order of arrivals is
\* only added to.
LEMMA LateStays ==
  ASSUME entered \in Seq(E!Events), durable \subseteq durable',
         entered' = entered \/ \E e \in E!Events : entered' = Append(entered, e),
         NEW x
  PROVE  /\ E!Late(x) => E!Late(x)'
         /\ Entered(x) => Entered(x)'
<1>1. DOMAIN entered \subseteq DOMAIN entered' /\ \A i \in DOMAIN entered : entered'[i] = entered[i]
  OBVIOUS
<1> QED BY <1>1 DEF E!Late, E!Before, Entered

\* An event that arrives after one that is newer is late.
LEMMA ArrivesLate ==
  ASSUME entered \in Seq(E!Events), NEW e \in E!Events, entered' = Append(entered, e),
         NEW f \in durable', Entered(f), e.at <= f.at, f.at \in Int, e.at \in Int
  PROVE  E!Late(e)'
<1>1. PICK i \in DOMAIN entered : entered[i] = f
  BY DEF Entered
<1> DEFINE j == Len(entered) + 1
<1>2. /\ i \in DOMAIN entered' /\ j \in DOMAIN entered' /\ i < j
      /\ entered'[i] = f /\ entered'[j] = e
  BY <1>1
<1>3. f.at >= e.at
  OBVIOUS
<1> HIDE DEF j
<1> QED BY <1>2, <1>3 DEF E!Late, E!Before

\* A step of a writer, or of Redis, that adds nothing to the cache or one event of
\* the table, which then is the last to have arrived.
LEMMA PublishKeeps ==
  ASSUME FeedInv, E!TypeOK', EventIds',
         UNCHANGED <<query, known, tag>>, durable \subseteq durable',
         \A w \in Writers : writing'[w] \in {"zadd", "trim", "expire"} => event'[w] \subseteq durable',
         \/ entered' = entered /\ cache' \subseteq cache
         \/ \E e \in durable : entered' = Append(entered, e) /\ cache' = cache \union {e}
  PROVE  FeedInv'
<1>1. /\ entered \in Seq(E!Events) /\ durable \subseteq E!Events /\ cache \subseteq durable
      /\ \A r \in Readers : known[r] \subseteq durable
  BY DEF FeedInv, E!TypeOK, EntriesRecorded, CopiesDurable
<1>2. \A x : (E!Late(x) => E!Late(x)') /\ (Entered(x) => Entered(x)')
  BY <1>1, LateStays
<1>3. CopiesDurable'
  BY <1>1 DEF FeedInv, CopiesDurable
<1>4. EntriesRecorded'
  <2>1. entered' \in Seq(E!Events)
    BY <1>1
  <2>2. ASSUME NEW e \in durable, entered' = Append(entered, e) PROVE Entered(e)'
    <3> DEFINE j == Len(entered) + 1
    <3>1. j \in DOMAIN entered' /\ entered'[j] = e
      BY <1>1, <2>2
    <3> HIDE DEF j
    <3> QED BY <3>1 DEF Entered
  <2>3. \A e \in cache' : Entered(e)'
    BY <1>2, <2>2 DEF FeedInv, EntriesRecorded
  <2>4. \A r \in Readers : \A e \in known'[r] : Entered(e)'
    BY <1>2 DEF FeedInv, EntriesRecorded
  <2> QED BY <2>1, <2>3, <2>4 DEF EntriesRecorded
<1>5. ASSUME NEW r \in Readers PROVE CursorFits(r)' /\ TagsTell(r)'
  BY DEF FeedInv, ReadersFit, CursorFits, TagsTell, Tells, Promised, E!Second
<1>6. ASSUME NEW r \in Readers PROVE MissesNone(r)'
  <2> SUFFICES ASSUME NEW f \in known[r], NEW e \in cache', e.at <= f.at
               PROVE  e \in known[r] \/ E!Late(e)'
    BY DEF MissesNone
  <2>1. CASE e \in cache
    BY <1>2, <2>1 DEF FeedInv, ReadersFit, MissesNone
  <2>2. CASE e \notin cache
    <3>1. e \in durable /\ entered' = Append(entered, e)
      BY <2>2
    <3>2. f \in durable' /\ Entered(f)
      BY <1>1 DEF FeedInv, EntriesRecorded
    <3>3. e \in E!Events /\ f.at \in Int /\ e.at \in Int
      BY <1>1, <3>1, FeedNumbers
    <3> QED BY <1>1, <3>1, <3>2, <3>3, ArrivesLate
  <2> QED BY <2>1, <2>2
<1> QED BY <1>3, <1>4, <1>5, <1>6 DEF FeedInv, ReadersFit

\* The clock ticks, or Redis loses the key.
LEMMA RedisKeeps ==
  ASSUME FeedInv, E!Tick \/ E!KeyExpires
  PROVE  FeedInv'
<1>1. /\ UNCHANGED <<durable, writing, event, polling, query, answer, known, tag, entered>>
      /\ cache' \subseteq cache
  BY DEF E!Tick, E!KeyExpires, E!writers, E!readers
<1>2. now' \in 0 .. MaxTime /\ expiring' \in BOOLEAN
  <2>1. now \in 0 .. MaxTime /\ expiring \in BOOLEAN /\ MaxTime \in Nat
    BY FeedNumbers DEF FeedInv, E!TypeOK
  <2>2. CASE E!Tick
    BY <2>1, <2>2 DEF E!Tick, E!writers
  <2>3. CASE E!KeyExpires
    BY <2>1, <2>3 DEF E!KeyExpires
  <2> QED BY <2>2, <2>3
<1>3. E!TypeOK'
  BY <1>1, <1>2 DEF FeedInv, E!TypeOK
<1>4. EventIds'
  BY <1>1 DEF FeedInv, EventIds, Carried
<1> QED BY <1>1, <1>3, <1>4, PublishKeeps DEF FeedInv, CopiesDurable

LEMMA StampKeeps ==
  ASSUME FeedInv, NEW w \in Writers, E!Stamp(w)
  PROVE  FeedInv'
<1>1. PICK n \in E!Unused, d \in Data : event' = [event EXCEPT ![w] = {[n |-> n, at |-> now, data |-> d]}]
  BY DEF E!Stamp
<1> DEFINE e == [n |-> n, at |-> now, data |-> d]
<1>2. /\ writing' = [writing EXCEPT ![w] = "insert"]
      /\ UNCHANGED <<now, durable, cache, expiring, polling, query, answer, known, tag, entered>>
  BY DEF E!Stamp, E!Go, E!readers
<1>3. n \in 1 .. MaxEvents /\ \A f \in Carried : f.n # n
  BY DEF E!Unused, Carried
<1>4. e \in E!Events /\ e.n = n
  BY <1>3, FeedNumbers DEF FeedInv, E!TypeOK
<1>5. event' = [event EXCEPT ![w] = {e}]
  BY <1>1
<1> HIDE DEF e
<1>6. E!TypeOK'
  BY <1>2, <1>4, <1>5 DEF FeedInv, E!TypeOK
<1>7. Carried' \subseteq Carried \union {e}
  BY <1>2, <1>5 DEF FeedInv, E!TypeOK, Carried
<1>8. EventIds'
  BY <1>3, <1>4, <1>7 DEF FeedInv, EventIds
<1>9. \A v \in Writers : writing'[v] \in {"zadd", "trim", "expire"} => event'[v] \subseteq durable'
  BY <1>2, <1>5 DEF FeedInv, E!TypeOK, CopiesDurable
<1> QED BY <1>2, <1>6, <1>8, <1>9, PublishKeeps

LEMMA InsertionKeeps ==
  ASSUME FeedInv, NEW w \in Writers, E!Insert(w)
  PROVE  FeedInv'
<1>1. /\ durable' = durable \union event[w] /\ writing' = [writing EXCEPT ![w] = "zadd"]
      /\ UNCHANGED <<now, event, cache, expiring, polling, query, answer, known, tag, entered>>
  BY DEF E!Insert, E!Go, E!readers
<1>2. E!TypeOK'
  BY <1>1 DEF FeedInv, E!TypeOK
<1>3. Carried' = Carried
  BY <1>1 DEF Carried
<1>4. EventIds'
  BY <1>3 DEF FeedInv, EventIds
<1>5. \A v \in Writers : writing'[v] \in {"zadd", "trim", "expire"} => event'[v] \subseteq durable'
  BY <1>1 DEF FeedInv, E!TypeOK, CopiesDurable
<1> QED BY <1>1, <1>2, <1>4, <1>5, PublishKeeps

LEMMA ArrivalKeeps ==
  ASSUME FeedInv, NEW w \in Writers, E!ZAdd(w)
  PROVE  FeedInv'
<1>1. PICK e \in event[w] : cache' = cache \union {e} /\ entered' = Append(entered, e)
  BY DEF E!ZAdd
<1>2. /\ writing[w] = "zadd" /\ writing' = [writing EXCEPT ![w] = "trim"]
      /\ UNCHANGED <<now, durable, event, expiring, polling, query, answer, known, tag>>
  BY DEF E!ZAdd, E!Go, E!readers
<1>3. e \in durable
  BY <1>2 DEF FeedInv, CopiesDurable
<1>4. E!TypeOK'
  BY <1>1, <1>2, <1>3 DEF FeedInv, E!TypeOK
<1>5. EventIds'
  BY <1>2 DEF FeedInv, EventIds, Carried
<1>6. \A v \in Writers : writing'[v] \in {"zadd", "trim", "expire"} => event'[v] \subseteq durable'
  BY <1>2 DEF FeedInv, E!TypeOK, CopiesDurable
<1> QED BY <1>1, <1>2, <1>3, <1>4, <1>5, <1>6, PublishKeeps

\* The rest of the pipeline, or its end anywhere.
LEMMA PipelineKeeps ==
  ASSUME FeedInv, NEW w \in Writers, E!Abort(w) \/ E!Trim(w) \/ E!Expire(w) \/ E!CutOff(w)
  PROVE  FeedInv'
<1>1. /\ UNCHANGED <<now, durable, polling, query, answer, known, tag, entered>>
      /\ cache' \subseteq cache /\ expiring' \in BOOLEAN
  <2>1. expiring' = (cache # {}) => expiring' \in BOOLEAN
    OBVIOUS
  <2> QED BY <2>1 DEF E!Abort, E!Trim, E!Expire, E!CutOff, E!Go, E!readers, E!Trimmed, FeedInv, E!TypeOK
<1>2. \/ writing' = [writing EXCEPT ![w] = "idle"] /\ event' = [event EXCEPT ![w] = {}]
      \/ writing[w] = "trim" /\ writing' = [writing EXCEPT ![w] = "expire"] /\ UNCHANGED event
  BY DEF E!Abort, E!Trim, E!Expire, E!CutOff, E!Go
<1>3. E!TypeOK'
  <2>1. CASE writing' = [writing EXCEPT ![w] = "idle"] /\ event' = [event EXCEPT ![w] = {}]
    BY <1>1, <2>1 DEF FeedInv, E!TypeOK
  <2>2. CASE writing' = [writing EXCEPT ![w] = "expire"] /\ UNCHANGED event
    BY <1>1, <2>2 DEF FeedInv, E!TypeOK
  <2> QED BY <1>2, <2>1, <2>2
<1>4. Carried' \subseteq Carried
  BY <1>1, <1>2 DEF FeedInv, E!TypeOK, Carried
<1>5. EventIds'
  BY <1>4 DEF FeedInv, EventIds
<1>6. \A v \in Writers : writing'[v] \in {"zadd", "trim", "expire"} => event'[v] \subseteq durable'
  BY <1>1, <1>2 DEF FeedInv, E!TypeOK, CopiesDurable
<1> QED BY <1>1, <1>3, <1>5, <1>6, PublishKeeps

----------------------------------------------------------------------------
\* A step of one poll.
LEMMA PollKeeps ==
  ASSUME FeedInv, NEW r \in Readers, E!TypeOK',
         UNCHANGED <<durable, cache, writing, event, entered>>,
         \A q \in Readers \ {r} : /\ query'[q] = query[q] /\ known'[q] = known[q] /\ tag'[q] = tag[q],
         known'[r] \subseteq known[r] \union cache,
         CursorFits(r)', TagsTell(r)', MissesNone(r)'
  PROVE  FeedInv'
<1>1. \A x : (E!Late(x) <=> E!Late(x)') /\ (Entered(x) <=> Entered(x)')
  BY DEF E!Late, E!Before, Entered
<1>2. EventIds'
  BY DEF FeedInv, EventIds, Carried
<1>3. CopiesDurable'
  BY DEF FeedInv, CopiesDurable
<1>4. EntriesRecorded'
  BY <1>1 DEF FeedInv, EntriesRecorded
<1>5. ASSUME NEW q \in Readers, q # r PROVE CursorFits(q)' /\ TagsTell(q)' /\ MissesNone(q)'
  <2>1. CursorFits(q) /\ TagsTell(q) /\ MissesNone(q)
    BY DEF FeedInv, ReadersFit
  <2>2. query'[q] = query[q] /\ known'[q] = known[q] /\ tag'[q] = tag[q]
    BY <1>5
  <2> QED BY <1>1, <2>1, <2>2 DEF CursorFits, TagsTell, Tells, Promised, MissesNone, E!Second
<1>6. ReadersFit'
  BY <1>5 DEF ReadersFit
<1> QED BY <1>2, <1>3, <1>4, <1>6 DEF FeedInv

\* What an idle client is left with.
LEMMA FinishTyped ==
  ASSUME FeedInv, NEW r \in Readers, NEW status \in {200, 304, 500}, NEW store \in {"cache", "table"},
         E!Finish(r, status, store)
  PROVE  /\ UNCHANGED <<now, durable, cache, expiring, writing, event, entered>>
         /\ polling' \in [Readers -> {"idle", "latest", "list"}]
         /\ query' \in [Readers -> [since : -1 .. MaxTime, match : E!Tags, etag : E!Tags]]
         /\ answer' \in [Readers -> {0, 200, 304, 500} \X {"none", "cache", "table"}]
         /\ query'[r] = E!NoQuery /\ answer'[r] = <<status, store>>
         /\ \A q \in Readers \ {r} : query'[q] = query[q] /\ answer'[q] = answer[q]
<1>1. E!NoTag \in E!Tags
  BY DEF E!Tags
<1>2. E!NoQuery \in [since : -1 .. MaxTime, match : E!Tags, etag : E!Tags]
  BY <1>1, FeedNumbers DEF E!NoQuery
<1>3. <<status, store>> \in {0, 200, 304, 500} \X {"none", "cache", "table"}
  OBVIOUS
<1> QED BY <1>2, <1>3 DEF E!Finish, E!Serve, E!writers, FeedInv, E!TypeOK

LEMMA NoQueryFits ==
  ASSUME NEW r \in Readers, query'[r] = E!NoQuery
  PROVE  CursorFits(r)' /\ Tells(r, query[r].match)' /\ Promised(query[r].etag)'
BY TagsDiffer DEF CursorFits, Tells, Promised, E!NoQuery

LEMMA AskingKeeps ==
  ASSUME FeedInv, NEW r \in Readers, E!Ask(r)
  PROVE  FeedInv'
<1>1. PICK s \in {-1} \union {E!Second(e) : e \in known[r]}, m \in {E!NoTag, tag[r]} :
        query' = [query EXCEPT ![r] = [E!NoQuery EXCEPT !.since = s, !.match = m]]
  BY DEF E!Ask
<1> DEFINE q == [E!NoQuery EXCEPT !.since = s, !.match = m]
<1>2. /\ UNCHANGED <<now, durable, cache, expiring, writing, event, entered, known, tag>>
      /\ answer' = [answer EXCEPT ![r] = <<0, "none">>] /\ polling' = [polling EXCEPT ![r] = "latest"]
  BY DEF E!Ask, E!Serve, E!writers
<1>3. known[r] \subseteq E!Events /\ tag[r] \in E!Tags /\ E!NoTag \in E!Tags
  BY DEF FeedInv, E!TypeOK, E!Tags
<1>4. s \in -1 .. MaxTime
  <2>1. \A e \in known[r] : E!Second(e) \in -1 .. MaxTime
    BY <1>3, SecondRoundsDown, FeedNumbers
  <2>2. -1 \in -1 .. MaxTime
    BY FeedNumbers
  <2> QED BY <1>1, <2>1, <2>2
<1>5. q \in [since : -1 .. MaxTime, match : E!Tags, etag : E!Tags]
      /\ q.since = s /\ q.match = m /\ q.etag = E!NoTag
  BY <1>3, <1>4 DEF E!NoQuery
<1>6. query' = [query EXCEPT ![r] = q]
  BY <1>1
<1> HIDE DEF q
<1>7. <<0, "none">> \in {0, 200, 304, 500} \X {"none", "cache", "table"}
  OBVIOUS
<1>8. E!TypeOK'
  BY <1>2, <1>5, <1>6, <1>7 DEF FeedInv, E!TypeOK
<1>9. query'[r] = q /\ \A p \in Readers \ {r} : query'[p] = query[p]
  BY <1>6 DEF FeedInv, E!TypeOK
<1>10. CursorFits(r)'
  BY <1>2, <1>5, <1>9 DEF CursorFits, E!Second
<1>11. TagsTell(r)'
  <2>1. Tells(r, m)
    BY TagsDiffer DEF Tells, FeedInv, ReadersFit, TagsTell
  <2>2. Promised(E!NoTag)
    BY TagsDiffer DEF Promised
  <2> QED BY <1>2, <1>5, <1>9, <2>1, <2>2 DEF TagsTell, Tells, Promised, FeedInv, ReadersFit
<1>12. MissesNone(r)'
  BY <1>2 DEF MissesNone, FeedInv, ReadersFit, E!Late, E!Before
<1> QED BY <1>2, <1>8, <1>9, <1>10, <1>11, <1>12, PollKeeps

\* The ETag is computed from the newest event.
LEMMA LatestKeeps ==
  ASSUME FeedInv, NEW r \in Readers, E!Latest(r)
  PROVE  FeedInv'
<1>1. PICK etag \in E!Tags, store \in {"cache", "table"} : E!Compare(r, etag, store) /\ Promised(etag)
  <2>1. \A e \in E!Events : /\ e.n \in 1 .. MaxEvents /\ e.data \in Data
                            /\ <<"member", e.n>> \in E!Tags /\ <<"data", e.data>> \in E!Tags
    BY DEF E!Events, E!Tags
  <2>2. <<"zero">> \in E!Tags /\ Promised(<<"zero">>)
    BY TagsDiffer DEF E!Tags, Promised
  <2>3. \A e \in durable : Promised(<<"member", e.n>>) /\ Promised(<<"data", e.data>>)
    BY TagsDiffer DEF Promised
  <2>4. cache \subseteq durable /\ durable \subseteq E!Events
    BY DEF FeedInv, CopiesDurable, E!TypeOK
  <2> QED BY <2>1, <2>2, <2>3, <2>4 DEF E!Latest, E!Newest
<1>2. UNCHANGED <<now, durable, cache, expiring, writing, event, entered, known, tag>>
  BY <1>1 DEF E!Compare, E!Finish, E!Serve, E!writers
<1>3. /\ known \in [Readers -> SUBSET E!Events] /\ tag \in [Readers -> E!Tags]
      /\ query \in [Readers -> [since : -1 .. MaxTime, match : E!Tags, etag : E!Tags]]
  BY DEF FeedInv, E!TypeOK
<1>4. MissesNone(r)'
  BY <1>2 DEF MissesNone, FeedInv, ReadersFit, E!Late, E!Before
<1>5. CASE E!Finish(r, 304, store)
  <2>1. E!TypeOK'
    BY <1>2, <1>5, FinishTyped DEF FeedInv, E!TypeOK
  <2>2. CursorFits(r)' /\ TagsTell(r)'
    BY <1>2, <1>5, FinishTyped, NoQueryFits DEF TagsTell, Tells, FeedInv, ReadersFit
  <2> QED BY <1>2, <1>4, <1>5, <2>1, <2>2, FinishTyped, PollKeeps
<1>6. CASE query' = [query EXCEPT ![r].etag = etag] /\ E!Serve(r, "list") /\ UNCHANGED answer
  <2>1. /\ query'[r] = [query[r] EXCEPT !.etag = etag]
        /\ query' \in [Readers -> [since : -1 .. MaxTime, match : E!Tags, etag : E!Tags]]
        /\ \A q \in Readers \ {r} : query'[q] = query[q]
    BY <1>3, <1>6
  <2>2. query'[r].since = query[r].since /\ query'[r].match = query[r].match /\ query'[r].etag = etag
    BY <1>3, <2>1
  <2>3. E!TypeOK'
    BY <1>2, <1>6, <2>1 DEF E!Serve, FeedInv, E!TypeOK
  <2>4. CursorFits(r)' /\ TagsTell(r)'
    BY <1>1, <1>2, <2>2 DEF CursorFits, E!Second, TagsTell, Tells, Promised, FeedInv, ReadersFit
  <2> QED BY <1>2, <1>4, <2>1, <2>3, <2>4, PollKeeps
<1> QED BY <1>1, <1>5, <1>6 DEF E!Compare

\* An event of the cache that a list leaves out is no newer than one the client has.
LEMMA LeftOut ==
  ASSUME FeedInv, NEW r \in Readers, NEW e \in cache, e \notin E!Cached(query[r].since)
  PROVE  e \in known[r] \/ E!Late(e)
<1>1. e.at \in Nat /\ ~(e.at >= query[r].since * PerSecond) /\ query[r].since \in Int
  BY FeedNumbers DEF E!Cached, FeedInv, E!TypeOK
<1>2. query[r].since # -1
  BY <1>1, FeedNumbers
<1>3. PICK g \in known[r] : query[r].since = E!Second(g)
  BY <1>2 DEF FeedInv, ReadersFit, CursorFits
<1>4. g \in E!Events /\ g.at \in Nat
  BY <1>3, FeedNumbers DEF FeedInv, E!TypeOK
<1>5. E!Second(g) * PerSecond <= g.at /\ E!Second(g) * PerSecond \in Int
  BY <1>4, SecondRoundsDown, FeedNumbers
<1>6. e.at <= g.at
  BY <1>1, <1>3, <1>4, <1>5
<1> QED BY <1>3, <1>6 DEF FeedInv, ReadersFit, MissesNone

LEMMA ListKeeps ==
  ASSUME FeedInv, NEW r \in Readers, E!ListCached(r)
  PROVE  FeedInv'
<1> DEFINE S == E!Cached(query[r].since)
<1>1. PICK e \in E!Newest(S) :
        \/ E!Finish(r, 304, "cache") /\ UNCHANGED <<known, tag>>
        \/ /\ known' = [known EXCEPT ![r] = known[r] \union S]
           /\ tag' = [tag EXCEPT ![r] = <<"id", e.n>>]
           /\ E!Finish(r, 200, "cache")
  BY DEF E!ListCached
<1>2. /\ e \in S /\ S \subseteq cache /\ cache \subseteq E!Events
      /\ \A f \in cache : f.at \in Int
      /\ \A f \in S, x \in cache : f.at \in Int /\ x.at \in Int /\ x.at <= f.at /\ x \notin S
              => x \in known[r] \/ E!Late(x)
  BY LeftOut, FeedNumbers DEF E!Cached, E!Newest, FeedInv, E!TypeOK
<1> HIDE DEF S
<1>3. /\ known \in [Readers -> SUBSET E!Events] /\ tag \in [Readers -> E!Tags]
  BY DEF FeedInv, E!TypeOK
<1>4. UNCHANGED <<now, durable, cache, expiring, writing, event, entered>>
  BY <1>1, FinishTyped
<1>5. CASE E!Finish(r, 304, "cache") /\ UNCHANGED <<known, tag>>
  <2>1. E!TypeOK'
    BY <1>5, FinishTyped DEF FeedInv, E!TypeOK
  <2>2. CursorFits(r)' /\ TagsTell(r)' /\ MissesNone(r)'
    BY <1>4, <1>5, FinishTyped, NoQueryFits
       DEF TagsTell, Tells, MissesNone, FeedInv, ReadersFit, E!Late, E!Before
  <2> QED BY <1>4, <1>5, <2>1, <2>2, FinishTyped, PollKeeps
<1>6. CASE /\ known' = [known EXCEPT ![r] = known[r] \union S]
           /\ tag' = [tag EXCEPT ![r] = <<"id", e.n>>]
           /\ E!Finish(r, 200, "cache")
  <2>1. e.n \in 1 .. MaxEvents /\ <<"id", e.n>> \in E!Tags
    BY <1>2 DEF E!Events, E!Tags
  <2>2. /\ known'[r] = known[r] \union S /\ known' \in [Readers -> SUBSET E!Events]
        /\ tag'[r] = <<"id", e.n>> /\ tag' \in [Readers -> E!Tags]
        /\ \A q \in Readers \ {r} : known'[q] = known[q] /\ tag'[q] = tag[q]
    BY <1>2, <1>3, <1>6, <2>1
  <2>3. E!TypeOK'
    BY <1>6, <2>2, FinishTyped DEF FeedInv, E!TypeOK
  <2>4. Tells(r, tag[r])'
    BY <1>2, <2>2, TagsDiffer DEF Tells
  <2>5. CursorFits(r)' /\ TagsTell(r)'
    BY <1>6, <2>4, FinishTyped, NoQueryFits DEF TagsTell
  <2>6. MissesNone(r)'
    <3> SUFFICES ASSUME NEW f \in known'[r], NEW x \in cache, x.at <= f.at
                 PROVE  x \in known'[r] \/ E!Late(x)
      BY <1>4 DEF MissesNone, E!Late, E!Before
    <3>1. CASE f \in known[r]
      BY <2>2, <3>1 DEF FeedInv, ReadersFit, MissesNone
    <3>2. CASE f \in S
      BY <1>2, <2>2, <3>2
    <3> QED BY <2>2, <3>1, <3>2
  <2>7. known'[r] \subseteq known[r] \union cache
    BY <1>2, <2>2
  <2> QED BY <1>4, <1>6, <2>2, <2>3, <2>5, <2>6, <2>7, FinishTyped, PollKeeps
<1> QED BY <1>1, <1>5, <1>6

\* An empty list from the table says that whatever is there is no newer than the
\* cursor; an error says nothing.
LEMMA TableKeeps ==
  ASSUME FeedInv, NEW r \in Readers, E!ListStored(r) \/ E!PollFails(r)
  PROVE  FeedInv'
<1>1. PICK status \in {200, 304, 500}, store \in {"cache", "table"} : E!Finish(r, status, store)
  BY DEF E!ListStored, E!PollFails
<1>2. UNCHANGED <<now, durable, cache, expiring, writing, event, entered, known>>
  BY <1>1, FinishTyped DEF E!ListStored, E!PollFails
<1>3. tag' \in [Readers -> E!Tags] /\ \A q \in Readers \ {r} : tag'[q] = tag[q]
  BY DEF E!ListStored, E!PollFails, FeedInv, E!TypeOK
<1>4. E!TypeOK'
  BY <1>1, <1>2, <1>3, FinishTyped DEF FeedInv, E!TypeOK
<1>5. MissesNone(r)'
  BY <1>2 DEF MissesNone, FeedInv, ReadersFit, E!Late, E!Before
<1>6. Tells(r, tag[r])'
  <2>1. CASE UNCHANGED tag
    BY <1>2, <2>1 DEF Tells, FeedInv, ReadersFit, TagsTell
  <2>2. CASE E!Stored(query[r].since) = {} /\ tag' = [tag EXCEPT ![r] = query[r].etag]
    <3>1. tag'[r] = query[r].etag /\ Promised(query[r].etag)
      BY <2>2 DEF FeedInv, ReadersFit, TagsTell, E!TypeOK
    <3>2. ASSUME NEW e \in durable PROVE \E g \in known[r] : e.at <= g.at
      <4>1. e.at \in Nat /\ ~(e.at > query[r].since * PerSecond) /\ query[r].since \in Int
        BY <2>2, FeedNumbers DEF E!Stored, FeedInv, E!TypeOK
      <4>2. query[r].since # -1
        BY <4>1, FeedNumbers
      <4>3. PICK g \in known[r] : query[r].since = E!Second(g)
        BY <4>2 DEF FeedInv, ReadersFit, CursorFits
      <4>4. g \in E!Events /\ g.at \in Nat
        BY <4>3, FeedNumbers DEF FeedInv, E!TypeOK
      <4>5. E!Second(g) * PerSecond <= g.at /\ E!Second(g) * PerSecond \in Int
        BY <4>4, SecondRoundsDown, FeedNumbers
      <4>6. e.at <= g.at
        BY <4>1, <4>3, <4>4, <4>5
      <4> QED BY <4>3, <4>6
    <3> QED BY <1>2, <3>1, <3>2 DEF Tells, Promised
  <2> QED BY <2>1, <2>2 DEF E!ListStored, E!PollFails
<1>7. CursorFits(r)' /\ TagsTell(r)'
  BY <1>1, <1>6, FinishTyped, NoQueryFits DEF TagsTell
<1> QED BY <1>1, <1>2, <1>3, <1>4, <1>5, <1>7, FinishTyped, PollKeeps

LEMMA FeedStep ==
  ASSUME FeedInv, [E!Next]_eVars
  PROVE  FeedInv'
<1>1. ASSUME NEW w \in Writers, E!Publish(w) PROVE FeedInv'
  BY <1>1, StampKeeps, InsertionKeeps, ArrivalKeeps, PipelineKeeps DEF E!Publish
<1>2. ASSUME NEW r \in Readers, E!Poll(r) PROVE FeedInv'
  BY <1>2, AskingKeeps, LatestKeeps, ListKeeps, TableKeeps DEF E!Poll
<1>3. CASE UNCHANGED eVars
  <2>1. UNCHANGED <<now, durable, cache, expiring, writing, event, polling, query, answer,
                    known, tag, entered>>
    BY <1>3 DEF eVars
  <2>2. E!TypeOK' /\ EventIds'
    BY <2>1 DEF FeedInv, E!TypeOK, EventIds, Carried
  <2> QED BY <2>1, <2>2, PublishKeeps DEF FeedInv, CopiesDurable
<1> QED BY <1>1, <1>2, <1>3, RedisKeeps DEF E!Next

\* What MissesOnlyLate asks of a step.
LEMMA PollShowsCache ==
  ASSUME FeedInv, [E!Next]_eVars, NEW r \in Readers, answer'[r] # answer[r],
         answer'[r] \in {<<200, "cache">>, <<304, "cache">>}, NEW x \in cache
  PROVE  x \in known'[r] \/ E!Late(x)
<1>1. /\ known \in [Readers -> SUBSET E!Events]
      /\ answer \in [Readers -> {0, 200, 304, 500} \X {"none", "cache", "table"}]
      /\ cache \subseteq durable /\ durable \subseteq E!Events /\ durable \subseteq Carried
      /\ known[r] \subseteq durable
  BY DEF FeedInv, E!TypeOK, CopiesDurable, Carried
<1>2. \A e \in E!Events : e.n \in 1 .. MaxEvents /\ e.at \in Int
  BY FeedNumbers
<1>3. \A q \in Readers : ~E!Ask(q)
  <2> SUFFICES ASSUME NEW q \in Readers, E!Ask(q) PROVE FALSE
    OBVIOUS
  <2>1. answer' = [answer EXCEPT ![q] = <<0, "none">>]
    BY DEF E!Ask
  <2>2. <<0, "none">> # <<200, "cache">> /\ <<0, "none">> # <<304, "cache">>
    OBVIOUS
  <2> QED BY <1>1, <2>1, <2>2
<1>4. \A q \in Readers : ~E!ListStored(q) /\ ~E!PollFails(q)
  <2> SUFFICES ASSUME NEW q \in Readers, E!ListStored(q) \/ E!PollFails(q) PROVE FALSE
    OBVIOUS
  <2>1. PICK status \in {200, 500} : answer' = [answer EXCEPT ![q] = <<status, "table">>]
    BY DEF E!ListStored, E!PollFails, E!Finish
  <2>2. <<status, "table">> # <<200, "cache">> /\ <<status, "table">> # <<304, "cache">>
    OBVIOUS
  <2> QED BY <1>1, <2>1, <2>2
<1>5. PICK q \in Readers : E!Latest(q) \/ E!ListCached(q)
  BY <1>3, <1>4 DEF E!Next, E!Tick, E!KeyExpires, E!Publish, E!Stamp, E!Insert, E!Abort, E!ZAdd, E!Trim,
     E!Expire, E!CutOff, E!Go, E!readers, E!Poll, eVars
<1>6. \E status \in {200, 304}, store \in {"cache", "table"} :
        answer' = [answer EXCEPT ![q] = <<status, store>>]
  BY <1>5 DEF E!Latest, E!Compare, E!ListCached, E!Finish
<1>7. q = r
  BY <1>1, <1>6
<1>8. CASE E!Latest(r)
  <2>1. PICK e \in E!Newest(cache) : <<"member", e.n>> = query[r].match /\ UNCHANGED known
    <3>1. ASSUME NEW etag, E!Compare(r, etag, "table") PROVE FALSE
      <4>1. answer'[r] = <<304, "table">>
        BY <1>1, <3>1 DEF E!Compare, E!Finish
      <4> QED BY <4>1
    <3> QED BY <1>8, <3>1 DEF E!Latest, E!Compare
  <2>2. e \in cache /\ e.n \in 1 .. MaxEvents /\ x.at <= e.at /\ e.at \in Int /\ x.at \in Int
    BY <1>1, <1>2 DEF E!Newest
  <2>3. PICK f \in durable : f.n = e.n /\ \E g \in known[r] : f.at <= g.at
    BY <2>1, <2>2 DEF FeedInv, ReadersFit, TagsTell, Tells
  <2>4. f = e
    BY <1>1, <2>2, <2>3 DEF FeedInv, EventIds
  <2>5. PICK g \in known[r] : e.at <= g.at
    BY <2>3, <2>4
  <2>6. x.at <= g.at
    BY <1>1, <1>2, <2>2, <2>5
  <2> QED BY <2>1, <2>6 DEF FeedInv, ReadersFit, MissesNone
<1>9. CASE E!ListCached(r)
  <2> DEFINE S == E!Cached(query[r].since)
  <2>1. PICK e \in E!Newest(S) :
          \/ <<"id", e.n>> = query[r].match /\ UNCHANGED known
          \/ known' = [known EXCEPT ![r] = known[r] \union S]
    BY <1>9 DEF E!ListCached
  <2>2. e \in S /\ e \in cache /\ \A f \in S : f.at <= e.at
    BY DEF E!Newest, E!Cached
  <2>3. known[r] \subseteq known'[r]
    BY <1>1, <2>1
  <2>4. CASE x \notin S
    BY <2>3, <2>4, LeftOut
  <2>5. CASE x \in S /\ <<"id", e.n>> = query[r].match
    <3>1. PICK f \in known[r] : f.n = e.n
      BY <1>1, <1>2, <2>2, <2>5 DEF FeedInv, ReadersFit, TagsTell, Tells
    <3>2. f = e
      BY <1>1, <2>2, <3>1 DEF FeedInv, EventIds
    <3> QED BY <2>2, <2>3, <2>5, <3>2 DEF FeedInv, ReadersFit, MissesNone
  <2>6. CASE x \in S /\ known' = [known EXCEPT ![r] = known[r] \union S]
    BY <1>1, <2>6
  <2> QED BY <2>1, <2>4, <2>5, <2>6
<1> QED BY <1>5, <1>7, <1>8, <1>9

----------------------------------------------------------------------------
(* Lists read page by page.                                                *)

\* The rows there were at an earlier version, from the history of changes.
RowsAfter(changes, v) == {r.item : r \in {q \in changes : q.at > v}}

ItemsAt(v) == (items \union RowsAfter(removed, v)) \ RowsAfter(added, v)

Newer(i) == {j \in items : j > i}
NewerAt(i, v) == {j \in ItemsAt(v) : j > i}

\* Page p of the list as it was at version v.
PageAt(p, v) ==
  {i \in ItemsAt(v) : Cardinality(NewerAt(i, v)) \in (p - 1) * PageSize .. p * PageSize - 1}

\* A row that has gone does not come back.
LogsFit ==
  /\ \A r \in added \union removed : r.at <= version
  /\ \A r \in removed : r.item \notin items

\* A stored page is the page of its version, with a later total.
CopiesRight ==
  \A p \in L!Pages : \A c \in stored[p] :
    /\ list = "beers" /\ c.page = p /\ c.at <= version /\ c.rows = PageAt(p, c.at)
    /\ \E u \in c.at .. version : c.total = Cardinality(ItemsAt(u))

HalfRight ==
  phase = "between" =>
    /\ since <= half.at /\ half.at <= version
    /\ list = "beers" => half.rows = PageAt(page, half.at)
    /\ list = "reports" => half.total = Cardinality(ItemsAt(half.at))

\* A row that was there all the time and has no excuse to be missed yet.
Settled(i) ==
  /\ \A r \in added : r.item = i => r.at <= since
  /\ ~L!Before(removed, i, since)
  /\ reused => ~L!Before(added, i, since)

\* It has been shown, or is on no page before the one that is asked for, or, between
\* the two statements of beers, on the page that was read or behind it.
Ahead(i) ==
  IF phase = "between" /\ list = "beers"
  THEN i \in half.rows \/ Cardinality(Newer(i)) >= page * PageSize
  ELSE Cardinality(Newer(i)) >= (page - 1) * PageSize

ShownSoFar ==
  phase \in {"ask", "between"} => \A i \in items : Settled(i) => i \in seen \/ Ahead(i)

ListInv ==
  L!TypeOK /\ since <= version /\ LogsFit /\ CopiesRight /\ HalfRight /\ ShownSoFar

LEMMA ListNumbers ==
  /\ PageSize \in Nat \ {0} /\ MaxItem \in Nat \ {0} /\ MaxChanges \in Nat
  /\ L!Items = 1 .. MaxItem /\ L!Pages = 1 .. MaxItem
BY ServicesAssumption DEF ServicesAssumption, L!Items, L!Pages

LEMMA CountIsSize ==
  ASSUME NEW S
  PROVE  L!Cardinality(S) = Cardinality(S)
BY DEF L!Cardinality, Cardinality

\* Sets of rows are finite; larger sets have more of them.
LEMMA Sizes ==
  ASSUME NEW T \in SUBSET L!Items
  PROVE  /\ Cardinality(T) \in 0 .. MaxItem
         /\ \A S \in SUBSET T : Cardinality(S) \in Nat /\ Cardinality(S) <= Cardinality(T)
         /\ \A S \in SUBSET T : S # T => Cardinality(S) < Cardinality(T)
<1>1. IsFiniteSet(L!Items) /\ Cardinality(L!Items) = MaxItem
  BY ListNumbers, FS_Interval
<1>2. IsFiniteSet(T) /\ Cardinality(T) <= MaxItem /\ Cardinality(T) \in Nat
  BY <1>1, FS_Subset, FS_CardinalityType
<1>3. ASSUME NEW S \in SUBSET T
      PROVE  /\ Cardinality(S) \in Nat /\ Cardinality(S) <= Cardinality(T)
             /\ S # T => Cardinality(S) < Cardinality(T)
  <2>1. IsFiniteSet(S) /\ Cardinality(S) <= Cardinality(T) /\ Cardinality(S) \in Nat
    BY <1>2, FS_Subset, FS_CardinalityType
  <2>2. S # T => Cardinality(S) < Cardinality(T)
    BY <1>2, <2>1, FS_Subset
  <2> QED BY <2>1, <2>2
<1> QED BY <1>2, <1>3, ListNumbers

LEMMA Products ==
  ASSUME NEW p \in Nat, NEW q \in Nat, p <= q
  PROVE  p * PageSize <= q * PageSize
BY ListNumbers

\* The last page is where the rows end.
LEMMA LastPageEnds ==
  ASSUME NEW p \in Nat, NEW t \in Nat
  PROVE  /\ L!LastPage(t) \in Nat /\ L!LastPage(t) <= t
         /\ p >= L!LastPage(t) => t <= p * PageSize
<1> DEFINE q == (t + PageSize - 1) \div PageSize
<1>1. q \in Nat /\ t <= q * PageSize /\ q * PageSize <= t + PageSize - 1
  BY ListNumbers
<1>2. q <= t
  <2>1. CASE q >= t + 1
    <3>1. (t + 1) * PageSize <= q * PageSize
      BY <1>1, <2>1, Products
    <3>2. (t + 1) * PageSize = t * PageSize + PageSize /\ t <= t * PageSize
      BY ListNumbers
    <3> QED BY <1>1, <3>1, <3>2, ListNumbers
  <2> QED BY <1>1, <2>1
<1>3. p >= q => t <= p * PageSize
  BY <1>1, Products, ListNumbers
<1> QED BY <1>1, <1>2, <1>3 DEF L!LastPage

LEMMA ListStart ==
  ASSUME L!Init
  PROVE  ListInv
<1>1. L!TypeOK
  <2>1. half \in [rows : SUBSET L!Items, total : 0 .. MaxItem, at : 0 .. MaxChanges]
    BY ListNumbers DEF L!Init, L!Nothing
  <2>2. stored \in [L!Pages -> SUBSET L!Contents] /\ \A p \in L!Pages : stored[p] = {}
    BY DEF L!Init
  <2>3. version \in 0 .. MaxChanges /\ page \in L!Pages /\ since \in 0 .. MaxChanges
    BY ListNumbers DEF L!Init
  <2>4. /\ list \in {"beers", "reports"} /\ items \subseteq L!Items
        /\ phase \in {"off", "ask", "between", "done"} /\ reused \in BOOLEAN
        /\ seen = {} /\ added = {} /\ removed = {}
    BY DEF L!Init
  <2> QED BY <2>1, <2>2, <2>3, <2>4 DEF L!TypeOK
<1>2. LogsFit /\ CopiesRight /\ HalfRight /\ ShownSoFar /\ since <= version
  BY DEF L!Init, LogsFit, CopiesRight, HalfRight, ShownSoFar
<1> QED BY <1>1, <1>2 DEF ListInv

----------------------------------------------------------------------------
\* The rows of the past.
LEMMA RowsAtAll ==
  ASSUME ListInv, NEW v
  PROVE  ItemsAt(v) \subseteq L!Items
BY DEF ListInv, L!TypeOK, ItemsAt, RowsAfter

LEMMA PresentRows ==
  ASSUME ListInv
  PROVE  /\ ItemsAt(version) = items
         /\ \A p : PageAt(p, version) = L!RowsOf(p)
<1>1. /\ {q \in removed : q.at > version} = {} /\ {q \in added : q.at > version} = {}
  <2>1. /\ \A q \in added \union removed : q.at \in Int /\ q.at <= version
        /\ version \in Int
    BY DEF ListInv, L!TypeOK, LogsFit
  <2> QED BY <2>1
<1>2. ItemsAt(version) = items
  BY <1>1 DEF ItemsAt, RowsAfter
<1>3. \A i : NewerAt(i, version) = {j \in items : j > i}
  BY <1>2 DEF NewerAt
<1> QED BY <1>2, <1>3, CountIsSize DEF PageAt, L!RowsOf

LEMMA NewChange ==
  ASSUME NEW changes, NEW e, NEW v, e.at > v
  PROVE  RowsAfter(changes \union {e}, v) = RowsAfter(changes, v) \union {e.item}
<1>1. {q \in changes \union {e} : q.at > v} = {q \in changes : q.at > v} \union {e}
  OBVIOUS
<1> DEFINE S == {q \in changes : q.at > v}
<1> HIDE DEF S
<1>2. {r.item : r \in S \union {e}} = {r.item : r \in S} \union {e.item}
  OBVIOUS
<1> QED BY <1>1, <1>2 DEF S, RowsAfter

\* A change leaves the past alone.
LEMMA PastStays ==
  ASSUME ListInv, L!Add \/ L!Remove, NEW v \in Int, v <= version
  PROVE  /\ ItemsAt(v)' = ItemsAt(v)
         /\ \A p : PageAt(p, v)' = PageAt(p, v)
<1>1. /\ version' = version + 1 /\ version \in Nat /\ version' > v
  BY DEF L!Add, L!Remove, L!Changed, ListInv, L!TypeOK
<1>2. ItemsAt(v)' = ItemsAt(v)
  <2>1. CASE L!Add
    <3>1. PICK i \in L!Items \ items :
            /\ \A r \in removed : r.item # i
            /\ items' = items \union {i} /\ added' = added \union {[item |-> i, at |-> version + 1]}
            /\ UNCHANGED removed
      BY <2>1 DEF L!Add
    <3> DEFINE e == [item |-> i, at |-> version + 1]
    <3>2. e.at > v /\ e.item = i /\ added' = added \union {e}
      BY <1>1, <3>1
    <3> HIDE DEF e
    <3>3. RowsAfter(added \union {e}, v) = RowsAfter(added, v) \union {i}
      BY <3>2, NewChange
    <3>4. RowsAfter(added', v) = RowsAfter(added, v) \union {i}
      BY <3>2, <3>3
    <3> QED BY <3>1, <3>4 DEF ItemsAt, RowsAfter
  <2>2. CASE L!Remove
    <3>1. PICK i \in items :
            /\ items' = items \ {i} /\ removed' = removed \union {[item |-> i, at |-> version + 1]}
            /\ UNCHANGED added
      BY <2>2 DEF L!Remove
    <3> DEFINE e == [item |-> i, at |-> version + 1]
    <3>2. e.at > v /\ e.item = i /\ removed' = removed \union {e}
      BY <1>1, <3>1
    <3> HIDE DEF e
    <3>3. RowsAfter(removed \union {e}, v) = RowsAfter(removed, v) \union {i}
      BY <3>2, NewChange
    <3>4. RowsAfter(removed', v) = RowsAfter(removed, v) \union {i}
      BY <3>2, <3>3
    <3> QED BY <3>1, <3>4 DEF ItemsAt, RowsAfter
  <2> QED BY <2>1, <2>2
<1>3. \A i : NewerAt(i, v)' = NewerAt(i, v)
  BY <1>2 DEF NewerAt
<1> QED BY <1>2, <1>3 DEF PageAt

\* With no newer row gone since v the rows before i have not become fewer; with none
\* come either, they are the same.
LEMMA RankGrows ==
  ASSUME ListInv, NEW i \in items, NEW v \in Int, ~L!Before(removed, i, v)
  PROVE  /\ NewerAt(i, v) \subseteq Newer(i)
         /\ ~L!Before(added, i, v) => NewerAt(i, v) = Newer(i)
BY DEF NewerAt, Newer, ItemsAt, RowsAfter, L!Before

LEMMA RankOfCount ==
  ASSUME ListInv, NEW i \in items, NEW v \in Int, ~L!Before(added, i, v)
  PROVE  Newer(i) \subseteq NewerAt(i, v)
BY DEF NewerAt, Newer, ItemsAt, RowsAfter, L!Before

LEMMA ThereThen ==
  ASSUME ListInv, NEW i \in items, NEW v \in Int, \A r \in added : r.item = i => r.at <= v
  PROVE  i \in ItemsAt(v)
<1>1. \A r \in added : r.at \in Int
  BY DEF ListInv, L!TypeOK
<1> QED BY <1>1 DEF ItemsAt, RowsAfter

LEMMA PastSteady ==
  ASSUME UNCHANGED L!table
  PROVE  /\ \A v : ItemsAt(v)' = ItemsAt(v)
         /\ \A p, v : PageAt(p, v)' = PageAt(p, v)
         /\ \A i : Newer(i)' = Newer(i)
         /\ LogsFit => LogsFit'
<1>1. \A v : ItemsAt(v)' = ItemsAt(v)
  BY DEF L!table, ItemsAt, RowsAfter
<1>2. \A i, v : NewerAt(i, v)' = NewerAt(i, v)
  BY <1>1 DEF NewerAt
<1>3. \A p, v : PageAt(p, v)' = PageAt(p, v)
  BY <1>1, <1>2 DEF PageAt
<1> QED BY <1>1, <1>3 DEF Newer, LogsFit, L!table

\* A row that was there from v on, with no newer row come or gone since then, is in the
\* same place at every later version, and before the end.
LEMMA SteadyRow ==
  ASSUME ListInv, NEW i \in items, NEW v \in Int, NEW u \in Int, v <= u,
         \A r \in added : r.item = i => r.at <= v,
         ~L!Before(removed, i, v), ~L!Before(added, i, v)
  PROVE  /\ i \in ItemsAt(u) /\ NewerAt(i, u) = Newer(i)
         /\ Cardinality(Newer(i)) < Cardinality(ItemsAt(u))
<1>1. \A r \in added \union removed : r.at \in Int
  BY DEF ListInv, L!TypeOK
<1>2. /\ \A r \in added : r.item = i => r.at <= u
      /\ ~L!Before(removed, i, u) /\ ~L!Before(added, i, u)
  BY <1>1 DEF L!Before
<1>3. i \in ItemsAt(u) /\ NewerAt(i, u) = Newer(i)
  BY <1>2, ThereThen, RankGrows
<1>4. Newer(i) \subseteq ItemsAt(u) /\ Newer(i) # ItemsAt(u)
  <2>1. i \in Int
    BY ListNumbers DEF ListInv, L!TypeOK
  <2> QED BY <1>3, <2>1 DEF NewerAt
<1> QED BY <1>3, <1>4, RowsAtAll, Sizes

LEMMA RanksAreNumbers ==
  ASSUME ListInv, NEW i
  PROVE  /\ Newer(i) \subseteq items /\ Cardinality(Newer(i)) \in Nat
         /\ i \in items => Cardinality(Newer(i)) < Cardinality(items)
<1>1. items \subseteq L!Items /\ Newer(i) \subseteq items
  BY DEF ListInv, L!TypeOK, Newer
<1>2. i \in items => Newer(i) # items
  BY <1>1, ListNumbers DEF Newer
<1> QED BY <1>1, <1>2, Sizes

----------------------------------------------------------------------------
\* Rows that come and go.
LEMMA TableStep ==
  ASSUME ListInv, L!Add \/ L!Remove
  PROVE  ListInv'
<1>1. /\ version \in Nat /\ version < MaxChanges /\ version' = version + 1 /\ MaxChanges \in Nat
      /\ UNCHANGED <<list, phase, page, half, stored, seen, since, reused>>
  BY ListNumbers DEF L!Add, L!Remove, L!Changed, ListInv, L!TypeOK
<1>2. since \in Int /\ since <= version /\ L!TypeOK
  BY DEF ListInv, L!TypeOK
<1>3. /\ items' \subseteq L!Items
      /\ added' \subseteq [item : L!Items, at : 1 .. MaxChanges]
      /\ removed' \subseteq [item : L!Items, at : 1 .. MaxChanges]
      /\ LogsFit'
  <2>1. CASE L!Add
    <3>1. PICK i \in L!Items \ items :
            /\ \A r \in removed : r.item # i
            /\ items' = items \union {i} /\ added' = added \union {[item |-> i, at |-> version + 1]}
            /\ UNCHANGED removed
      BY <2>1 DEF L!Add
    <3> DEFINE e == [item |-> i, at |-> version + 1]
    <3>2. e \in [item : L!Items, at : 1 .. MaxChanges] /\ added' = added \union {e} /\ e.at = version'
      BY <1>1, <3>1
    <3> HIDE DEF e
    <3>3. \A r \in added \union removed : r.at \in Int /\ r.at <= version
      BY DEF ListInv, LogsFit, L!TypeOK
    <3>4. \A r \in removed : r.item \notin items
      BY DEF ListInv, LogsFit
    <3> QED BY <1>1, <1>2, <3>1, <3>2, <3>3, <3>4 DEF LogsFit, L!TypeOK
  <2>2. CASE L!Remove
    <3>1. PICK i \in items :
            /\ items' = items \ {i} /\ removed' = removed \union {[item |-> i, at |-> version + 1]}
            /\ UNCHANGED added
      BY <2>2 DEF L!Remove
    <3> DEFINE e == [item |-> i, at |-> version + 1]
    <3>2. /\ e \in [item : L!Items, at : 1 .. MaxChanges] /\ removed' = removed \union {e}
          /\ e.at = version' /\ e.item = i
      BY <1>1, <1>2, <3>1 DEF L!TypeOK
    <3> HIDE DEF e
    <3>3. \A r \in added \union removed : r.at \in Int /\ r.at <= version
      BY DEF ListInv, LogsFit, L!TypeOK
    <3>4. \A r \in removed : r.item \notin items
      BY DEF ListInv, LogsFit
    <3> QED BY <1>1, <1>2, <3>1, <3>2, <3>3, <3>4 DEF LogsFit, L!TypeOK
  <2> QED BY <2>1, <2>2
<1>4. L!TypeOK'
  BY <1>1, <1>2, <1>3 DEF L!TypeOK
<1>5. CopiesRight'
  <2> SUFFICES ASSUME NEW p \in L!Pages, NEW c \in stored[p]
               PROVE  /\ list = "beers" /\ c.page = p /\ c.at <= version + 1
                      /\ c.rows = PageAt(p, c.at)'
                      /\ \E u \in c.at .. version + 1 : c.total = Cardinality(ItemsAt(u)')
    BY <1>1 DEF CopiesRight
  <2>1. c.at \in Int
    BY DEF ListInv, L!TypeOK, L!Contents
  <2>2. /\ list = "beers" /\ c.page = p /\ c.at <= version /\ c.rows = PageAt(p, c.at)
        /\ \E u \in c.at .. version : c.total = Cardinality(ItemsAt(u))
    BY DEF ListInv, CopiesRight
  <2>3. PICK u \in c.at .. version : c.total = Cardinality(ItemsAt(u))
    BY <2>2
  <2>4. c.rows = PageAt(p, c.at)' /\ ItemsAt(u)' = ItemsAt(u)
    BY <1>1, <2>1, <2>2, <2>3, PastStays
  <2> QED BY <1>1, <2>1, <2>2, <2>3, <2>4
<1>6. HalfRight'
  <2> SUFFICES ASSUME phase = "between"
               PROVE  /\ since <= half.at /\ half.at <= version + 1
                      /\ list = "beers" => half.rows = PageAt(page, half.at)'
                      /\ list = "reports" => half.total = Cardinality(ItemsAt(half.at))'
    BY <1>1 DEF HalfRight
  <2>1. PICK v \in Int : v = half.at
    BY DEF ListInv, L!TypeOK
  <2>2. /\ since <= v /\ v <= version
        /\ list = "beers" => half.rows = PageAt(page, v)
        /\ list = "reports" => half.total = Cardinality(ItemsAt(v))
    BY <2>1 DEF ListInv, HalfRight
  <2>3. ItemsAt(v)' = ItemsAt(v) /\ PageAt(page, v)' = PageAt(page, v)
    <3>1. ItemsAt(v)' = ItemsAt(v) /\ \A p : PageAt(p, v)' = PageAt(p, v)
      BY <2>2, PastStays
    <3> QED BY <1>1, <3>1 DEF PageAt
  <2>4. ItemsAt(half.at)' = ItemsAt(v)' /\ PageAt(page, half.at)' = PageAt(page, v)'
    BY <1>1, <2>1
  <2> QED BY <1>1, <2>1, <2>2, <2>3, <2>4
<1>7. ShownSoFar'
  <2> SUFFICES ASSUME phase \in {"ask", "between"}, NEW i \in items', Settled(i)'
               PROVE  i \in seen \/ Ahead(i)'
    BY <1>1 DEF ShownSoFar
  <2>1. /\ \A r \in added' : r.item = i => r.at <= since
        /\ ~\E r \in removed' : r.item > i /\ r.at > since
        /\ reused => ~\E r \in added' : r.item > i /\ r.at > since
    BY <1>1 DEF Settled, L!Before
  <2>2. i \in items /\ Settled(i) /\ Newer(i) \subseteq Newer(i)'
    <3>1. CASE L!Add
      <4>1. PICK j \in L!Items \ items :
              items' = items \union {j} /\ added' = added \union {[item |-> j, at |-> version + 1]}
        BY <3>1 DEF L!Add
      <4>2. added \subseteq added' /\ removed' = removed
        BY <3>1, <4>1 DEF L!Add
      <4>3. i # j
        <5> DEFINE e == [item |-> j, at |-> version + 1]
        <5>1. e.item = j /\ ~(e.at <= since) /\ e \in added'
          BY <1>1, <1>2, <4>1
        <5> HIDE DEF e
        <5> QED BY <2>1, <5>1
      <4> QED BY <2>1, <4>1, <4>2, <4>3 DEF Settled, L!Before, Newer
    <3>2. CASE L!Remove
      <4>1. PICK j \in items :
              items' = items \ {j} /\ removed' = removed \union {[item |-> j, at |-> version + 1]}
        BY <3>2 DEF L!Remove
      <4>2. removed \subseteq removed' /\ added' = added
        BY <3>2, <4>1 DEF L!Remove
      <4>3. ~(j > i)
        <5> DEFINE e == [item |-> j, at |-> version + 1]
        <5>1. e.item = j /\ e.at > since /\ e \in removed'
          BY <1>1, <1>2, <4>1
        <5> HIDE DEF e
        <5> QED BY <2>1, <5>1
      <4> QED BY <2>1, <4>1, <4>2, <4>3 DEF Settled, L!Before, Newer
    <3> QED BY <3>1, <3>2
  <2>3. i \in seen \/ Ahead(i)
    BY <2>2 DEF ListInv, ShownSoFar
  <2>4. /\ Cardinality(Newer(i)) \in Nat /\ Cardinality(Newer(i)') \in Nat
        /\ Cardinality(Newer(i)) <= Cardinality(Newer(i)')
    <3>1. Newer(i)' \subseteq L!Items
      BY <1>3 DEF Newer
    <3> QED BY <2>2, <3>1, Sizes
  <2>5. page \in Nat /\ page * PageSize \in Nat /\ (page - 1) * PageSize \in Nat
    BY <1>2, ListNumbers DEF L!TypeOK
  <2>6. ASSUME Ahead(i) PROVE Ahead(i)'
    BY <1>1, <2>4, <2>5, <2>6 DEF Ahead
  <2> QED BY <2>3, <2>6
<1> QED BY <1>1, <1>2, <1>4, <1>3, <1>5, <1>6, <1>7 DEF ListInv

----------------------------------------------------------------------------
\* The client.
LEMMA OpenKeeps ==
  ASSUME ListInv, L!Open
  PROVE  ListInv'
<1>1. /\ phase' = "ask" /\ page' = 1 /\ since' = version /\ ~reused' /\ reused' \in BOOLEAN
      /\ seen' = {} /\ UNCHANGED L!table /\ UNCHANGED <<half, stored>>
  BY DEF L!Open
<1>2. L!TypeOK /\ LogsFit /\ CopiesRight
  BY DEF ListInv
<1>3. L!TypeOK'
  BY <1>1, <1>2, ListNumbers DEF L!TypeOK, L!table
<1>4. LogsFit' /\ \A i : Newer(i)' = Newer(i)
  BY <1>1, <1>2, PastSteady
<1>5. CopiesRight'
  <2>1. /\ \A v : ItemsAt(v)' = ItemsAt(v)
        /\ \A p, v : PageAt(p, v)' = PageAt(p, v)
    BY <1>1, PastSteady
  <2> QED BY <1>1, <1>2, <2>1 DEF CopiesRight, L!table
<1>6. ShownSoFar'
  <2>1. \A i \in items : Ahead(i)'
    <3>1. \A i : Cardinality(Newer(i)) \in Nat
      BY RanksAreNumbers
    <3>2. (1 - 1) * PageSize = 0
      BY ListNumbers
    <3> QED BY <1>1, <1>4, <3>1, <3>2 DEF Ahead
  <2> QED BY <1>1, <2>1 DEF ShownSoFar, L!table
<1>7. HalfRight' /\ (since <= version)'
  BY <1>1, <1>2 DEF HalfRight, L!TypeOK, L!table
<1> QED BY <1>3, <1>4, <1>5, <1>6, <1>7 DEF ListInv

LEMMA ExpireKeeps ==
  ASSUME ListInv, L!Expire
  PROVE  ListInv'
<1>1. PICK p \in L!Pages : \E c \in stored[p] :
        c.fresh /\ stored' = [stored EXCEPT ![p] = {[c EXCEPT !.fresh = FALSE]}]
  BY DEF L!Expire
<1>2. PICK c \in stored[p] : stored' = [stored EXCEPT ![p] = {[c EXCEPT !.fresh = FALSE]}]
  BY <1>1
<1>3. UNCHANGED L!table /\ UNCHANGED <<phase, page, half, seen, since, reused>>
  BY DEF L!Expire
<1> DEFINE d == [c EXCEPT !.fresh = FALSE]
<1>4. /\ d \in L!Contents /\ d.page = c.page /\ d.rows = c.rows /\ d.total = c.total /\ d.at = c.at
      /\ stored' = [stored EXCEPT ![p] = {d}]
  <2>1. c \in L!Contents
    BY <1>1, <1>2 DEF ListInv, L!TypeOK
  <2> QED BY <1>2, <2>1 DEF L!Contents
<1> HIDE DEF d
<1>5. L!TypeOK /\ LogsFit /\ CopiesRight /\ HalfRight /\ ShownSoFar /\ since <= version
  BY DEF ListInv
<1>6. L!TypeOK'
  <2>1. /\ stored' \in [L!Pages -> SUBSET L!Contents]
        /\ \A q \in L!Pages : \A a, b \in stored'[q] : a = b
    BY <1>4, <1>5 DEF L!TypeOK
  <2> QED BY <1>3, <1>5, <2>1 DEF L!TypeOK, L!table
<1>7. /\ LogsFit' /\ \A i : Newer(i)' = Newer(i)
      /\ \A v : ItemsAt(v)' = ItemsAt(v)
      /\ \A q, v : PageAt(q, v)' = PageAt(q, v)
  BY <1>3, <1>5, PastSteady
<1>8. CopiesRight'
  <2> SUFFICES ASSUME NEW q \in L!Pages, NEW b \in stored'[q]
               PROVE  /\ list = "beers" /\ b.page = q /\ b.at <= version
                      /\ b.rows = PageAt(q, b.at)
                      /\ \E u \in b.at .. version : b.total = Cardinality(ItemsAt(u))
    BY <1>3, <1>7 DEF CopiesRight, L!table
  <2>1. CASE q = p
    <3>1. b = d
      BY <1>1, <1>4, <1>5, <2>1 DEF L!TypeOK
    <3> QED BY <1>1, <1>2, <1>4, <1>5, <2>1, <3>1 DEF CopiesRight
  <2>2. CASE q # p
    <3>1. b \in stored[q]
      BY <1>1, <1>4, <1>5, <2>2 DEF L!TypeOK
    <3> QED BY <1>5, <3>1 DEF CopiesRight
  <2> QED BY <2>1, <2>2
<1>9. HalfRight' /\ ShownSoFar' /\ (since <= version)'
  <2>1. HalfRight' /\ (since <= version)'
    BY <1>3, <1>5, <1>7 DEF HalfRight, L!table
  <2>2. \A i : Ahead(i)' = Ahead(i) /\ Settled(i)' = Settled(i)
    BY <1>3, <1>7 DEF Ahead, Settled, L!Before, L!table
  <2>3. ShownSoFar'
    BY <1>3, <1>5, <2>2 DEF ShownSoFar, L!table
  <2> QED BY <2>1, <2>3
<1> QED BY <1>6, <1>7, <1>8, <1>9 DEF ListInv

LEMMA StopKeeps ==
  ASSUME ListInv, L!GiveUp \/ UNCHANGED L!listVars
  PROVE  ListInv'
<1>1. /\ UNCHANGED L!table /\ UNCHANGED <<page, stored, seen, since, reused>>
      /\ \/ phase' = "off" /\ half' = L!Nothing
         \/ phase' = phase /\ half' = half
  BY DEF L!GiveUp, L!listVars, L!table
<1>2. L!TypeOK /\ LogsFit /\ CopiesRight /\ HalfRight /\ ShownSoFar /\ since <= version
  BY DEF ListInv
<1>3. L!TypeOK'
  <2>1. L!Nothing \in [rows : SUBSET L!Items, total : 0 .. MaxItem, at : 0 .. MaxChanges]
    BY ListNumbers DEF L!Nothing
  <2> QED BY <1>1, <1>2, <2>1 DEF L!TypeOK, L!table
<1>4. /\ LogsFit' /\ \A i : Newer(i)' = Newer(i)
      /\ \A v : ItemsAt(v)' = ItemsAt(v)
      /\ \A q, v : PageAt(q, v)' = PageAt(q, v)
  BY <1>1, <1>2, PastSteady
<1>5. CopiesRight' /\ (since <= version)'
  BY <1>1, <1>2, <1>4 DEF CopiesRight, L!table
<1>6. HalfRight'
  BY <1>1, <1>2, <1>4 DEF HalfRight, L!table
<1>7. ShownSoFar'
  <2>1. ASSUME phase' = phase, half' = half
        PROVE  \A i : Ahead(i)' = Ahead(i) /\ Settled(i)' = Settled(i)
    BY <1>1, <1>4, <2>1 DEF Ahead, Settled, L!Before, L!table
  <2> QED BY <1>1, <1>2, <2>1 DEF ShownSoFar, L!table
<1> QED BY <1>3, <1>4, <1>5, <1>6, <1>7 DEF ListInv

LEMMA FirstKeeps ==
  ASSUME ListInv, L!First
  PROVE  ListInv'
<1>1. /\ phase = "ask" /\ phase' = "between"
      /\ UNCHANGED L!table /\ UNCHANGED <<page, stored, seen, since, reused>>
      /\ list = "beers" => half' = [rows |-> L!RowsOf(page), total |-> 0, at |-> version]
      /\ list # "beers" => half' = [rows |-> {}, total |-> Cardinality(items), at |-> version]
  BY CountIsSize DEF L!First
<1>2. /\ L!TypeOK /\ LogsFit /\ CopiesRight /\ ShownSoFar
      /\ since <= version /\ since \in Int /\ version \in 0 .. MaxChanges
      /\ list \in {"beers", "reports"} /\ page \in Nat
  BY ListNumbers DEF ListInv, L!TypeOK
<1>3. /\ LogsFit' /\ \A i : Newer(i)' = Newer(i)
      /\ \A v : ItemsAt(v)' = ItemsAt(v)
      /\ \A q, v : PageAt(q, v)' = PageAt(q, v)
  BY <1>1, <1>2, PastSteady
<1>4. /\ half'.at = version /\ half'.total \in 0 .. MaxItem /\ half'.rows \subseteq items
      /\ list = "beers" => half'.rows = PageAt(page, version)
      /\ list = "reports" => half'.total = Cardinality(ItemsAt(version))
      /\ half' \in [rows : SUBSET L!Items, total : 0 .. MaxItem, at : 0 .. MaxChanges]
  <2>1. items \subseteq L!Items /\ Cardinality(items) \in 0 .. MaxItem /\ L!RowsOf(page) \subseteq items
    BY <1>2, Sizes DEF L!TypeOK, L!RowsOf
  <2>2. ItemsAt(version) = items /\ PageAt(page, version) = L!RowsOf(page)
    BY PresentRows
  <2>3. CASE list = "beers"
    <3>1. half' = [rows |-> L!RowsOf(page), total |-> 0, at |-> version]
      BY <1>1, <2>3
    <3>2. 0 \in 0 .. MaxItem /\ L!RowsOf(page) \in SUBSET L!Items
      <4>1. 0 \in 0 .. MaxItem
        BY ListNumbers
      <4>2. L!RowsOf(page) \in SUBSET L!Items
        BY <2>1
      <4> QED BY <4>1, <4>2
    <3>3. half' \in [rows : SUBSET L!Items, total : 0 .. MaxItem, at : 0 .. MaxChanges]
      BY <1>2, <3>1, <3>2
    <3>4. half'.rows = L!RowsOf(page) /\ half'.total = 0 /\ half'.at = version
      BY <3>1
    <3> QED BY <2>1, <2>2, <2>3, <3>2, <3>3, <3>4
  <2>4. CASE list = "reports"
    <3>1. half' = [rows |-> {}, total |-> Cardinality(items), at |-> version]
      BY <1>1, <2>4
    <3> QED BY <1>2, <2>1, <2>2, <2>4, <3>1
  <2> QED BY <1>2, <2>3, <2>4
<1>5. L!TypeOK'
  BY <1>1, <1>2, <1>4 DEF L!TypeOK, L!table
<1>6. CopiesRight' /\ (since <= version)'
  BY <1>1, <1>2, <1>3 DEF CopiesRight, L!table
<1>7. HalfRight'
  BY <1>1, <1>2, <1>3, <1>4 DEF HalfRight, L!table
<1>8. ShownSoFar'
  <2> SUFFICES ASSUME NEW i \in items, Settled(i)' PROVE i \in seen \/ Ahead(i)'
    BY <1>1 DEF ShownSoFar, L!table
  <2>1. Settled(i)
    BY <1>1 DEF Settled, L!Before, L!table
  <2>2. i \in seen \/ Cardinality(Newer(i)) >= (page - 1) * PageSize
    BY <1>1, <1>2, <2>1 DEF ShownSoFar, Ahead
  <2>3. CASE list = "beers" /\ Cardinality(Newer(i)) >= (page - 1) * PageSize
    <3>1. i \in L!RowsOf(page) \/ Cardinality(Newer(i)) >= page * PageSize
      <4>1. Cardinality(Newer(i)) \in Nat /\ page * PageSize \in Int /\ (page - 1) * PageSize \in Int
        BY <1>2, RanksAreNumbers, ListNumbers
      <4> QED BY <2>3, <4>1, CountIsSize DEF L!RowsOf, Newer
    <3> QED BY <1>1, <1>3, <2>3, <3>1 DEF Ahead, L!table
  <2>4. CASE list # "beers" /\ Cardinality(Newer(i)) >= (page - 1) * PageSize
    BY <1>1, <1>3, <2>4 DEF Ahead, L!table
  <2> QED BY <2>2, <2>3, <2>4
<1> QED BY <1>3, <1>5, <1>6, <1>7, <1>8 DEF ListInv

----------------------------------------------------------------------------
\* A page is shown.
ShownOn(i, c) == i \in seen \/ i \in c.rows \/ Cardinality(Newer(i)) >= page * PageSize

\* A row on this page or behind it is then seen, or behind it; and when there is no next
\* page, seen or behind the end.
LEMMA ShowAdvances ==
  ASSUME ListInv, NEW c \in L!Contents, c.page = page, L!Show(c)
  PROVE  /\ phase' \in {"ask", "done"} /\ page' \in L!Pages
         /\ seen' \in SUBSET L!Items
         /\ \A i : ShownOn(i, c) =>
              \/ i \in seen'
              \/ Cardinality(Newer(i))
                   >= (IF phase' = "ask" THEN (page' - 1) * PageSize ELSE c.total)
<1>1. /\ page \in 1 .. MaxItem /\ c.total \in 0 .. MaxItem /\ c.rows \subseteq L!Items
      /\ seen \subseteq L!Items
  BY ListNumbers DEF ListInv, L!TypeOK, L!Contents
<1>2. seen' = seen \union c.rows
  BY DEF L!Show
<1>3. \A i : Cardinality(Newer(i)) \in Nat
  BY RanksAreNumbers
<1>4. CASE L!HasNext(page, c.total)
  <2>1. phase' = "ask" /\ page' = page + 1
    BY <1>4 DEF L!Show
  <2>2. page + 1 <= MaxItem
    BY <1>1, <1>4, LastPageEnds, ListNumbers DEF L!HasNext
  <2>3. page' - 1 = page /\ page' \in L!Pages
    BY <1>1, <2>1, <2>2, ListNumbers
  <2> QED BY <1>1, <1>2, <2>1, <2>3 DEF ShownOn
<1>5. CASE ~L!HasNext(page, c.total)
  <2>1. phase' = "done" /\ page' = page
    BY <1>5 DEF L!Show
  <2>2. c.total = 0 \/ c.total <= page * PageSize
    BY <1>1, <1>5, LastPageEnds DEF L!HasNext
  <2>3. page * PageSize \in Nat
    BY <1>1, ListNumbers
  <2>4. \A i : Cardinality(Newer(i)) >= page * PageSize => Cardinality(Newer(i)) >= c.total
    BY <1>1, <1>3, <2>2, <2>3
  <2> QED BY <1>1, <1>2, <2>1, <2>4, ListNumbers DEF ShownOn
<1> QED BY <1>4, <1>5

LEMMA CopyIsRight ==
  ASSUME ListInv, NEW c \in stored[page]
  PROVE  /\ c \in L!Contents /\ c.page = page /\ c.at \in Int /\ c.at <= version
         /\ list = "beers" /\ c.rows = PageAt(page, c.at)
         /\ \E u \in c.at .. version : c.total = Cardinality(ItemsAt(u))
<1>1. page \in L!Pages /\ c \in L!Contents
  BY DEF ListInv, L!TypeOK
<1> QED BY <1>1 DEF ListInv, CopiesRight, L!Contents

\* Rows of a stored copy.
LEMMA ReuseShows ==
  ASSUME ListInv, phase = "ask", NEW c \in stored[page],
         NEW i \in items, NEW v \in Int, v <= since, v <= c.at,
         \A r \in added : r.item = i => r.at <= v,
         ~L!Before(removed, i, v), ~L!Before(added, i, v)
  PROVE  ShownOn(i, c) /\ Cardinality(Newer(i)) < c.total
<1>1. /\ c \in L!Contents /\ c.page = page /\ c.at \in Int /\ c.at <= version
      /\ list = "beers" /\ c.rows = PageAt(page, c.at)
  BY CopyIsRight
<1>2. PICK u \in c.at .. version : c.total = Cardinality(ItemsAt(u))
  BY CopyIsRight
<1>3. /\ version \in Int /\ since \in Int /\ \A r \in added \union removed : r.at \in Int
      /\ page \in Nat
  BY ListNumbers DEF ListInv, L!TypeOK
<1>4. i \in ItemsAt(c.at) /\ NewerAt(i, c.at) = Newer(i)
  BY <1>1, SteadyRow
<1>5. Cardinality(Newer(i)) < c.total
  BY <1>1, <1>2, <1>3, SteadyRow
<1>6. Settled(i)
  BY <1>3 DEF Settled, L!Before
<1>7. i \in seen \/ Cardinality(Newer(i)) >= (page - 1) * PageSize
  BY <1>6 DEF ListInv, ShownSoFar, Ahead
<1>8. /\ Cardinality(Newer(i)) \in Int /\ page * PageSize \in Int
      /\ (page - 1) * PageSize \in Int
  BY <1>3, RanksAreNumbers, ListNumbers
<1>9. ASSUME Cardinality(Newer(i)) >= (page - 1) * PageSize,
             ~(Cardinality(Newer(i)) >= page * PageSize)
      PROVE  i \in c.rows
  BY <1>1, <1>4, <1>8, <1>9 DEF PageAt
<1> QED BY <1>5, <1>7, <1>9 DEF ShownOn

\* Rows of an answer.
LEMMA AnswerShows ==
  ASSUME ListInv, phase = "between", NEW i \in items, Settled(i), NEW c,
         c.rows = L!Content.rows, c.total = L!Content.total
  PROVE  /\ ShownOn(i, c)
         /\ (list = "reports" => ~L!Before(added, i, half.at))
              => Cardinality(Newer(i)) < c.total
<1>1. /\ since \in Int /\ half.at \in Int /\ page \in Nat /\ list \in {"beers", "reports"}
      /\ since <= half.at /\ half.at <= version
      /\ list = "reports" => half.total = Cardinality(ItemsAt(half.at))
      /\ \A r \in added \union removed : r.at \in Int
      /\ items \subseteq L!Items
  BY ListNumbers DEF ListInv, L!TypeOK, HalfRight
<1>2. i \in seen \/ Ahead(i)
  BY DEF ListInv, ShownSoFar
<1>3. Cardinality(Newer(i)) \in Nat /\ Cardinality(Newer(i)) < Cardinality(items)
  BY RanksAreNumbers
<1>4. CASE list = "beers"
  <2>1. c.rows = half.rows /\ c.total = Cardinality(items)
    BY <1>4, CountIsSize DEF L!Content
  <2> QED BY <1>2, <1>3, <1>4, <2>1 DEF Ahead, ShownOn
<1>5. CASE list = "reports"
  <2>1. c.rows = L!RowsOf(page) /\ c.total = Cardinality(ItemsAt(half.at))
    BY <1>1, <1>5 DEF L!Content
  <2>2. /\ Cardinality(Newer(i)) \in Int /\ page * PageSize \in Int
        /\ (page - 1) * PageSize \in Int
    BY <1>1, <1>3, ListNumbers
  <2>3. i \in seen \/ Cardinality(Newer(i)) >= (page - 1) * PageSize
    BY <1>2, <1>5 DEF Ahead
  <2>4. ASSUME Cardinality(Newer(i)) >= (page - 1) * PageSize,
               ~(Cardinality(Newer(i)) >= page * PageSize)
        PROVE  i \in L!RowsOf(page)
    BY <2>2, <2>4, CountIsSize DEF L!RowsOf, Newer
  <2>5. ASSUME ~L!Before(added, i, half.at)
        PROVE  Cardinality(Newer(i)) < Cardinality(ItemsAt(half.at))
    <3>1. i \in ItemsAt(half.at)
      <4>1. \A r \in added : r.item = i => r.at <= half.at
        BY <1>1 DEF Settled
      <4> QED BY <1>1, <4>1, ThereThen
    <3>2. Newer(i) \subseteq NewerAt(i, half.at)
      BY <1>1, <2>5, RankOfCount
    <3>3. Newer(i) \subseteq ItemsAt(half.at) /\ Newer(i) # ItemsAt(half.at)
      BY <1>1, <3>1, <3>2, ListNumbers DEF NewerAt, Newer
    <3> QED BY <3>3, RowsAtAll, Sizes
  <2> QED BY <1>5, <2>1, <2>3, <2>4, <2>5 DEF ShownOn
<1> QED BY <1>1, <1>4, <1>5

----------------------------------------------------------------------------
\* A stored copy is shown.
LEMMA ReuseStep ==
  ASSUME ListInv, L!Reuse
  PROVE  /\ ListInv'
         /\ phase' = "done" =>
              \A i \in items : i \in seen' \/ ~Settled(i)'
<1>1. PICK c \in stored[page] : /\ L!Show(c) /\ reused' = TRUE
                                /\ since' = IF c.at < since THEN c.at ELSE since
  BY DEF L!Reuse
<1>2. phase = "ask" /\ UNCHANGED L!table /\ UNCHANGED <<half, stored>>
  BY DEF L!Reuse
<1>3. /\ L!TypeOK /\ LogsFit /\ CopiesRight /\ since <= version
      /\ since \in 0 .. MaxChanges /\ version \in 0 .. MaxChanges
      /\ MaxChanges \in Nat
  BY ListNumbers DEF ListInv, L!TypeOK
<1>4. c \in L!Contents /\ c.page = page /\ c.at \in 0 .. MaxChanges /\ c.at <= version
  BY CopyIsRight DEF L!Contents
<1>5. /\ phase' \in {"ask", "done"} /\ page' \in L!Pages /\ seen' \in SUBSET L!Items
      /\ \A i : ShownOn(i, c) =>
           \/ i \in seen'
           \/ Cardinality(Newer(i))
                >= (IF phase' = "ask" THEN (page' - 1) * PageSize ELSE c.total)
  BY <1>1, <1>4, ShowAdvances
<1>6. /\ LogsFit' /\ \A i : Newer(i)' = Newer(i)
      /\ \A v : ItemsAt(v)' = ItemsAt(v)
      /\ \A q, v : PageAt(q, v)' = PageAt(q, v)
  BY <1>2, <1>3, PastSteady
<1>7. since' \in 0 .. MaxChanges /\ since' <= since /\ since' <= c.at
  BY <1>1, <1>3, <1>4
<1>8. L!TypeOK'
  BY <1>1, <1>2, <1>3, <1>5, <1>7 DEF L!TypeOK, L!table
<1>9. CopiesRight' /\ (since <= version)' /\ HalfRight'
  BY <1>2, <1>3, <1>5, <1>6, <1>7 DEF CopiesRight, HalfRight, L!table
<1>10. \A i \in items : Settled(i)' => ShownOn(i, c) /\ Cardinality(Newer(i)) < c.total
  <2> SUFFICES ASSUME NEW i \in items, Settled(i)'
               PROVE  ShownOn(i, c) /\ Cardinality(Newer(i)) < c.total
    OBVIOUS
  <2>1. PICK v \in Int : v = since'
    BY <1>7
  <2>2. /\ \A r \in added : r.item = i => r.at <= v
        /\ ~L!Before(removed, i, v) /\ ~L!Before(added, i, v)
    BY <1>1, <1>2, <2>1 DEF Settled, L!Before, L!table
  <2> QED BY <1>2, <1>7, <2>1, <2>2, ReuseShows
<1>11. ShownSoFar'
  BY <1>2, <1>5, <1>6, <1>10 DEF ShownSoFar, Ahead, L!table
<1>12. ASSUME phase' = "done" PROVE \A i \in items : i \in seen' \/ ~Settled(i)'
  <2>1. \A i : Cardinality(Newer(i)) \in Int
    BY RanksAreNumbers
  <2>2. c.total \in Int
    BY <1>4, ListNumbers DEF L!Contents
  <2> QED BY <1>5, <1>10, <1>12, <2>1, <2>2
<1> QED BY <1>6, <1>8, <1>9, <1>11, <1>12 DEF ListInv

\* The second statement and the answer.
LEMMA SecondStep ==
  ASSUME ListInv, L!Second
  PROVE  /\ ListInv'
         /\ phase' = "done" =>
              \A i \in items : \/ i \in seen' \/ ~Settled(i)'
                               \/ list = "reports" /\ L!Before(added, i, half.at)
<1> DEFINE same == {d \in stored[page] : list = "beers" /\ L!ETag(d) = L!ETag(L!Content)}
           offered == IF same = {} THEN {L!Content} ELSE {L!Revalidated(d) : d \in same}
<1>1. /\ phase = "between" /\ UNCHANGED L!table /\ UNCHANGED <<since, reused>>
      /\ half' = L!Nothing
      /\ stored' = IF list = "beers" THEN [stored EXCEPT ![page] = offered] ELSE stored
  BY DEF L!Second
<1>2. PICK c \in offered : L!Show(c)
  BY DEF L!Second
<1>3. /\ L!TypeOK /\ LogsFit /\ CopiesRight /\ HalfRight /\ since <= version
      /\ page \in L!Pages
  BY DEF ListInv, L!TypeOK
<1>4. /\ L!Content \in L!Contents /\ L!Content.page = page /\ L!Content.at = half.at
  <2>1. /\ items \subseteq L!Items /\ half.rows \in SUBSET L!Items /\ half.total \in 0 .. MaxItem
        /\ half.at \in 0 .. MaxChanges
    BY <1>3 DEF L!TypeOK
  <2>2. L!RowsOf(page) \in SUBSET L!Items /\ L!Cardinality(items) \in 0 .. MaxItem
    BY <2>1, Sizes, CountIsSize DEF L!RowsOf
  <2> QED BY <1>3, <2>1, <2>2 DEF L!Content, L!Contents
<1>5. \A b \in offered : /\ b \in L!Contents /\ b.page = page /\ b.at = half.at
                       /\ b.rows = L!Content.rows /\ b.total = L!Content.total
  <2>1. ASSUME NEW d \in same
        PROVE  /\ L!Revalidated(d) \in L!Contents /\ L!Revalidated(d).page = page
               /\ L!Revalidated(d).at = half.at
               /\ L!Revalidated(d).rows = L!Content.rows
               /\ L!Revalidated(d).total = L!Content.total
    <3>1. d \in L!Contents /\ d.page = page
      BY CopyIsRight
    <3>2. d.rows = L!Content.rows /\ d.total = L!Content.total
      BY DEF L!ETag
    <3>3. half.at \in 0 .. MaxChanges
      BY <1>3 DEF L!TypeOK
    <3> QED BY <3>1, <3>2, <3>3 DEF L!Revalidated, L!Contents
  <2> QED BY <1>4, <2>1
<1>6. \A a, b \in offered : a = b
  <2>1. \A a, b \in same : a = b
    BY <1>3 DEF L!TypeOK
  <2> QED BY <2>1
<1> HIDE DEF offered, same
<1>7. /\ phase' \in {"ask", "done"} /\ page' \in L!Pages /\ seen' \in SUBSET L!Items
      /\ \A i : ShownOn(i, c) =>
           \/ i \in seen'
           \/ Cardinality(Newer(i))
                >= (IF phase' = "ask" THEN (page' - 1) * PageSize ELSE c.total)
  BY <1>2, <1>5, ShowAdvances
<1>8. /\ LogsFit' /\ \A i : Newer(i)' = Newer(i)
      /\ \A v : ItemsAt(v)' = ItemsAt(v)
      /\ \A q, v : PageAt(q, v)' = PageAt(q, v)
  BY <1>1, <1>3, PastSteady
<1>9. L!TypeOK'
  <2>1. L!Nothing \in [rows : SUBSET L!Items, total : 0 .. MaxItem, at : 0 .. MaxChanges]
    BY ListNumbers DEF L!Nothing
  <2>2. /\ stored' \in [L!Pages -> SUBSET L!Contents]
        /\ \A q \in L!Pages : \A a, b \in stored'[q] : a = b
    BY <1>1, <1>3, <1>5, <1>6 DEF L!TypeOK
  <2> QED BY <1>1, <1>3, <1>7, <2>1, <2>2 DEF L!TypeOK, L!table
<1>10. CopiesRight'
  <2> SUFFICES ASSUME NEW q \in L!Pages, NEW b \in stored'[q]
               PROVE  /\ list = "beers" /\ b.page = q /\ b.at <= version
                      /\ b.rows = PageAt(q, b.at)
                      /\ \E u \in b.at .. version : b.total = Cardinality(ItemsAt(u))
    BY <1>1, <1>8 DEF CopiesRight, L!table
  <2>1. CASE list = "beers" /\ q = page
    <3>1. b \in offered
      BY <1>1, <1>3, <2>1 DEF L!TypeOK
    <3>2. /\ b.page = page /\ b.at = half.at /\ b.rows = half.rows
          /\ b.total = Cardinality(items)
      BY <1>5, <2>1, <3>1, CountIsSize DEF L!Content
    <3>3. half.at <= version /\ half.rows = PageAt(page, half.at)
          /\ half.at \in Int /\ version \in Int
      BY <1>1, <1>3, <2>1 DEF HalfRight, L!TypeOK
    <3>4. Cardinality(items) = Cardinality(ItemsAt(version))
      BY PresentRows
    <3> QED BY <2>1, <3>2, <3>3, <3>4
  <2>2. CASE ~(list = "beers" /\ q = page)
    <3>1. b \in stored[q]
      BY <1>1, <1>3, <2>2 DEF L!TypeOK
    <3> QED BY <1>3, <3>1 DEF CopiesRight
  <2> QED BY <2>1, <2>2
<1>11. \A i \in items : Settled(i)' =>
         /\ ShownOn(i, c)
         /\ \/ Cardinality(Newer(i)) < c.total
            \/ list = "reports" /\ L!Before(added, i, half.at)
  <2> SUFFICES ASSUME NEW i \in items, Settled(i)
               PROVE  /\ ShownOn(i, c)
                      /\ \/ Cardinality(Newer(i)) < c.total
                         \/ list = "reports" /\ L!Before(added, i, half.at)
    BY <1>1 DEF Settled, L!Before, L!table
  <2>1. c.rows = L!Content.rows /\ c.total = L!Content.total
    BY <1>2, <1>5
  <2> QED BY <1>1, <2>1, AnswerShows
<1>12. ShownSoFar'
  BY <1>1, <1>7, <1>8, <1>11 DEF ShownSoFar, Ahead, L!table
<1>13. HalfRight' /\ (since <= version)'
  BY <1>1, <1>3, <1>7 DEF HalfRight, L!table
<1>14. ASSUME phase' = "done"
       PROVE  \A i \in items : \/ i \in seen' \/ ~Settled(i)'
                               \/ list = "reports" /\ L!Before(added, i, half.at)
  <2>1. \A i : Cardinality(Newer(i)) \in Int
    BY RanksAreNumbers
  <2>2. c.total \in Int
    BY <1>2, <1>5, ListNumbers DEF L!Contents
  <2> QED BY <1>7, <1>11, <1>14, <2>1, <2>2
<1> QED BY <1>8, <1>9, <1>10, <1>12, <1>13, <1>14 DEF ListInv

LEMMA ListStep ==
  ASSUME ListInv, [L!Next]_(L!listVars)
  PROVE  ListInv'
BY TableStep, OpenKeeps, FirstKeeps, SecondStep, ReuseStep, ExpireKeeps, StopKeeps DEF L!Next

\* The step of L!MissesOnlyShifted.
LEMMA EndOfListShown ==
  ASSUME ListInv, [L!Next]_(L!listVars), phase # "done", phase' = "done"
  PROVE  \A i \in items : \/ i \in seen'
                          \/ \E r \in added : r.item = i /\ r.at > since'
                          \/ L!Shifted(i)
<1>1. L!Reuse \/ L!Second
  <2>1. ~(L!Add \/ L!Remove \/ L!Expire \/ UNCHANGED L!listVars)
    BY DEF L!Add, L!Remove, L!Changed, L!Expire, L!listVars
  <2>2. ~(L!Open \/ L!First \/ L!GiveUp)
    BY DEF L!Open, L!First, L!GiveUp
  <2> QED BY <2>1, <2>2 DEF L!Next
<1>2. \A i \in items : \/ i \in seen' \/ ~Settled(i)'
                       \/ list = "reports" /\ L!Before(added, i, half.at)
  BY <1>1, ReuseStep, SecondStep
<1>3. UNCHANGED L!table
  BY <1>1 DEF L!Reuse, L!Second
<1>4. since' \in Int /\ \A r \in added : r.at \in Int
  <2>1. L!TypeOK /\ L!TypeOK'
    BY ListStep DEF ListInv
  <2> QED BY <2>1 DEF L!TypeOK
<1>5. ASSUME NEW i \in items, ~Settled(i)'
      PROVE  L!Shifted(i) \/ \E r \in added : r.item = i /\ r.at > since'
  BY <1>3, <1>4, <1>5 DEF Settled, L!Shifted, L!Before, L!table
<1> QED BY <1>2, <1>5 DEF L!Shifted

----------------------------------------------------------------------------
(* Side by side.                                                           *)

allVars == <<part, eVars, fVars, aVars, pVars, oidcVars, lVars>>

\* A step of the whole is a step, or none, of each component.
LEMMA EachMovesAlone ==
  ASSUME [Step]_allVars
  PROVE  /\ [E!Next]_eVars /\ [F!Next]_fVars /\ [A!Next]_aVars /\ [Next]_oidcVars
         /\ [L!Next]_lVars
BY DEF Step, allVars

LEMMA FilterHolds == SideBySide => []FilterInv
<1>1. StartAll => FilterInv
  BY FilterStart DEF StartAll
<1>2. FilterInv /\ [Step]_allVars => FilterInv'
  BY EachMovesAlone, FilterStep
<1> QED BY <1>1, <1>2, PTL DEF SideBySide, allVars

LEMMA AccountsHold == SideBySide => []AccountsInv
<1>1. StartAll => AccountsInv
  BY AccountsStart DEF StartAll
<1>2. AccountsInv /\ [Step]_allVars => AccountsInv'
  BY EachMovesAlone, AccountsStep
<1> QED BY <1>1, <1>2, PTL DEF SideBySide, allVars

LEMMA KeyValues == Values
BY ServicesAssumption DEF ServicesAssumption, Values

LEMMA KeyBounds == Bounds
BY KeyValues, ServicesAssumption DEF ServicesAssumption, Bounds

LEMMA KeysHold == SideBySide => []IInv
<1>1. StartAll => IInv
  BY KeyValues, InitEstablishes DEF StartAll
<1>2. IInv /\ [Step]_allVars => IInv'
  BY KeyValues, EachMovesAlone, StepPreserves
<1> QED BY <1>1, <1>2, PTL DEF SideBySide, allVars

LEMMA PublishedKeysHold == SideBySide => []KInv
<1>1. StartAll => KInv
  BY KeyBounds, KeysStart DEF StartAll
<1>2. KInv /\ [Step]_allVars => KInv'
  BY KeyBounds, EachMovesAlone, KeysStep
<1> QED BY <1>1, <1>2, PTL DEF SideBySide, allVars

LEMMA FeedHolds == SideBySide => []FeedInv
<1>1. StartAll => FeedInv
  BY FeedStart DEF StartAll
<1>2. FeedInv /\ [Step]_allVars => FeedInv'
  BY EachMovesAlone, FeedStep
<1> QED BY <1>1, <1>2, PTL DEF SideBySide, allVars

LEMMA ListsHold == SideBySide => []ListInv
<1>1. StartAll => ListInv
  BY ListStart DEF StartAll
<1>2. ListInv /\ [Step]_allVars => ListInv'
  BY EachMovesAlone, ListStep DEF L!listVars, lVars
<1> QED BY <1>1, <1>2, PTL DEF SideBySide, allVars

\* Types hold in every state of the event feed, the content filter, accounts, the keys
\* and the lists.
THEOREM ServicesTyped == SideBySide => []AllTypesOK
<1>1. FeedInv /\ FilterInv /\ AccountsInv /\ KInv /\ ListInv => AllTypesOK
  BY DEF FeedInv, FilterInv, AccountsInv, KInv, ListInv, AllTypesOK
<1> QED BY <1>1, FeedHolds, FilterHolds, AccountsHold, PublishedKeysHold, ListsHold, PTL

\* An administrator answered out of the Redis copy of the event table then has every
\* event in it, but for those that reached it after an event with a later time: the
\* cursor of whole seconds, the two forms of ETag and the two reads of a poll miss
\* nothing else.
THEOREM PollsMissOnlyLate == SideBySide => MissesOnlyLate
<1> DEFINE Shown == \A r \in Readers :
                      answer'[r] # answer[r]
                        /\ answer'[r] \in {<<200, "cache">>, <<304, "cache">>}
                        => \A e \in cache : e \in known'[r] \/ E!Late(e)
<1>1. FeedInv /\ [Step]_allVars => [Shown]_(E!feedVars)
  BY EachMovesAlone, PollShowsCache
<1> QED BY <1>1, FeedHolds, PTL DEF SideBySide, allVars, MissesOnlyLate, E!MissesOnlyLate

\* A client that pages to the end of a list has seen every row that was there all the
\* time, unless a row before it went, or came after a page it was shown again from
\* its store, or after the count of a report: offsets shift nothing else away.
THEOREM ListsMissOnlyShifted == SideBySide => MissesOnlyShifted
<1> DEFINE Whole == phase # "done" /\ phase' = "done"
                      => \A i \in items : \/ i \in seen'
                                          \/ \E r \in added : r.item = i /\ r.at > since'
                                          \/ L!Shifted(i)
<1>1. ListInv /\ [Step]_allVars => [Whole]_(L!listVars)
  BY EachMovesAlone, EndOfListShown DEF L!listVars, lVars
<1> QED BY <1>1, ListsHold, PTL DEF SideBySide, allVars, MissesOnlyShifted, L!MissesOnlyShifted

\* Beside the others too, a login is accepted on a key within KeyTTL of its withdrawal.
THEOREM OldKeysDie == SideBySide => WithdrawnKeysDie
<1> DEFINE Dies == \A l \in Logins :
                     Decides(l, "accepted")
                       => /\ token[l].genuine
                          /\ \/ token[l].kid \in published
                             \/ time <= withdrawn[token[l].kid] + KeyTTL
<1>1. IInv /\ [Step]_allVars => [Dies]_oidcVars
  BY KeyValues, EachMovesAlone, StepJustified DEF Justified
<1> QED BY <1>1, KeysHold, PTL DEF SideBySide, allVars, WithdrawnKeysDie

\* ... and a genuine token of a key published all the time is rejected only when the
\* login had a reason: a download failed, or it slept through a key's life.
THEOREM NewKeysAreFound == SideBySide => PublishedKeysWork
<1> DEFINE Reasoned == \A l \in Logins :
                         Decides(l, "rejected") /\ token[l].genuine => ~smooth'[l]
<1>1. KInv /\ [Step]_allVars => [Reasoned]_oidcVars
  BY KeyBounds, EachMovesAlone, RejectionHasReason
<1> QED BY <1>1, PublishedKeysHold, PTL DEF SideBySide, allVars, PublishedKeysWork

\* A flagged text is let through only within TTL of the outage, or of the missing
\* API key, that excused it: a cached verdict does not remember an outage for ever.
THEOREM OutagesAreForgotten == SideBySide => LeniencyExpires
<1> DEFINE Fades == \A c \in Checkers :
                      outcome'[c] = 201 /\ outcome[c] # 201 /\ text[c] \in Flagged
                        => clock - lenient'[text[c]] <= TTL
<1>1. FilterInv /\ [Step]_allVars => [Fades]_(F!filterVars)
  BY EachMovesAlone, LeniencyFades
<1> QED BY <1>1, FilterHolds, PTL DEF SideBySide, allVars, LeniencyExpires, F!LeniencyExpires

\* Whoever has an administrator's role or token owes it to SeedAdmin, whatever
\* bodies, emails and overlapping logins, edits and deletions there are.
THEOREM OnlySeedAdminAppoints == SideBySide => []AdminsAreSeeded
<1>1. AccountsInv => AdminsAreSeeded
  BY DEF AccountsInv, Tables, RowsSeeded, PowersSeeded, AdminsAreSeeded, A!AdminsAreSeeded
<1> QED BY <1>1, AccountsHold, PTL

\* A request that runs is from an account that existed less than TokenTTL before it
\* was admitted, even when the account was deleted while its token was being issued.
THEOREM TokensDieWithTheirAccount == SideBySide => PowerOutlivesByTTL
<1> DEFINE Dies == \A w \in Workers : \A j \in ask[w] :
                     A!Runs(w) /\ j.op \in {"profile", "update", "delete", "subscribe", "unsubscribe"}
                       => A!Exists(j.by) \/ \E g \in gone : g.id = j.by /\ j.at < g.at + TokenTTL
<1>1. AccountsInv => Dies
  BY PowerIsBacked DEF A!Runs, PowerOps
<1> QED BY <1>1, AccountsHold, PTL DEF SideBySide, allVars, PowerOutlivesByTTL, A!PowerOutlivesByTTL

\* After a GET of a profile, 200 or 304, the copy the client holds is the profile: no
\* two versions of a row have one ETag.
THEOREM ProfilesAreCurrent == SideBySide => ProfileIsFresh
<1> DEFINE Current == \A w \in Workers : \A j \in ask[w] :
                        A!Runs(w) /\ j.op = "profile"
                          => \A r \in rows : r.id = j.id
                               => \E c \in copies' : c.id = r.id /\ c.email = r.email
<1>1. AccountsInv /\ [Step]_allVars => [Current]_(A!accountVars)
  BY EachMovesAlone, ProfileIsSent DEF A!Runs
<1> QED BY <1>1, AccountsHold, PTL DEF SideBySide, allVars, ProfileIsFresh, A!ProfileIsFresh

----------------------------------------------------------------------------
(* The sessions of patient devices: the invariants of SessionsProofs.      *)

\* What Sessions assumes of its constants holds of those of this run.
LEMMA SessionsFit == P!SessionAssumption
BY ServicesAssumption DEF ServicesAssumption, P!SessionAssumption

LEMMA SessionsMoveAlone ==
  ASSUME [Step]_allVars
  PROVE  [P!Next]_(P!vars)
BY DEF Step, allVars, pVars, P!vars

LEMMA SessionsHold == SideBySide => [](P!IInv /\ P!PInv /\ P!QInv)
<1>1. StartAll => P!IInv /\ P!PInv /\ P!QInv
  <2> SUFFICES ASSUME StartAll PROVE P!IInv /\ P!PInv /\ P!QInv
    OBVIOUS
  <2>1. P!Init
    BY DEF StartAll
  <2> QED BY <2>1, SessionsFit, P!InitEstablishes, P!PInit, P!QInit DEF P!SessionAssumption
<1>2. P!IInv /\ P!PInv /\ P!QInv /\ [Step]_allVars => (P!IInv /\ P!PInv /\ P!QInv)'
  <2> SUFFICES ASSUME P!IInv, P!PInv, P!QInv, [Step]_allVars
               PROVE  P!IInv' /\ P!PInv' /\ P!QInv'
    OBVIOUS
  <2>1. [P!Next]_(P!vars)
    BY SessionsMoveAlone
  <2>2. P!IInv'
    BY <2>1, SessionsFit, P!StepPreserves DEF P!SessionAssumption
  <2>3. P!PInv'
    BY <2>1, SessionsFit, P!PStep DEF P!SessionAssumption
  <2>4. P!QInv'
    BY <2>1, SessionsFit, P!QStep DEF P!SessionAssumption
  <2> QED BY <2>2, <2>3, <2>4
<1> QED BY <1>1, <1>2, PTL DEF SideBySide, allVars

\* A login of a device that waits for its answers has one usable refresh token at most.
THEOREM LoginsStaySingle == SideBySide => []OneLivePerLogin
<1>1. P!PInv => OneLivePerLogin
  BY DEF P!PInv, OneLivePerLogin, P!OneLivePerLogin
<1> QED BY <1>1, SessionsHold, PTL

\* No rotation, deletion or sign-in on one device signs another one out.
THEOREM OthersStaySignedIn == SideBySide => []SessionsSurvive
<1>1. P!QInv => SessionsSurvive
  BY DEF P!QInv, P!RevokedIsRenewed, P!Renewing, SessionsSurvive, P!SessionsSurvive
<1> QED BY <1>1, SessionsHold, PTL
=============================================================================
