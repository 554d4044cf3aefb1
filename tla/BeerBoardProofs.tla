--------------------------- MODULE BeerBoardProofs ---------------------------
(***************************************************************************)
(* BeerStore implements BeerBoard: whatever the handlers, their            *)
(* transactions and their failures, the beers and events everyone sees     *)
(* change one request at a time, and whole.  What a COMMIT publishes was   *)
(* computed earlier, from a row read under its lock; the proof is that it  *)
(* is still the effect of the request on the row it replaces.              *)
(***************************************************************************)
EXTENDS BeerStoreProofs, FiniteSetTheorems

\* Requests in service have different numbers, and no number to come.
Numbered ==
  \A g, h \in Handlers : \A c \in call[g], d \in call[h] :
    /\ c.n <= numCalls
    /\ g # h => c.n # d.n

\* A number whose request has had its effect, if it has any.
Used(n) ==
  /\ n <= numCalls
  /\ \A h \in Handlers : pc[h] \in Undecided => \A c \in call[h] : c.n # n

\* Events and comments, and the comments in a client's copy, carry such numbers.
NumbersUsed ==
  /\ \A e \in events : Used(e.n)
  /\ \A b \in Beers : row[b] # NoBeer => \A m \in row[b].comments : Used(m.id)
  /\ \A h \in Handlers : \A c \in call[h] : \A m \in c.form : Used(m.id)

\* The caller of c may make its change.
Cleared(c) ==
  /\ c.op = "update" /\ row[c.beer] # NoBeer => CanModify(c.by, row[c.beer].owner)
  /\ c.op \in {"delete", "approve"} => c.by \in Admins

\* r is what request c makes of a beer whose row is old.
Effect(r, old, c) ==
  \/ c.op = "create" /\ old = NoBeer /\ r = NewRow(c)
  \/ /\ old # NoBeer
     /\ \/ c.op = "update" /\ CanModify(c.by, old.owner) /\ r = Overwritten(old, c)
        \/ c.op \in {"delete", "approve"} /\ c.by \in Admins /\ r = NoBeer
        \/ c.op = "comment" /\ r = Commented(old, c)
        \/ /\ c.op = "uncomment" /\ c.by \in Admins
           /\ \E m \in Target(old, c) : r = Uncommented(old, m)
        \/ /\ c.op = "like"
           /\ \E m \in Target(old, c) : c.by \notin m.likedBy /\ r = Liked(old, m, c.by)

\* What h may hold in its transaction when it is at l; the check of its caller
\* still counts when it comes to write.
Follows(h, l, r) ==
  \A c \in call[h] :
    /\ l = "write" => Cleared(c)
    /\ l = "edit" => r = row[c.beer]
    /\ l \in {"log", "commit"} => Effect(r, row[c.beer], c)

\* No draft is stale: under its lock the row a draft was made from is the row
\* it will replace.
DraftsFollow == \A h \in Handlers : Follows(h, pc[h], draft[h])

FInv ==
  /\ BInv
  /\ Numbered
  /\ NumbersUsed
  /\ DraftsFollow

----------------------------------------------------------------------------
(* Steps that publish nothing.                                             *)

\* A handler moves on, gives up or answers: it stays undecided only if it was,
\* and its draft follows the row.
LEMMA QuietFollows ==
  ASSUME FInv, BInv', NEW h \in Handlers, NEW l, NEW r,
         pc' = [pc EXCEPT ![h] = l],
         draft' = [draft EXCEPT ![h] = r],
         UNCHANGED <<row, events, call, numCalls>>,
         l \in Undecided => pc[h] \in Undecided,
         Follows(h, l, r)
  PROVE  FInv'
<1> USE DEF FInv
<1>1. /\ \A g \in Handlers \ {h} : pc'[g] = pc[g] /\ draft'[g] = draft[g]
      /\ pc'[h] = l /\ draft'[h] = r
      /\ row' = row /\ events' = events /\ call' = call /\ numCalls' = numCalls
  BY DEF BInv, TypeOK
<1>2. Numbered'
  BY <1>1 DEF Numbered
<1>3. \A g \in Handlers : pc'[g] \in Undecided => pc[g] \in Undecided
  BY <1>1
<1>4. \A n : Used(n) => Used(n)'
  BY <1>1, <1>3 DEF Used
<1>5. NumbersUsed'
  BY <1>1, <1>4 DEF NumbersUsed
<1>6. DraftsFollow'
  <2>1. \A c : Cleared(c) => Cleared(c)'
    BY <1>1 DEF Cleared
  <2> QED BY <1>1, <2>1 DEF DraftsFollow, Follows
<1> QED BY <1>2, <1>5, <1>6

LEMMA RollbackFollows ==
  ASSUME FInv, BInv', NEW h \in Handlers, NEW s, Rollback(h, s)
  PROVE  FInv'
<1>1. "done" \notin Undecided /\ Follows(h, "done", NoBeer)
  BY DEF Undecided, TxLabels, Follows
<1> QED BY <1>1, QuietFollows DEF Rollback, Answer, Goto

\* Outside a transaction nothing is drafted.
LEMMA OutsideFollows ==
  ASSUME FInv, BInv', NEW h \in Handlers, pc[h] \in {"form", "check", "cache"},
         NEW l \in {"check", "read", "write", "done"}, Goto(h, l),
         pc[h] = "cache" => l = "done",
         l = "write" => \A c \in call[h] : Cleared(c),
         UNCHANGED <<row, events, call, draft, numCalls>>
  PROVE  FInv'
<1>1. draft' = [draft EXCEPT ![h] = draft[h]]
  BY DEF FInv, BInv, TypeOK
<1>2. Follows(h, l, draft[h])
  BY DEF Follows
<1>3. l \in Undecided => pc[h] \in Undecided
  BY DEF Undecided, TxLabels
<1> QED BY <1>1, <1>2, <1>3, QuietFollows DEF Goto

LEMMA CheckFollows ==
  ASSUME FInv, BInv', NEW h \in Handlers, Check(h)
  PROVE  FInv'
<1>1. pc[h] = "check" /\ \A c, d \in call[h] : c = d
  BY DEF Check, FInv, BInv, OneCall, Idle
<1>2. PICK c \in call[h] : \/ CheckDuplicate(h, c) \/ CheckUpdate(h, c) \/ CheckDelete(h, c)
                          \/ CheckApproval(h, c) \/ Moderate(h, c)
  BY DEF Check
<1>3. \/ Pass(h, "write") /\ Cleared(c)
      \/ Pass(h, "read")
      \/ \E s \in {403, 404, 409, 422} : Refuse(h, s)
  BY <1>2 DEF CheckDuplicate, CheckUpdate, CheckDelete, CheckApproval, Moderate, Cleared
<1>4. \E l \in {"read", "write", "done"} :
        /\ Goto(h, l) /\ UNCHANGED <<row, events, call, draft, numCalls>>
        /\ l = "write" => Cleared(c)
  BY <1>3 DEF Pass, Refuse, Answer, store
<1> QED BY <1>1, <1>4, OutsideFollows

\* The row read under the lock.
LEMMA ReadFollows ==
  ASSUME FInv, BInv', NEW h \in Handlers, ReadForUpdate(h)
  PROVE  FInv'
<1>1. PICK c \in call[h] :
        \/ Rollback(h, 404)
        \/ /\ draft' = [draft EXCEPT ![h] = row[c.beer]]
           /\ Goto(h, "edit")
           /\ UNCHANGED <<row, events, cache, last, call, reply, numCalls>>
  BY DEF ReadForUpdate
<1>2. pc[h] = "read" /\ pc[h] \in Undecided
  BY DEF ReadForUpdate, Undecided
<1>3. call[h] = {c}
  BY <1>2 DEF FInv, BInv, OneCall, Idle
<1>4. Follows(h, "edit", row[c.beer])
  BY <1>3 DEF Follows
<1> QED BY <1>1, <1>2, <1>4, RollbackFollows, QuietFollows DEF Goto

\* The draft of a write is the effect of the request on the row.
LEMMA WroteFollows ==
  ASSUME FInv, BInv', NEW h \in Handlers, pc[h] \in {"edit", "write"},
         NEW c \in call[h], NEW r, Wrote(h, r), Effect(r, row[c.beer], c)
  PROVE  FInv'
<1>1. call[h] = {c}
  BY DEF FInv, BInv, OneCall, Idle
<1>2. Follows(h, AfterWrite, r)
  BY <1>1, AfterWriteFits DEF Follows
<1>3. pc[h] \in Undecided
  BY DEF Undecided, TxLabels
<1> QED BY <1>2, <1>3, QuietFollows DEF Wrote, Goto

LEMMA EditFollows ==
  ASSUME FInv, BInv', NEW h \in Handlers, Edit(h)
  PROVE  FInv'
<1>1. PICK c \in call[h] : EditAdd(h, c) \/ EditRemove(h, c) \/ EditLike(h, c)
  BY DEF Edit
<1>2. pc[h] = "edit" /\ draft[h] = row[c.beer] /\ row[c.beer] # NoBeer
  BY DEF Edit, FInv, DraftsFollow, Follows, BInv, DraftsFit
<1>3. ASSUME NEW r, Wrote(h, r), Effect(r, draft[h], c) PROVE FInv'
  BY <1>2, <1>3, WroteFollows
<1>4. CASE EditAdd(h, c)
  BY <1>2, <1>3, <1>4 DEF EditAdd, Effect
<1>5. CASE EditRemove(h, c)
  BY <1>2, <1>3, <1>5, RollbackFollows DEF EditRemove, Effect
<1>6. CASE EditLike(h, c)
  BY <1>2, <1>3, <1>6, RollbackFollows DEF EditLike, Effect
<1> QED BY <1>1, <1>4, <1>5, <1>6

LEMMA WriteFollows ==
  ASSUME FInv, BInv', NEW h \in Handlers, Write(h)
  PROVE  FInv'
<1>1. PICK c \in call[h] : \/ WriteCreate(h, c) \/ WriteUpdate(h, c)
                          \/ WriteDelete(h, c) \/ WriteApproval(h, c)
  BY DEF Write
<1>2. pc[h] = "write" /\ pc[h] \in Undecided /\ Cleared(c)
  BY DEF Write, Undecided, FInv, DraftsFollow, Follows
<1>3. ASSUME NEW r, Wrote(h, r), Effect(r, row[c.beer], c) PROVE FInv'
  BY <1>2, <1>3, WroteFollows
<1>4. CASE WriteCreate(h, c)
  <2>1. row[c.beer] = NoBeer
    BY <1>2, <1>4 DEF WriteCreate, FInv, BInv, CreatesAlone
  <2> QED BY <1>3, <1>4, <2>1 DEF WriteCreate, Effect
<1>5. CASE WriteUpdate(h, c)
  BY <1>2, <1>3, <1>5, RollbackFollows DEF WriteUpdate, Effect, Cleared
<1>6. CASE WriteDelete(h, c)
  BY <1>2, <1>3, <1>6, RollbackFollows DEF WriteDelete, Effect, Cleared
<1>7. CASE WriteApproval(h, c)
  <2>1. CASE Rollback(h, 500)
    BY <2>1, RollbackFollows
  <2>2. CASE ~Rollback(h, 500)
    <3>1. Effect(NoBeer, row[c.beer], c) /\ call[h] = {c}
      BY <1>2, <1>7, <2>2 DEF WriteApproval, Effect, Cleared, FInv, BInv, OneCall, Idle
    <3>2. Follows(h, "commit", NoBeer)
      BY <3>1 DEF Follows
    <3> QED BY <1>2, <1>7, <2>2, <3>2, QuietFollows DEF WriteApproval, Goto
  <2> QED BY <2>1, <2>2
<1> QED BY <1>1, <1>4, <1>5, <1>6, <1>7

LEMMA LogEventFollows ==
  ASSUME FInv, BInv', NEW h \in Handlers, LogEvent(h)
  PROVE  FInv'
<1>1. CASE Rollback(h, 500)
  BY <1>1, RollbackFollows
<1>2. CASE Pass(h, "commit")
  <2>1. /\ draft' = [draft EXCEPT ![h] = draft[h]]
        /\ UNCHANGED <<row, events, call, numCalls>>
    BY <1>2 DEF FInv, BInv, TypeOK, Pass, store
  <2>2. pc[h] \in Undecided
    BY DEF LogEvent, Undecided, TxLabels
  <2>3. Follows(h, "commit", draft[h])
    BY DEF LogEvent, FInv, DraftsFollow, Follows
  <2> QED BY <1>2, <2>1, <2>2, <2>3, QuietFollows DEF Pass, Goto
<1> QED BY <1>1, <1>2 DEF LogEvent
----------------------------------------------------------------------------
(* Requests arrive.                                                        *)

LEMMA ReceiveFollows ==
  ASSUME FInv, BInv', NEW h \in Handlers, NEW c, NEW l \in {"form", "check", "read"},
         Receive(h, c, l), FitsIn(c)
  PROVE  FInv'
<1> USE DEF FInv
<1>1. /\ \A g \in Handlers \ {h} : pc'[g] = pc[g] /\ draft'[g] = draft[g] /\ call'[g] = call[g]
      /\ pc'[h] = l /\ draft'[h] = draft[h] /\ call'[h] = {c}
      /\ row' = row /\ events' = events
      /\ numCalls' = numCalls + 1 /\ numCalls \in Nat
  BY DEF BInv, TypeOK, Receive, Goto
<1>2. Numbered'
  <2>1. ASSUME NEW g \in Handlers, NEW d \in call'[g]
        PROVE  /\ d.n \in Int
               /\ g # h => d \in call[g] /\ d.n <= numCalls
               /\ g = h => d.n = numCalls'
    <3>1. d.n \in Int
      BY DEF BInv, TypeOK, Call, CallIds
    <3> QED BY <1>1, <2>1, <3>1 DEF Numbered, FitsIn
  <2>2. ASSUME NEW g \in Handlers, NEW k \in Handlers, NEW d \in call'[g], NEW e \in call'[k],
               g # k
        PROVE  d.n # e.n
    BY <1>1, <2>1, <2>2 DEF Numbered
  <2> QED BY <1>1, <2>1, <2>2 DEF Numbered
<1>3. \A n : n \in Int /\ Used(n) => Used(n)'
  BY <1>1 DEF Used, FitsIn
<1>4. \A m \in c.form : m.id \in Int /\ Used(m.id)
  <2>1. Used(0)
    BY <1>1 DEF BInv, TypeOK, Call, CallIds, Used
  <2>2. c.form \subseteq Comment
    BY DEF FitsIn, Call
  <2> QED BY <2>1, <2>2 DEF FitsIn, NumbersUsed, Comment, CallIds
<1>5. NumbersUsed'
  <2>1. \A e \in events : e.n \in Int
    BY DEF BInv, TypeOK, Event, CallIds
  <2>2. \A b \in Beers : row[b] # NoBeer => \A m \in row[b].comments : m.id \in Int
    BY DEF BInv, TypeOK, Row, Comment, CallIds
  <2>3. \A g \in Handlers : \A d \in call[g] : \A m \in d.form : m.id \in Int
    BY DEF BInv, TypeOK, Call, Comment, CallIds
  <2> QED BY <1>1, <1>3, <1>4, <2>1, <2>2, <2>3 DEF NumbersUsed
<1>6. DraftsFollow'
  <2>1. \A d : Cleared(d) => Cleared(d)'
    BY <1>1 DEF Cleared
  <2> QED BY <1>1, <2>1 DEF DraftsFollow, Follows
<1> QED BY <1>2, <1>5, <1>6

LEMMA ArriveFollows ==
  ASSUME FInv, BInv', NEW h \in Handlers, Arrive(h)
  PROVE  FInv'
BY ArrivalFits, ReceiveFollows DEF FInv

----------------------------------------------------------------------------
(* COMMIT, answers and crashes.                                            *)

\* The comments of a row that a request has written had used numbers, or the
\* request's own.
LEMMA EffectNumbers ==
  ASSUME FInv, NEW h \in Handlers, NEW c \in call[h], c.beer \in Beers,
         NEW r, Effect(r, row[c.beer], c), r # NoBeer, row[c.beer] \in {NoBeer} \union Row,
         NEW m \in r.comments
  PROVE  m.id = c.n \/ Used(m.id)
<1> DEFINE old == row[c.beer]
<1>1. old # NoBeer => \A k \in old.comments : Used(k.id)
  BY DEF FInv, NumbersUsed
<1>2. old # NoBeer =>
        /\ Overwritten(old, c).comments = c.form
        /\ Commented(old, c).comments = old.comments \union {NewComment(c)}
        /\ \A k : Uncommented(old, k).comments = old.comments \ {k}
        /\ \A k, u : Liked(old, k, u).comments = (old.comments \ {k}) \union {WithLike(k, u)}
  BY DEF Row, Overwritten, Commented, Uncommented, Liked
<1>3. NewRow(c).comments = {} /\ NewComment(c).id = c.n
  BY DEF NewRow, NewComment
<1>4. ASSUME old # NoBeer, NEW k \in old.comments, NEW u PROVE WithLike(k, u).id = k.id
  <2>1. k \in Comment
    BY <1>4 DEF Row
  <2> QED BY <2>1 DEF Comment, WithLike
<1>5. \A k \in c.form : Used(k.id)
  BY DEF FInv, NumbersUsed
<1> HIDE DEF old
<1>6. CASE c.op = "create" /\ r = NewRow(c)
  BY <1>3, <1>6
<1>7. CASE old # NoBeer /\ c.op = "update" /\ r = Overwritten(old, c)
  BY <1>2, <1>5, <1>7
<1>8. CASE old # NoBeer /\ c.op = "comment" /\ r = Commented(old, c)
  BY <1>1, <1>2, <1>3, <1>8
<1>9. CASE old # NoBeer /\ \E k \in Target(old, c) : r = Uncommented(old, k)
  BY <1>1, <1>2, <1>9
<1>10. CASE old # NoBeer /\ \E k \in Target(old, c) : r = Liked(old, k, c.by)
  <2>1. PICK k \in old.comments : r = Liked(old, k, c.by)
    BY <1>10 DEF Target
  <2> QED BY <1>1, <1>2, <1>4, <1>10, <2>1
<1> QED BY <1>6, <1>7, <1>8, <1>9, <1>10 DEF Effect, old

\* No request changes the owner of a beer.
LEMMA EffectOwner ==
  ASSUME NEW c, NEW old \in Row, NEW r, r # NoBeer, Effect(r, old, c)
  PROVE  r.owner = old.owner
<1>1. old # NoBeer
  BY RowIsNotNoBeer
<1>2. /\ Overwritten(old, c).owner = old.owner
      /\ Commented(old, c).owner = old.owner
      /\ \A m : Uncommented(old, m).owner = old.owner
      /\ \A m : Liked(old, m, c.by).owner = old.owner
  BY DEF Row, Overwritten, Commented, Uncommented, Liked
<1> QED BY <1>1, <1>2 DEF Effect

LEMMA CommittedFollows ==
  ASSUME FInv, BInv', NEW h \in Handlers, pc[h] = "commit",
         NEW c \in call[h], Committed(h, c),
         NEW l \in {"cache", "done"}, pc' = [pc EXCEPT ![h] = l],
         UNCHANGED <<call, numCalls>>
  PROVE  FInv'
<1> USE DEF FInv
<1>0. c \in Call /\ c.beer \in Beers /\ call[h] = {c} /\ h \in Handlers
  BY DEF BInv, TypeOK, OneCall, Call, Idle
<1>1. /\ \A g \in Handlers \ {h} : pc'[g] = pc[g] /\ draft'[g] = draft[g]
      /\ pc'[h] = l /\ call' = call /\ numCalls' = numCalls
      /\ row'[c.beer] = draft[h] /\ \A b \in Beers \ {c.beer} : row'[b] = row[b]
      /\ events' \subseteq events \union {EventOf(c)}
  BY <1>0 DEF BInv, TypeOK, Committed
<1>2. pc[h] \in Undecided /\ pc'[h] \notin Undecided
  BY <1>1 DEF Undecided, TxLabels
<1>3. Effect(draft[h], row[c.beer], c)
  BY DEF DraftsFollow, Follows
<1>4. \A n : Used(n) \/ n = c.n => Used(n)'
  BY <1>0, <1>1, <1>2 DEF Used, Numbered
<1>5. Numbered'
  BY <1>1 DEF Numbered
<1>6. NumbersUsed'
  <2>1. EventOf(c).n = c.n
    BY DEF EventOf
  <2>2. ASSUME NEW b \in Beers, row'[b] # NoBeer, NEW m \in row'[b].comments
        PROVE  Used(m.id)'
    <3>1. CASE b = c.beer
      <4>1. row[c.beer] \in {NoBeer} \union Row
        BY <1>0 DEF BInv, TypeOK
      <4>2. draft[h] # NoBeer /\ m \in draft[h].comments
        BY <1>1, <2>2, <3>1
      <4> QED BY <1>0, <1>3, <1>4, <4>1, <4>2, EffectNumbers
    <3>2. CASE b # c.beer
      BY <1>1, <1>4, <2>2, <3>2 DEF NumbersUsed
    <3> QED BY <3>1, <3>2
  <2> QED BY <1>1, <1>4, <2>1, <2>2 DEF NumbersUsed
<1>8. DraftsFollow'
  <2>1. ASSUME NEW g \in Handlers, NEW d \in call[g], pc'[g] \in TxLabels
        PROVE  g # h /\ row'[d.beer] = row[d.beer]
    <3>1. g # h /\ pc[g] \in TxLabels /\ pc[h] \in TxLabels
      BY <1>1, <1>2, <2>1 DEF Undecided, TxLabels
    <3>2. d.beer \in Beers /\ lock[d.beer] = g /\ lock[c.beer] = h
      BY <1>0, <3>1 DEF BInv, TypeOK, LocksMatchTransactions, Call
    <3> QED BY <1>1, <3>1, <3>2
  <2>2. ASSUME NEW g \in Handlers PROVE Follows(g, pc[g], draft[g])
    BY DEF DraftsFollow
  <2>3. ASSUME NEW d, Cleared(d), d.beer \in Beers, c.op = "create" => d.beer # c.beer
        PROVE  Cleared(d)'
    <3>1. CASE d.beer # c.beer
      BY <1>1, <2>3, <3>1 DEF Cleared
    <3>2. CASE d.beer = c.beer /\ draft[h] = NoBeer
      BY <1>1, <2>3, <3>2 DEF Cleared
    <3>3. CASE d.beer = c.beer /\ draft[h] # NoBeer
      <4>1. row[c.beer] # NoBeer /\ draft[h].owner = row[c.beer].owner
        <5>1. row[c.beer] # NoBeer
          BY <1>3, <2>3, <3>3 DEF Effect
        <5>2. row[c.beer] \in Row
          BY <1>0, <5>1 DEF BInv, TypeOK
        <5> QED BY <1>3, <3>3, <5>1, <5>2, EffectOwner
      <4> QED BY <1>1, <2>3, <3>3, <4>1 DEF Cleared
    <3> QED BY <3>1, <3>2, <3>3
  <2>4. ASSUME NEW g \in Handlers, pc'[g] = "write", NEW d \in call[g]
        PROVE  d.beer \in Beers /\ (c.op = "create" => d.beer # c.beer)
    <3>1. g # h /\ d.beer \in Beers
      BY <1>1, <2>4 DEF BInv, TypeOK, Call
    <3> QED BY <1>2, <3>1 DEF BInv, CreatesAlone
  <2> QED BY <1>1, <2>1, <2>2, <2>3, <2>4 DEF DraftsFollow, Follows, TxLabels
<1> QED BY <1>5, <1>6, <1>8

\* The request is over.
LEMMA RespondFollows ==
  ASSUME FInv, BInv', NEW h \in Handlers, Respond(h)
  PROVE  FInv'
<1> USE DEF FInv
<1>1. /\ \A g \in Handlers : call'[g] \subseteq call[g] /\ (call'[g] # {} => pc'[g] = pc[g])
      /\ row' = row /\ events' = events /\ draft' = draft /\ numCalls' = numCalls
  BY DEF BInv, TypeOK, Respond, Goto
<1>2. \A n : Used(n) => Used(n)'
  BY <1>1 DEF Used
<1>3. Numbered' /\ NumbersUsed'
  BY <1>1, <1>2 DEF Numbered, NumbersUsed
<1>4. DraftsFollow'
  <2>1. \A d : Cleared(d) => Cleared(d)'
    BY <1>1 DEF Cleared
  <2> QED BY <1>1, <2>1 DEF DraftsFollow, Follows
<1> QED BY <1>3, <1>4

LEMMA CrashFollows ==
  ASSUME FInv, BInv', Crash
  PROVE  FInv'
<1> USE DEF FInv
<1>1. /\ \A g \in Handlers : call'[g] = {}
      /\ row' = row /\ events' = events /\ numCalls' = numCalls
  BY DEF Crash
<1>2. \A n : Used(n) => Used(n)'
  BY <1>1 DEF Used
<1>3. Numbered' /\ NumbersUsed' /\ DraftsFollow'
  BY <1>1, <1>2 DEF Numbered, NumbersUsed, DraftsFollow, Follows
<1> QED BY <1>3

LEMMA InitFollows == Init => FInv
<1> SUFFICES ASSUME Init PROVE FInv
  OBVIOUS
<1>1. BInv
  BY InitHolds
<1>2. Numbered /\ DraftsFollow
  BY DEF Init, Numbered, DraftsFollow, Follows
<1>3. NumbersUsed
  BY DEF Init, NumbersUsed
<1> QED BY <1>1, <1>2, <1>3 DEF FInv

LEMMA NextFollows == ASSUME FInv, [Next]_vars PROVE FInv'
<1>0. BInv'
  BY NextKeeps DEF FInv
<1> USE <1>0
<1>1. ASSUME NEW h \in Handlers, SubmitForm(h) PROVE FInv'
  BY <1>1, OutsideFollows DEF SubmitForm, store
<1>2. ASSUME NEW h \in Handlers, PublishCache(h) PROVE FInv'
  BY <1>2, OutsideFollows DEF PublishCache, Answer
<1>3. ASSUME NEW h \in Handlers, Commit(h) \/ CommitUnacknowledged(h) PROVE FInv'
  BY <1>3, CommittedFollows DEF Commit, CommitUnacknowledged, Answer, Goto
<1>4. ASSUME NEW h \in Handlers, Serve(h) PROVE FInv'
  BY <1>2, <1>3, <1>4, CheckFollows, ReadFollows, EditFollows, WriteFollows,
     LogEventFollows, RespondFollows DEF Serve
<1>5. ASSUME NEW h \in Handlers, StatementFails(h) PROVE FInv'
  BY <1>5, RollbackFollows DEF StatementFails
<1>6. CASE UNCHANGED vars
  BY <1>6 DEF vars, FInv, Numbered, NumbersUsed, Used, DraftsFollow, Follows, Cleared, CanModify
<1> QED BY <1>1, <1>3, <1>4, <1>5, <1>6, ArriveFollows, CrashFollows DEF Next

\* The invariant behind the refinement.
THEOREM BoardInvariant == Spec => []FInv
BY InitFollows, NextFollows, PTL DEF Spec

----------------------------------------------------------------------------
(* What a step shows.                                                      *)

\* Beers and events change at a COMMIT only, by what the request does to the
\* beer as it is at that moment.
LEMMA VisibleSteps ==
  ASSUME FInv, [Next]_vars
  PROVE  \/ UNCHANGED <<row, events, last>>
         \/ \E h \in Handlers : \E c \in call[h] :
              /\ pc[h] = "commit" /\ c \in Call
              /\ Committed(h, c) /\ Effect(draft[h], row[c.beer], c)
<1>1. ASSUME NEW h \in Handlers, Commit(h) \/ CommitUnacknowledged(h)
      PROVE  \E c \in call[h] : /\ pc[h] = "commit" /\ c \in Call
                                /\ Committed(h, c) /\ Effect(draft[h], row[c.beer], c)
  <2>1. pc[h] = "commit" /\ \E c \in call[h] : Committed(h, c)
    BY <1>1 DEF Commit, CommitUnacknowledged
  <2>2. \A c \in call[h] : c \in Call
    BY DEF FInv, BInv, TypeOK
  <2> QED BY <2>1, <2>2 DEF FInv, DraftsFollow, Follows
<1>2. ASSUME NEW h \in Handlers, NEW s, Rollback(h, s) PROVE UNCHANGED <<row, events, last>>
  BY <1>2 DEF Rollback
<1>3. ASSUME NEW h \in Handlers, Arrive(h) PROVE UNCHANGED <<row, events, last>>
  BY <1>3 DEF Arrive, ReceiveCreate, ReceiveForm, ReceiveDelete, ReceiveApproval,
              ReceiveComment, ReceiveUncomment, ReceiveLike, Receive
<1>4. ASSUME NEW h \in Handlers, Check(h) PROVE UNCHANGED <<row, events, last>>
  BY <1>4 DEF Check, CheckDuplicate, CheckUpdate, CheckDelete, CheckApproval, Moderate,
                    Pass, Refuse, store
<1>5. ASSUME NEW h \in Handlers, ReadForUpdate(h) \/ Edit(h) \/ Write(h) \/ LogEvent(h)
      PROVE  UNCHANGED <<row, events, last>>
  BY <1>2, <1>5 DEF ReadForUpdate, Edit, EditAdd, EditRemove, EditLike, Write, WriteCreate,
                    WriteUpdate, WriteDelete, WriteApproval, Wrote, LogEvent, Pass, store
<1>6. ASSUME NEW h \in Handlers, SubmitForm(h) \/ PublishCache(h) \/ Respond(h) \/ StatementFails(h)
      PROVE  UNCHANGED <<row, events, last>>
  BY <1>2, <1>6 DEF SubmitForm, PublishCache, Respond, StatementFails, store
<1>7. CASE Crash \/ UNCHANGED vars
  BY <1>7 DEF Crash, vars
<1> QED BY <1>1, <1>3, <1>4, <1>5, <1>6, <1>7 DEF Next, Serve

\* A COMMIT is owed to its request and records its event, if it leaves a beer;
\* if not, it takes the events of the beer away.
LEMMA CommitRecords ==
  ASSUME FInv, NEW h \in Handlers, pc[h] = "commit", NEW c \in call[h], Committed(h, c)
  PROVE  /\ Credit(c) \in Board!Request /\ last' = {Credit(c)}
         /\ draft[h] # NoBeer => Board!Record(Credit(c))
         /\ draft[h] = NoBeer => events' = {e \in events : e.beer # c.beer}
<1>1. \A e \in events : e.n # c.n
  BY DEF FInv, NumbersUsed, Used, Undecided, TxLabels
<1>2. Credit(c) \in Board!Request
  BY DEF FInv, BInv, TypeOK, Call, Credit, Board!Request
<1>3. Credit(c).n = c.n /\ Credit(c).beer = c.beer /\ Credit(c).type = c.op
  BY DEF Credit
<1>4. ASSUME draft[h] # NoBeer PROVE Board!Record(Credit(c))
  <2>1. events' = events \union (IF EventsOn THEN {EventOf(c)} ELSE {})
    BY <1>4 DEF Committed
  <2> QED BY <1>1, <1>3, <2>1 DEF Board!Record, EventOf
<1>5. ASSUME draft[h] = NoBeer PROVE events' = {e \in events : e.beer # c.beer}
  <2>1. EventOf(c).beer = c.beer
    BY DEF EventOf
  <2> QED BY <1>5, <2>1 DEF Committed
<1> QED BY <1>2, <1>4, <1>5 DEF Committed

LEMMA InitShows == Init => Board!Init
BY DEF Init, Board!Init

\* Every step of the transactions is a change of the board, or none.
LEMMA StepsShow ==
  ASSUME FInv, [Next]_vars
  PROVE  [Board!Next]_(Board!view)
<1>1. CASE UNCHANGED <<row, events, last>>
  BY <1>1 DEF Board!view
<1>2. CASE ~UNCHANGED <<row, events, last>>
  <2>1. PICK h \in Handlers, c \in Call :
          /\ c \in call[h] /\ pc[h] = "commit"
          /\ Committed(h, c) /\ Effect(draft[h], row[c.beer], c)
    BY <1>2, VisibleSteps
  <2> DEFINE old == row[c.beer]
             new == draft[h]
             k == Credit(c)
  <2>2. /\ c.beer \in Beers /\ c.n \in CallIds /\ c.by \in Users /\ c.name \in Names
        /\ old \in {NoBeer} \union Row /\ new \in {NoBeer} \union Row
        /\ k.n = c.n /\ k.beer = c.beer /\ k.by = c.by /\ k.type = c.op
    BY DEF FInv, BInv, TypeOK, Call, Credit
  <2>3. Board!Show(c.beer, new) /\ row'[c.beer] = new
    BY <2>1, <2>2 DEF Committed, Board!Show, FInv, BInv, TypeOK
  <2>4. /\ k \in Board!Request /\ last' = {k}
        /\ new # NoBeer => Board!Record(k)
        /\ new = NoBeer => events' = {e \in events : e.beer # c.beer}
    BY <2>1, CommitRecords
  <2>5. /\ old # NoBeer <=> old \in Row
        /\ new # NoBeer <=> new \in Row
        /\ Board!Exists(c.beer) <=> old # NoBeer
    BY <2>2, RowIsNotNoBeer DEF Board!Exists
  <2>6. \A cs : Board!WithComments(c.beer, cs) = [old EXCEPT !.comments = cs]
    BY DEF Board!WithComments
  <2>7. Effect(new, old, c)
    BY <2>1
  <2> HIDE DEF old, new, k
  <2>8. CASE c.op = "create" /\ old = NoBeer /\ new = NewRow(c)
    <3>1. new \in Row /\ new = [owner |-> k.by, name |-> c.name, comments |-> {}]
      BY <2>2, <2>8, WritesTyped DEF NewRow
    <3>2. Board!Create(k)
      BY <2>2, <2>3, <2>4, <2>5, <2>8, <3>1 DEF Board!Create
    <3> QED BY <2>4, <3>2 DEF Board!Next
  <2>9. CASE /\ old # NoBeer /\ c.op = "update" /\ CanModify(c.by, old.owner)
             /\ new = Overwritten(old, c)
    <3>1. /\ new \in Row /\ new.comments = c.form
          /\ new = [[old EXCEPT !.comments = c.form] EXCEPT !.name = c.name]
      <4>1. old \in Row /\ new \in Row
        BY <2>5, <2>9, WritesTyped
      <4> QED BY <2>9, <4>1 DEF Overwritten, Row
    <3>2. new = [Board!WithComments(c.beer, row'[c.beer].comments) EXCEPT !.name = c.name]
      BY <2>3, <2>6, <3>1
    <3>3. c.by \in Admins \/ c.by = row[c.beer].owner
      BY <2>9 DEF CanModify, old
    <3>4. new \in {row'[c.beer]} /\ new # NoBeer /\ c.name \in Names
      BY <2>2, <2>3, <2>5, <3>1
    <3>5. Board!Show(c.beer, [Board!WithComments(c.beer, new.comments) EXCEPT !.name = c.name])
      BY <2>3, <3>2
    <3>6. /\ k.beer = c.beer /\ k.by = c.by /\ k.type = "update"
          /\ Board!Exists(c.beer) /\ Board!Record(k)
      BY <2>2, <2>4, <2>5, <2>9, <3>4
    <3>7. Board!Update(k)
      BY <3>3, <3>4, <3>5, <3>6 DEF Board!Update
    <3> QED BY <2>4, <3>7 DEF Board!Next
  <2>10. CASE old # NoBeer /\ c.op \in {"delete", "approve"} /\ c.by \in Admins /\ new = NoBeer
    <3>1. Board!Delete(k)
      BY <2>2, <2>3, <2>4, <2>5, <2>10 DEF Board!Delete
    <3> QED BY <2>4, <3>1 DEF Board!Next
  <2>11. CASE old # NoBeer /\ c.op = "comment" /\ new = Commented(old, c)
    <3>1. new \in Row
      BY <2>5, <2>11, EditsTyped
    <3>2. \A m \in old.comments : m.id # c.n
      BY <2>1, <2>2, <2>11 DEF FInv, NumbersUsed, Used, Undecided, TxLabels, old
    <3>3. c.likers \in SUBSET Users
      BY DEF Call
    <3>4. new = Board!WithComments(c.beer, row[c.beer].comments \union
                  {[id |-> k.n, author |-> k.by, likes |-> 0, likedBy |-> c.likers]})
      BY <2>2, <2>6, <2>11 DEF Commented, NewComment, old
    <3>5. Board!Comment(k)
      BY <2>2, <2>3, <2>4, <2>5, <2>11, <3>1, <3>2, <3>3, <3>4 DEF Board!Comment, old
    <3> QED BY <2>4, <3>5 DEF Board!Next
  <2>12. CASE /\ old # NoBeer /\ c.op = "uncomment" /\ c.by \in Admins
              /\ \E m \in Target(old, c) : new = Uncommented(old, m)
    <3>1. PICK m \in old.comments : new = Uncommented(old, m)
      BY <2>12 DEF Target
    <3>2. new \in Row
      BY <2>5, <2>12, <3>1, EditsTyped
    <3>3. new = Board!WithComments(c.beer, row[c.beer].comments \ {m})
      BY <2>6, <3>1 DEF Uncommented, old
    <3>4. Board!Uncomment(k)
      BY <2>2, <2>3, <2>4, <2>5, <2>12, <3>2, <3>3, <3>1 DEF Board!Uncomment, old
    <3> QED BY <2>4, <3>4 DEF Board!Next
  <2>13. CASE /\ old # NoBeer /\ c.op = "like"
              /\ \E m \in Target(old, c) : c.by \notin m.likedBy /\ new = Liked(old, m, c.by)
    <3>1. PICK m \in old.comments : c.by \notin m.likedBy /\ new = Liked(old, m, c.by)
      BY <2>13 DEF Target
    <3>2. new \in Row
      BY <2>5, <2>13, <3>1, EditsTyped
    <3>3. new = Board!WithComments(c.beer, (row[c.beer].comments \ {m}) \union
                  {[m EXCEPT !.likes = @ + 1, !.likedBy = @ \union {k.by}]})
      BY <2>2, <2>6, <3>1 DEF Liked, WithLike, old
    <3>4. Board!Like(k)
      BY <2>2, <2>3, <2>4, <2>5, <2>13, <3>1, <3>2, <3>3 DEF Board!Like, old
    <3> QED BY <2>4, <3>4 DEF Board!Next
  <2> QED BY <2>7, <2>8, <2>9, <2>10, <2>11, <2>12, <2>13 DEF Effect
<1> QED BY <1>1, <1>2

\* BeerStore implements BeerBoard: for any number of beers, callers, handlers
\* and requests, with the event store or without it, through failed statements,
\* lost acknowledgements and crashes, each change of a beer happens at one
\* instant, whole, to the beer as it is then, together with its event.
THEOREM StoreImplementsBoard == Spec => Implements
<1>1. FInv /\ [Next]_vars => [Board!Next]_(Board!view)
  BY StepsShow
<1> QED BY <1>1, InitShows, BoardInvariant, PTL DEF Spec, Implements, Board!Spec

----------------------------------------------------------------------------
(* Comments.                                                               *)

\* A comment that is still there is kept.
LEMMA StaysKept ==
  ASSUME NEW m \in Comment, NEW cs, m \in cs
  PROVE  Kept(m, cs)
<1> DEFINE none == m.likedBy \ m.likedBy
<1>1. none = {}
  OBVIOUS
<1>2. Cardinality(none) = 0
  BY <1>1, FS_EmptySet
<1> HIDE DEF none
<1>3. m.likes \in Int
  BY DEF Comment
<1>4. m.likes = m.likes + Cardinality(none)
  BY <1>2, <1>3
<1> QED BY <1>4 DEF Kept, none

\* What an effect that is neither an update nor the removal of m leaves of m.
LEMMA EffectKeeps ==
  ASSUME NEW c \in Call, NEW old \in Row, NEW r, r # NoBeer, Effect(r, old, c),
         c.op # "update",
         NEW m \in old.comments
  PROVE  Kept(m, r.comments) \/ (c.op = "uncomment" /\ c.by \in Admins /\ c.target = m.id)
<1>0. m \in Comment /\ c.by \in Users /\ old # NoBeer
  BY RowIsNotNoBeer DEF Row, Call
<1>1. /\ Commented(old, c).comments = old.comments \union {NewComment(c)}
      /\ \A k : Uncommented(old, k).comments = old.comments \ {k}
      /\ \A k, u : Liked(old, k, u).comments = (old.comments \ {k}) \union {WithLike(k, u)}
  BY DEF Row, Commented, Uncommented, Liked
<1>2. m \in r.comments => Kept(m, r.comments)
  BY <1>0, StaysKept
<1>3. CASE r = Commented(old, c)
  BY <1>1, <1>2, <1>3
<1>4. CASE /\ c.op = "uncomment" /\ c.by \in Admins
           /\ \E k \in Target(old, c) : r = Uncommented(old, k)
  BY <1>1, <1>2, <1>4 DEF Target
<1>5. CASE \E k \in Target(old, c) : c.by \notin k.likedBy /\ r = Liked(old, k, c.by)
  <2>1. PICK k \in old.comments : c.by \notin k.likedBy /\ r = Liked(old, k, c.by)
    BY <1>5 DEF Target
  <2>2. CASE k = m
    <3> DEFINE w == WithLike(m, c.by)
    <3>1. /\ w.id = m.id /\ w.author = m.author
          /\ w.likes = m.likes + 1 /\ w.likedBy = m.likedBy \union {c.by}
      BY <1>0, LikeFields
    <3>2. w \in r.comments
      BY <1>1, <2>1, <2>2
    <3> HIDE DEF w
    <3>3. w.likedBy \ m.likedBy = {c.by}
      BY <2>1, <2>2, <3>1
    <3>4. Cardinality({c.by}) = 1
      BY FS_Singleton
    <3> QED BY <3>1, <3>2, <3>3, <3>4 DEF Kept
  <2>3. CASE k # m
    BY <1>1, <1>2, <2>1, <2>3
  <2> QED BY <2>2, <2>3
<1> QED BY <1>0, <1>3, <1>4, <1>5 DEF Effect

LEMMA StepsKeepComments ==
  ASSUME FInv, [Next]_vars, NEW b \in Beers, row[b] # NoBeer, row'[b] # NoBeer,
         NEW m \in row[b].comments
  PROVE  \/ Kept(m, row'[b].comments)
         \/ AdminRemoves(b, m)
         \/ Commits(b, LAMBDA c : c.op = "update")
<1>1. CASE row'[b] = row[b]
  <2>0. m \in Comment
    <3>1. row[b] \in Row
      BY DEF FInv, BInv, TypeOK
    <3> QED BY <3>1 DEF Row
  <2>1. m \in row'[b].comments
    BY <1>1
  <2> QED BY <2>0, <2>1, StaysKept
<1>2. CASE row'[b] # row[b]
  <2>1. PICK h \in Handlers, c \in Call :
          /\ c \in call[h] /\ pc[h] = "commit"
          /\ Committed(h, c) /\ Effect(draft[h], row[c.beer], c)
    BY <1>2, VisibleSteps
  <2>2. b = c.beer /\ row'[b] = draft[h] /\ row[b] \in Row
    BY <1>2, <2>1 DEF Committed, FInv, BInv, TypeOK, Call
  <2>3. CASE c.op = "update"
    BY <2>1, <2>2, <2>3 DEF Commits
  <2>4. CASE c.op # "update"
    <3>1. Kept(m, draft[h].comments) \/ (c.op = "uncomment" /\ c.by \in Admins /\ c.target = m.id)
      BY <2>1, <2>2, <2>4, EffectKeeps
    <3> QED BY <2>1, <2>2, <3>1 DEF AdminRemoves, Commits
  <2> QED BY <2>3, <2>4
<1> QED BY <1>1, <1>2

\* No interleaving and no failure loses a comment or a like: only the deletion
\* of that comment by an administrator, or an update, which replaces the list.
THEOREM CommentsAreNeverLost == Spec => CommentsSurvive
<1> DEFINE Step == \A b \in Beers : row[b] # NoBeer /\ row'[b] # NoBeer =>
                     \A m \in row[b].comments :
                       \/ Kept(m, row'[b].comments)
                       \/ AdminRemoves(b, m)
                       \/ Commits(b, LAMBDA c : c.op = "update")
<1>1. FInv /\ [Next]_vars => [Step]_vars
  BY StepsKeepComments
<1> QED BY <1>1, BoardInvariant, PTL DEF Spec, CommentsSurvive
=============================================================================
