--------------------------- MODULE BeerStoreProofs ---------------------------
(***************************************************************************)
(* What holds of beers, comments and events for any number of beers,       *)
(* callers and handlers, with the event store or without it, whatever      *)
(* bodies clients send, whatever interleaves and whatever fails.           *)
(***************************************************************************)
EXTENDS BeerStore, TLAPS

\* The labels at which the change of a request is still to come.
Undecided == {"form", "check", "read", "write"} \union TxLabels

\* A handler has one request, or is idle.
OneCall ==
  \A h \in Handlers :
    /\ pc[h] = Idle => call[h] = {}
    /\ pc[h] # Idle => \E c \in Call : call[h] = {c}

\* A comment operation has a row to edit, and whatever a transaction but a
\* creation changes is there until it commits.
DraftsFit ==
  \A h \in Handlers :
    /\ pc[h] = "edit" => draft[h] # NoBeer
    /\ pc[h] \in TxLabels => \A c \in call[h] : c.op = "create" \/ row[c.beer] # NoBeer

\* An id that is being created names no row and no event in Redis, and nobody
\* else works on it.
CreatesAlone ==
  \A h \in Handlers : \A c \in call[h] :
    pc[h] \in Undecided /\ c.op = "create"
      => /\ row[c.beer] = NoBeer
         /\ \A g \in Handlers \ {h} : \A d \in call[g] : d.beer # c.beer
         /\ \A e \in cache : e.beer # c.beer

Recorded(c) == EventOf(c) \in events \/ row[c.beer] = NoBeer

\* With the event store a request past its COMMIT has left its event, unless
\* its beer is gone by now.
EventsFit ==
  EventsOn => \A h \in Handlers : \A c \in call[h] :
    /\ pc[h] = "cache" => c.op # "approve" /\ Recorded(c)
    /\ pc[h] = "done" /\ reply[h] = 200 => c.op = "approve" \/ Recorded(c)

BInv ==
  /\ TypeOK
  /\ OneCall
  /\ LocksMatchTransactions
  /\ DraftsFit
  /\ CreatesAlone
  /\ EventsFit
  /\ CacheIsBacked

----------------------------------------------------------------------------
(* Rows.                                                                   *)

\* A row is not the absence of one.
LEMMA RowIsNotNoBeer == \A r \in Row : r # NoBeer
BY NoBeerIsNoRow DEF NoBeerIsNoRow

\* A like adds one person to the list and one to the counter.
LEMMA LikeFields ==
  ASSUME NEW m \in Comment, NEW u \in Users
  PROVE  /\ WithLike(m, u) \in Comment
         /\ WithLike(m, u) = [m EXCEPT !.likes = m.likes + 1, !.likedBy = m.likedBy \union {u}]
         /\ WithLike(m, u).id = m.id /\ WithLike(m, u).author = m.author
         /\ WithLike(m, u).likes = m.likes + 1
         /\ WithLike(m, u).likedBy = m.likedBy \union {u}
<1> DEFINE k == WithLike(m, u)
<1>1. /\ m = [id |-> m.id, author |-> m.author, likes |-> m.likes, likedBy |-> m.likedBy]
      /\ m.id \in {0} \union CallIds /\ m.author \in Users \union {NoUser}
      /\ m.likes \in Int /\ m.likedBy \in SUBSET Users
  BY DEF Comment
<1>2. k = [m EXCEPT !.likes = m.likes + 1, !.likedBy = m.likedBy \union {u}]
  BY DEF WithLike
<1>3. k = [id |-> m.id, author |-> m.author,
           likes |-> m.likes + 1, likedBy |-> m.likedBy \union {u}]
  BY <1>1, <1>2
<1> HIDE DEF k
<1>4. m.likes + 1 \in Int
  BY <1>1
<1>5. m.likedBy \union {u} \in SUBSET Users
  BY <1>1
<1>6. k \in Comment
  BY <1>1, <1>3, <1>4, <1>5 DEF Comment
<1> QED BY <1>2, <1>3, <1>6 DEF k

\* The rows the operations write are rows.
LEMMA WritesTyped ==
  ASSUME NEW c \in Call
  PROVE  /\ NewRow(c) \in Row
         /\ NewComment(c) \in Comment
         /\ \A r \in Row : Overwritten(r, c) \in Row
<1>1. NewRow(c) \in Row
  BY DEF NewRow, Row, Call
<1>2. NewComment(c) \in Comment
  <2>1. c.n \in CallIds /\ c.by \in Users /\ c.likers \in SUBSET Users
    BY DEF Call
  <2> QED BY <2>1 DEF NewComment, Comment
<1>3. ASSUME NEW r \in Row PROVE Overwritten(r, c) \in Row
  BY DEF Overwritten, Row, Call
<1> QED BY <1>1, <1>2, <1>3

LEMMA EditsTyped ==
  ASSUME NEW r \in Row, NEW c \in Call
  PROVE  /\ Commented(r, c) \in Row
         /\ \A m : Uncommented(r, m) \in Row
         /\ \A m \in r.comments : Liked(r, m, c.by) \in Row
<1>1. r.comments \subseteq Comment
  BY DEF Row
<1>2. ASSUME NEW cs \in SUBSET Comment
      PROVE  [r EXCEPT !.comments = cs] \in Row
  BY DEF Row
<1>3. Commented(r, c) \in Row
  <2> DEFINE cs == r.comments \union {NewComment(c)}
  <2>1. cs \in SUBSET Comment
    BY <1>1, WritesTyped
  <2>2. Commented(r, c) = [r EXCEPT !.comments = cs]
    BY DEF Commented
  <2> HIDE DEF cs
  <2> QED BY <1>2, <2>1, <2>2
<1>4. ASSUME NEW m PROVE Uncommented(r, m) \in Row
  <2> DEFINE cs == r.comments \ {m}
  <2>1. cs \in SUBSET Comment
    BY <1>1
  <2>2. Uncommented(r, m) = [r EXCEPT !.comments = cs]
    BY DEF Uncommented
  <2> HIDE DEF cs
  <2> QED BY <1>2, <2>1, <2>2
<1>5. ASSUME NEW m \in r.comments PROVE Liked(r, m, c.by) \in Row
  <2> DEFINE cs == (r.comments \ {m}) \union {WithLike(m, c.by)}
  <2>1. WithLike(m, c.by) \in Comment
    <3>1. m \in Comment /\ c.by \in Users
      BY <1>1 DEF Call
    <3> QED BY <3>1, LikeFields
  <2>2. cs \in SUBSET Comment
    BY <1>1, <2>1
  <2>3. Liked(r, m, c.by) = [r EXCEPT !.comments = cs]
    BY DEF Liked
  <2> HIDE DEF cs
  <2> QED BY <1>2, <2>2, <2>3
<1> QED BY <1>3, <1>4, <1>5
----------------------------------------------------------------------------
(* The steps of one handler that commit nothing.                           *)

\* After the step h is at l, with r in its transaction and s as its status;
\* the table and its events are as they were, and only h's locks changed.
Local(h, l, r, s) ==
  /\ pc' = [pc EXCEPT ![h] = l]
  /\ draft' = [draft EXCEPT ![h] = r]
  /\ reply' = [reply EXCEPT ![h] = s]
  /\ UNCHANGED <<row, events, last, call, numCalls>>
  /\ lock' \in [Beers -> Handlers \union {NoHandler}]
  /\ \A b \in Beers : lock'[b] # lock[b] => /\ lock[b] \in {h, NoHandler}
                                            /\ lock'[b] \in {h, NoHandler}

\* Such a step may leave the handler at l with r and s.
Fits(h, l, r, s) ==
  /\ l \in Labels \ {Idle, "cache"}
  /\ r \in {NoBeer} \union Row
  /\ s \in 0 .. 599
  /\ l = "edit" => r # NoBeer
  /\ l \in TxLabels => \A c \in call[h] : c.op = "create" \/ row[c.beer] # NoBeer
  /\ l \in Undecided => pc[h] \in Undecided
  /\ EventsOn /\ l = "done" /\ s = 200 => \A c \in call[h] : c.op = "approve" \/ Recorded(c)

\* What Redis may gain: the event of a request that is decided and recorded.
Publishes(h, l) ==
  /\ cache' \subseteq cache \union {EventOf(c) : c \in call[h]}
  /\ l \in Undecided => cache' = cache
  /\ EventsOn => \A e \in cache' : e \in events \/ row[e.beer] = NoBeer

\* A local step keeps the invariant when it takes or gives back the lock that
\* goes with its new label.
LEMMA LocalKeeps ==
  ASSUME BInv, NEW h \in Handlers, pc[h] # Idle,
         NEW l, NEW r, NEW s, Local(h, l, r, s), Fits(h, l, r, s),
         {b \in Beers : lock'[b] = h} =
           IF l \in TxLabels THEN {c.beer : c \in call[h]} ELSE {},
         Publishes(h, l)
  PROVE  BInv'
<1> USE DEF BInv, Local
<1>1. TypeOK'
  <2>1. \A c \in call[h] : EventOf(c) \in Event
    BY DEF TypeOK, EventOf, Event, Call
  <2>2. cache' \subseteq Event
    BY <2>1 DEF TypeOK, Publishes
  <2> QED BY <2>2 DEF TypeOK, Fits
<1>2. /\ \A g \in Handlers \ {h} : pc'[g] = pc[g] /\ draft'[g] = draft[g] /\ reply'[g] = reply[g]
      /\ pc'[h] = l /\ draft'[h] = r /\ reply'[h] = s
      /\ row' = row /\ events' = events /\ call' = call
  BY DEF TypeOK
<1>3. OneCall'
  BY <1>2 DEF OneCall, Fits
<1>4. LocksMatchTransactions'
  <2>1. ASSUME NEW g \in Handlers, g # h
        PROVE  {b \in Beers : lock'[b] = g} = {b \in Beers : lock[b] = g}
    BY <2>1, StoreAssumption DEF StoreAssumption
  <2>2. ASSUME NEW g \in Handlers
        PROVE  {b \in Beers : lock'[b] = g} =
                 IF pc'[g] \in TxLabels THEN {c.beer : c \in call[g]} ELSE {}
    BY <1>2, <2>1 DEF LocksMatchTransactions
  <2> QED BY <1>2, <2>2 DEF LocksMatchTransactions
<1>5. DraftsFit'
  BY <1>2 DEF DraftsFit, Fits
<1>6. CreatesAlone'
  <2> SUFFICES ASSUME NEW g \in Handlers, NEW d \in call[g], pc'[g] \in Undecided, d.op = "create"
               PROVE  /\ row[d.beer] = NoBeer
                      /\ \A k \in Handlers \ {g} : \A e \in call[k] : e.beer # d.beer
                      /\ \A e \in cache' : e.beer # d.beer
    BY <1>2 DEF CreatesAlone
  <2>1. pc[g] \in Undecided
    BY <1>2 DEF Fits
  <2>2. /\ row[d.beer] = NoBeer
        /\ \A k \in Handlers \ {g} : \A e \in call[k] : e.beer # d.beer
        /\ \A e \in cache : e.beer # d.beer
    BY <2>1 DEF CreatesAlone
  <2>3. CASE g = h
    BY <1>2, <2>2, <2>3 DEF Publishes
  <2>4. CASE g # h
    BY <2>2, <2>4 DEF Publishes, EventOf
  <2> QED BY <2>2, <2>3, <2>4
<1>7. EventsFit'
  <2>1. \A c : Recorded(c) => Recorded(c)'
    BY <1>2 DEF Recorded, EventOf
  <2> QED BY <1>2, <2>1 DEF EventsFit, Fits
<1>8. CacheIsBacked'
  BY <1>2 DEF CacheIsBacked, Publishes
<1> QED BY <1>1, <1>3, <1>4, <1>5, <1>6, <1>7, <1>8

\* Redis stays as it is.
LEMMA NothingPublished ==
  ASSUME BInv, UNCHANGED cache, NEW h, NEW l
  PROVE  Publishes(h, l)
BY DEF BInv, CacheIsBacked, Publishes

\* ROLLBACK gives back every lock of the handler.
LEMMA RollbackKeeps ==
  ASSUME BInv, NEW h \in Handlers, pc[h] # Idle,
         NEW s \in 400 .. 599, Rollback(h, s)
  PROVE  BInv'
<1>1. Local(h, "done", NoBeer, s)
  BY DEF BInv, TypeOK, Local, Rollback, Release, Answer, Goto
<1>2. Fits(h, "done", NoBeer, s)
  BY DEF Fits, Labels, Idle, TxLabels, Undecided
<1>3. {b \in Beers : lock'[b] = h} = {}
  BY StoreAssumption DEF StoreAssumption, Rollback, Release
<1>4. Publishes(h, "done")
  BY NothingPublished DEF Rollback
<1>5. "done" \notin TxLabels
  BY DEF TxLabels
<1> QED BY <1>1, <1>2, <1>3, <1>4, <1>5, LocalKeeps

\* The handler goes to l with status s, which is not yet a success.
Moves(h, l, s) ==
  /\ s \in 0 .. 599
  /\ l = "done" => s # 200
  /\ pc' = [pc EXCEPT ![h] = l]
  /\ reply' = [reply EXCEPT ![h] = s]

\* Before its transaction a handler holds no lock; answering or going on to
\* another label changes nothing else.
LEMMA OutsideKeeps ==
  ASSUME BInv, NEW h \in Handlers, pc[h] \in {"form", "check", "read", "write"},
         NEW l \in {"check", "read", "write", "done"}, NEW s, Moves(h, l, s),
         UNCHANGED <<row, events, cache, last, lock, call, draft, numCalls>>
  PROVE  BInv'
<1>1. Local(h, l, draft[h], s)
  BY DEF BInv, TypeOK, Local, Moves
<1>2. Fits(h, l, draft[h], s)
  BY DEF Moves, BInv, TypeOK, Fits, Labels, Idle, TxLabels, Undecided
<1>3. {b \in Beers : lock'[b] = h} = {}
  BY DEF BInv, LocksMatchTransactions, TxLabels
<1>4. Publishes(h, l)
  BY NothingPublished
<1>5. pc[h] # Idle /\ l \notin TxLabels
  BY DEF TxLabels, Idle
<1> QED BY <1>1, <1>2, <1>3, <1>4, <1>5, LocalKeeps

\* Taking the row lock of the request's beer opens the transaction.
LEMMA BeginKeeps ==
  ASSUME BInv, NEW h \in Handlers, pc[h] \in {"read", "write"},
         NEW c \in call[h], lock[c.beer] = NoHandler,
         c.op = "create" \/ row[c.beer] # NoBeer,
         NEW l \in TxLabels, NEW r \in {NoBeer} \union Row,
         l = "edit" => r # NoBeer,
         lock' = [lock EXCEPT ![c.beer] = h],
         draft' = [draft EXCEPT ![h] = r],
         pc' = [pc EXCEPT ![h] = l],
         UNCHANGED <<row, events, cache, last, call, reply, numCalls>>
  PROVE  BInv'
<1>0. /\ c \in Call /\ c.beer \in Beers /\ pc[h] # Idle
      /\ pc[h] \notin TxLabels /\ pc[h] \in Undecided
  BY DEF BInv, TypeOK, Call, Idle, TxLabels, Undecided
<1>1. Local(h, l, r, reply[h])
  BY <1>0 DEF BInv, TypeOK, Local
<1>2. call[h] = {c}
  BY <1>0 DEF BInv, OneCall
<1>3. Fits(h, l, r, reply[h])
  BY <1>0, <1>2 DEF BInv, TypeOK, Fits, Labels, Idle, TxLabels
<1>4. {b \in Beers : lock[b] = h} = {}
  BY <1>0 DEF BInv, LocksMatchTransactions
<1>5. {b \in Beers : lock'[b] = h} = {c.beer}
  BY <1>0, <1>4 DEF BInv, TypeOK
<1>6. {d.beer : d \in call[h]} = {c.beer}
  BY <1>2
<1>7. Publishes(h, l)
  BY NothingPublished
<1> QED BY <1>0, <1>1, <1>3, <1>5, <1>6, <1>7, LocalKeeps

\* Inside the transaction the handler rewrites its row or moves on.
LEMMA InsideKeeps ==
  ASSUME BInv, NEW h \in Handlers, pc[h] \in TxLabels,
         NEW l \in {"log", "commit"}, NEW r \in {NoBeer} \union Row,
         draft' = [draft EXCEPT ![h] = r],
         pc' = [pc EXCEPT ![h] = l],
         UNCHANGED <<row, events, cache, last, lock, call, reply, numCalls>>
  PROVE  BInv'
<1>1. Local(h, l, r, reply[h])
  BY DEF BInv, TypeOK, Local
<1>2. Fits(h, l, r, reply[h])
  BY DEF BInv, TypeOK, DraftsFit, Fits, Labels, Idle, TxLabels, Undecided
<1>3. {b \in Beers : lock'[b] = h} = {c.beer : c \in call[h]}
  BY DEF BInv, LocksMatchTransactions
<1>4. Publishes(h, l)
  BY NothingPublished
<1>5. pc[h] # Idle /\ l \in TxLabels
  BY DEF TxLabels, Idle
<1> QED BY <1>1, <1>2, <1>3, <1>4, <1>5, LocalKeeps
----------------------------------------------------------------------------
(* Requests arrive.                                                        *)

LEMMA InitHolds == Init => BInv
<1> SUFFICES ASSUME Init PROVE BInv
  OBVIOUS
<1> USE DEF Init
<1>1. TypeOK
  <2>1. [owner : Users \union {NoUser}, name : Names, comments : {{}}] \subseteq Row
    BY DEF Row
  <2>2. row \in [Beers -> {NoBeer} \union Row]
    BY <2>1
  <2> QED BY <2>2, StoreAssumption DEF StoreAssumption, TypeOK, Labels, Idle
<1>2. OneCall
  BY DEF OneCall
<1>3. LocksMatchTransactions
  BY StoreAssumption DEF StoreAssumption, LocksMatchTransactions, TxLabels, Idle
<1>4. DraftsFit /\ CreatesAlone /\ EventsFit /\ CacheIsBacked
  BY DEF DraftsFit, CreatesAlone, EventsFit, CacheIsBacked, Idle
<1> QED BY <1>1, <1>2, <1>3, <1>4 DEF BInv

\* A request that fits in: its number is the next one, its copy holds comments
\* of the table and others under made-up ids, and it creates a beer nobody
\* knows or works on one nobody is creating.
FitsIn(c) ==
  /\ c \in Call
  /\ c.n = numCalls + 1
  /\ \A m \in c.form :
       m.id = 0 \/ \E b \in Beers : row[b] # NoBeer /\ \E k \in row[b].comments : m.id = k.id
  /\ IF c.op = "create"
     THEN /\ row[c.beer] = NoBeer
          /\ \A g \in Handlers : \A d \in call[g] : d.beer # c.beer
          /\ \A e \in cache : e.beer # c.beer
     ELSE \A g \in Handlers : \A d \in call[g] :
            pc[g] \in Undecided /\ d.op = "create" => d.beer # c.beer

\* A new request occupies an idle handler.
LEMMA ReceiveKeeps ==
  ASSUME BInv, NEW h \in Handlers, NEW c, FitsIn(c),
         NEW l \in {"form", "check", "read"}, Receive(h, c, l)
  PROVE  BInv'
<1> USE DEF BInv
<1>1. TypeOK'
  <2>1. numCalls + 1 \in 0 .. MaxCalls
    BY StoreAssumption DEF StoreAssumption, TypeOK, Receive
  <2> QED BY <2>1 DEF TypeOK, Receive, Goto, Labels, FitsIn
<1>2. /\ \A g \in Handlers \ {h} : pc'[g] = pc[g] /\ call'[g] = call[g]
      /\ pc'[h] = l /\ call'[h] = {c} /\ pc[h] = Idle /\ call[h] = {}
      /\ row' = row /\ events' = events /\ cache' = cache
      /\ lock' = lock /\ draft' = draft /\ reply' = reply
  BY DEF TypeOK, OneCall, Receive, Goto
<1>3. OneCall'
  BY <1>2 DEF OneCall, Idle, FitsIn
<1>4. LocksMatchTransactions'
  BY <1>2 DEF LocksMatchTransactions, TxLabels, Idle
<1>5. DraftsFit'
  BY <1>2 DEF DraftsFit, TxLabels
<1>6. CreatesAlone'
  BY <1>2 DEF CreatesAlone, FitsIn
<1>7. EventsFit'
  <2>1. \A d : Recorded(d) => Recorded(d)'
    BY <1>2 DEF Recorded, EventOf
  <2> QED BY <1>2, <2>1 DEF EventsFit, Idle
<1>8. CacheIsBacked'
  BY <1>2 DEF CacheIsBacked
<1> QED BY <1>1, <1>3, <1>4, <1>5, <1>6, <1>7, <1>8

\* A request and its parts: typed, numbered by its arrival.
Carries(q, o, b, f) ==
  q \in Call /\ q.op = o /\ q.n = numCalls + 1 /\ q.beer = b /\ q.form = f

LEMMA RequestFields ==
  ASSUME TypeOK, numCalls < MaxCalls, NEW o \in AllOps, NEW u \in Users, NEW b \in Beers
  PROVE  /\ Carries(Req(o, u, b), o, b, {})
         /\ \A t \in CommentIds : Carries([Req(o, u, b) EXCEPT !.target = t], o, b, {})
         /\ \A l \in SUBSET Users : Carries([Req(o, u, b) EXCEPT !.likers = l], o, b, {})
         /\ \A nm \in Names, f \in SUBSET Comment :
              Carries(WithBody(Req(o, u, b), nm, f), o, b, f)
<1>1. numCalls + 1 \in CallIds /\ \A t \in CommentIds : t \in {0} \union CallIds
  BY StoreAssumption DEF StoreAssumption, TypeOK, CallIds, CommentIds
<1>2. (CHOOSE nm \in Names : TRUE) \in Names
  BY StoreAssumption DEF StoreAssumption
<1> DEFINE q == Req(o, u, b)
<1>3. Carries(q, o, b, {})
  BY <1>1, <1>2 DEF Req, Call, Carries
<1> HIDE DEF q
<1>4. \A t \in CommentIds : Carries([q EXCEPT !.target = t], o, b, {})
  BY <1>1, <1>3 DEF Call, Carries
<1>5. \A l \in SUBSET Users : Carries([q EXCEPT !.likers = l], o, b, {})
  BY <1>3 DEF Call, Carries
<1>6. \A nm \in Names, f \in SUBSET Comment : Carries(WithBody(q, nm, f), o, b, f)
  BY <1>3 DEF Call, Carries, WithBody
<1> QED BY <1>3, <1>4, <1>5, <1>6 DEF q

\* A request about a known beer fits in.
LEMMA KnownFits ==
  ASSUME NEW q, NEW o, NEW b, o # "create", Known(b), Carries(q, o, b, {})
  PROVE  FitsIn(q)
BY DEF Carries, Known, FitsIn

\* Whatever arrives is a request that fits in.
LEMMA ArrivalFits ==
  ASSUME BInv, NEW h \in Handlers, Arrive(h)
  PROVE  \E c, l : l \in {"form", "check", "read"} /\ Receive(h, c, l) /\ FitsIn(c)
<1>0. TypeOK
  BY DEF BInv
<1>1. CASE ReceiveCreate(h)
  <2>1. PICK u \in Users, b \in Beers, nm \in Names :
          /\ row[b] = NoBeer
          /\ \A e \in events \union cache : e.beer # b
          /\ \A g \in Handlers : \A c \in call[g] : c.beer # b
          /\ Receive(h, WithBody(Req("create", u, b), nm, {}), "check")
    BY <1>1 DEF ReceiveCreate
  <2> DEFINE q == WithBody(Req("create", u, b), nm, {})
  <2>2. numCalls < MaxCalls /\ "create" \in AllOps /\ {} \in SUBSET Comment
    BY <2>1 DEF Receive, AllOps
  <2>3. Carries(q, "create", b, {})
    BY <1>0, <2>2, RequestFields
  <2>4. Receive(h, q, "check")
    BY <2>1
  <2> HIDE DEF q
  <2>5. FitsIn(q)
    BY <2>1, <2>3 DEF FitsIn, Carries
  <2> QED BY <2>4, <2>5
<1>2. CASE ReceiveForm(h)
  <2>1. PICK u \in Users, b \in Beers, nm \in Names :
          /\ row[b] # NoBeer
          /\ \E f \in SUBSET (row[b].comments \union Written(b)) :
               Receive(h, WithBody(Req("update", u, b), nm, f), "form")
    BY <1>2 DEF ReceiveForm
  <2>2. PICK f \in SUBSET (row[b].comments \union Written(b)) :
          Receive(h, WithBody(Req("update", u, b), nm, f), "form")
    BY <2>1
  <2>3. row[b].comments \subseteq Comment
    BY <1>0, <2>1 DEF TypeOK, Row
  <2>4. \A m \in Written(b) :
          m \in Comment /\ (m.id = 0 \/ \E k \in row[b].comments : m.id = k.id)
    <3>1. ASSUME NEW i \in {0} \union {m.id : m \in row[b].comments}, NEW t \in Sent
          PROVE  [id |-> i, author |-> t.author, likes |-> t.likes, likedBy |-> t.likedBy] \in Comment
      <4>1. i \in {0} \union CallIds
        BY <2>3 DEF Comment
      <4> QED BY <4>1, StoreAssumption DEF StoreAssumption, Comment
    <3> QED BY <3>1 DEF Written
  <2>5. f \in SUBSET Comment
    BY <2>3, <2>4
  <2> DEFINE q == WithBody(Req("update", u, b), nm, f)
  <2>6. numCalls < MaxCalls /\ "update" \in AllOps
    BY <2>2 DEF Receive, AllOps
  <2>7. Carries(q, "update", b, f)
    BY <1>0, <2>5, <2>6, RequestFields
  <2>8. Receive(h, q, "form")
    BY <2>2
  <2> HIDE DEF q
  <2>9. \A g \in Handlers : \A d \in call[g] : pc[g] \in Undecided /\ d.op = "create" => d.beer # b
    BY <2>1 DEF BInv, CreatesAlone
  <2>10. \A m \in f : m.id = 0 \/ \E k \in row[b].comments : m.id = k.id
    BY <2>4
  <2>11. FitsIn(q)
    BY <2>1, <2>7, <2>9, <2>10 DEF FitsIn, Carries
  <2> QED BY <2>8, <2>11
<1>3. ASSUME NEW o \in AllOps, o # "create", NEW u \in Users, NEW b \in Beers, Known(b),
             NEW q, NEW l \in {"check", "read"}, Receive(h, q, l),
             \/ q = Req(o, u, b)
             \/ \E t \in CommentIds : q = [Req(o, u, b) EXCEPT !.target = t]
             \/ \E k \in SUBSET Users : q = [Req(o, u, b) EXCEPT !.likers = k]
      PROVE  FitsIn(q)
  <2>1. numCalls < MaxCalls
    BY <1>3 DEF Receive
  <2>2. Carries(q, o, b, {})
    BY <1>0, <1>3, <2>1, RequestFields
  <2> QED BY <1>3, <2>2, KnownFits
<1>4. CASE ReceiveDelete(h) \/ ReceiveApproval(h)
  <2>1. PICK u \in Users, b \in Beers, o \in {"delete", "approve"} :
          Known(b) /\ Receive(h, Req(o, u, b), "check")
    BY <1>4 DEF ReceiveDelete, ReceiveApproval
  <2>2. o \in AllOps /\ o # "create"
    BY DEF AllOps
  <2>3. FitsIn(Req(o, u, b))
    BY <1>3, <2>1, <2>2
  <2> QED BY <2>1, <2>3
<1>5. CASE ReceiveComment(h)
  <2>1. PICK u \in Users, b \in Beers, k \in {{}} \union {t.likedBy : t \in Sent} :
          Known(b) /\ Receive(h, [Req("comment", u, b) EXCEPT !.likers = k], "check")
    BY <1>5 DEF ReceiveComment
  <2>2. k \in SUBSET Users /\ "comment" \in AllOps
    BY StoreAssumption DEF StoreAssumption, AllOps
  <2> DEFINE q == [Req("comment", u, b) EXCEPT !.likers = k]
  <2>3. \E j \in SUBSET Users : q = [Req("comment", u, b) EXCEPT !.likers = j]
    BY <2>2
  <2>4. Known(b) /\ Receive(h, q, "check")
    BY <2>1
  <2> HIDE DEF q
  <2>5. FitsIn(q)
    BY <1>3, <2>2, <2>3, <2>4
  <2> QED BY <2>4, <2>5
<1>6. CASE ReceiveUncomment(h) \/ ReceiveLike(h)
  <2>1. PICK u \in Users, b \in Beers, t \in CommentIds, o \in {"uncomment", "like"} :
          Known(b) /\ Receive(h, [Req(o, u, b) EXCEPT !.target = t], "read")
    BY <1>6 DEF ReceiveUncomment, ReceiveLike
  <2>2. o \in AllOps /\ o # "create"
    BY DEF AllOps
  <2> DEFINE q == [Req(o, u, b) EXCEPT !.target = t]
  <2>3. \E j \in CommentIds : q = [Req(o, u, b) EXCEPT !.target = j]
    OBVIOUS
  <2>4. Known(b) /\ Receive(h, q, "read")
    BY <2>1
  <2> HIDE DEF q
  <2>5. FitsIn(q)
    BY <1>3, <2>2, <2>3, <2>4
  <2> QED BY <2>4, <2>5
<1> QED BY <1>1, <1>2, <1>4, <1>5, <1>6 DEF Arrive

LEMMA ArriveKeeps == ASSUME BInv, NEW h \in Handlers, Arrive(h) PROVE BInv'
BY ArrivalFits, ReceiveKeeps

----------------------------------------------------------------------------
(* One lemma per kind of step.                                             *)

\* An early return, or the next label, before the transaction.
LEMMA PassKeeps ==
  ASSUME BInv, NEW h \in Handlers, pc[h] \in {"form", "check"},
         NEW l \in {"check", "read", "write"}, Pass(h, l)
  PROVE  BInv'
<1>1. /\ Moves(h, l, reply[h])
      /\ UNCHANGED <<row, events, cache, last, lock, call, draft, numCalls>>
  BY DEF BInv, TypeOK, Pass, Goto, store, Moves
<1> QED BY <1>1, OutsideKeeps

LEMMA RefuseKeeps ==
  ASSUME BInv, NEW h \in Handlers, pc[h] = "check",
         NEW s \in 400 .. 599, Refuse(h, s)
  PROVE  BInv'
<1>1. /\ Moves(h, "done", s)
      /\ UNCHANGED <<row, events, cache, last, lock, call, draft, numCalls>>
  BY DEF Refuse, Answer, Goto, Moves
<1> QED BY <1>1, OutsideKeeps

LEMMA CheckKeeps == ASSUME BInv, NEW h \in Handlers, Check(h) PROVE BInv'
<1>0. pc[h] = "check"
  BY DEF Check
<1>1. \/ Pass(h, "write") \/ Pass(h, "read")
      \/ \E s \in {403, 404, 409, 422} : Refuse(h, s)
  BY DEF Check, CheckDuplicate, CheckUpdate, CheckDelete, CheckApproval, Moderate
<1>2. {403, 404, 409, 422} \subseteq 400 .. 599
  OBVIOUS
<1> QED BY <1>0, <1>1, <1>2, PassKeeps, RefuseKeeps

LEMMA ReadKeeps == ASSUME BInv, NEW h \in Handlers, ReadForUpdate(h) PROVE BInv'
<1>0. pc[h] = "read" /\ pc[h] # Idle
  BY DEF ReadForUpdate, Idle
<1>1. PICK c \in call[h] :
        /\ lock[c.beer] = NoHandler
        /\ \/ row[c.beer] = NoBeer /\ Rollback(h, 404)
           \/ /\ row[c.beer] # NoBeer
              /\ lock' = [lock EXCEPT ![c.beer] = h]
              /\ draft' = [draft EXCEPT ![h] = row[c.beer]]
              /\ Goto(h, "edit")
              /\ UNCHANGED <<row, events, cache, last, call, reply, numCalls>>
  BY DEF ReadForUpdate
<1>2. CASE Rollback(h, 404)
  BY <1>0, <1>2, RollbackKeeps
<1>3. CASE ~Rollback(h, 404)
  <2>1. c.beer \in Beers
    BY DEF BInv, TypeOK, Call
  <2>2. row[c.beer] \in {NoBeer} \union Row
    BY <2>1 DEF BInv, TypeOK
  <2>3. "edit" \in TxLabels
    BY DEF TxLabels
  <2> QED BY <1>0, <1>1, <1>3, <2>2, <2>3, BeginKeeps DEF Goto
<1> QED BY <1>2, <1>3

\* The label after a row was written.
LEMMA AfterWriteFits == AfterWrite \in {"log", "commit"} /\ AfterWrite \in TxLabels
BY DEF AfterWrite, TxLabels

LEMMA EditKeeps == ASSUME BInv, NEW h \in Handlers, Edit(h) PROVE BInv'
<1>0. pc[h] = "edit" /\ pc[h] # Idle /\ pc[h] \in TxLabels
  BY DEF Edit, Idle, TxLabels
<1>1. PICK c \in call[h] : EditAdd(h, c) \/ EditRemove(h, c) \/ EditLike(h, c)
  BY DEF Edit
<1>2. c \in Call /\ draft[h] \in Row
  BY <1>0 DEF BInv, TypeOK, DraftsFit
<1>3. ASSUME NEW r \in Row, Wrote(h, r), UNCHANGED lock PROVE BInv'
  BY <1>0, <1>3, AfterWriteFits, InsideKeeps DEF Wrote, Goto
<1>4. ASSUME NEW s \in {400, 403, 404}, Rollback(h, s) PROVE BInv'
  BY <1>0, <1>4, RollbackKeeps
<1>5. CASE EditAdd(h, c)
  BY <1>2, <1>3, <1>5, EditsTyped DEF EditAdd
<1>6. CASE EditRemove(h, c)
  BY <1>2, <1>3, <1>4, <1>6, EditsTyped DEF EditRemove
<1>7. CASE EditLike(h, c)
  BY <1>2, <1>3, <1>4, <1>7, EditsTyped DEF EditLike, Target
<1> QED BY <1>1, <1>5, <1>6, <1>7

LEMMA WriteKeeps == ASSUME BInv, NEW h \in Handlers, Write(h) PROVE BInv'
<1>0. pc[h] = "write" /\ pc[h] # Idle
  BY DEF Write, Idle
<1>1. PICK c \in call[h] :
        /\ lock[c.beer] = NoHandler
        /\ \/ WriteCreate(h, c) \/ WriteUpdate(h, c)
           \/ WriteDelete(h, c) \/ WriteApproval(h, c)
  BY DEF Write
<1>2. c \in Call /\ c.beer \in Beers
  BY DEF BInv, TypeOK, Call
<1>3. ASSUME NEW r \in {NoBeer} \union Row, Wrote(h, r),
             c.op = "create" \/ row[c.beer] # NoBeer,
             lock' = [lock EXCEPT ![c.beer] = h]
      PROVE  BInv'
  <2>1. AfterWrite # "edit"
    BY AfterWriteFits
  <2> QED BY <1>0, <1>1, <1>3, <2>1, AfterWriteFits, BeginKeeps DEF Wrote, Goto
<1>4. CASE Rollback(h, 500)
  BY <1>0, <1>4, RollbackKeeps
<1>5. CASE WriteCreate(h, c)
  BY <1>2, <1>3, <1>5, WritesTyped DEF WriteCreate
<1>6. CASE WriteUpdate(h, c)
  <2>1. row[c.beer] # NoBeer => row[c.beer] \in Row
    BY <1>2 DEF BInv, TypeOK
  <2> QED BY <1>2, <1>3, <1>4, <1>6, <2>1, WritesTyped DEF WriteUpdate
<1>7. CASE WriteDelete(h, c)
  BY <1>3, <1>4, <1>7 DEF WriteDelete
<1>8. CASE WriteApproval(h, c) /\ ~Rollback(h, 500)
  <2>1. "commit" \in TxLabels
    BY DEF TxLabels
  <2> QED BY <1>0, <1>1, <1>8, <2>1, BeginKeeps DEF WriteApproval, Goto
<1> QED BY <1>1, <1>4, <1>5, <1>6, <1>7, <1>8

LEMMA LogEventKeeps == ASSUME BInv, NEW h \in Handlers, LogEvent(h) PROVE BInv'
<1>0. pc[h] = "log" /\ pc[h] # Idle /\ pc[h] \in TxLabels
  BY DEF LogEvent, Idle, TxLabels
<1>1. CASE Rollback(h, 500)
  BY <1>0, <1>1, RollbackKeeps
<1>2. CASE Pass(h, "commit")
  <2>1. /\ draft[h] \in {NoBeer} \union Row
        /\ draft' = [draft EXCEPT ![h] = draft[h]]
        /\ pc' = [pc EXCEPT ![h] = "commit"]
        /\ UNCHANGED <<row, events, cache, last, lock, call, reply, numCalls>>
    BY <1>2 DEF BInv, TypeOK, Pass, Goto, store
  <2> QED BY <1>0, <2>1, InsideKeeps
<1> QED BY <1>1, <1>2 DEF LogEvent

\* What a COMMIT does to the tables: one row is replaced, and an event is gone
\* only with its beer.
LEMMA CommitEffect ==
  ASSUME BInv, NEW h \in Handlers, pc[h] = "commit", NEW c \in call[h], Committed(h, c)
  PROVE  /\ c \in Call /\ c.beer \in Beers /\ call[h] = {c}
         /\ row' \in [Beers -> {NoBeer} \union Row]
         /\ row'[c.beer] = draft[h] /\ \A b \in Beers \ {c.beer} : row'[b] = row[b]
         /\ events' \subseteq events \union {EventOf(c)}
         /\ \A e \in events : e \in events' \/ row'[e.beer] = NoBeer
         /\ EventsOn => EventOf(c) \in events' \/ row'[c.beer] = NoBeer
         /\ c.op # "create" => row[c.beer] # NoBeer
<1>1. c \in Call /\ c.beer \in Beers /\ call[h] = {c}
  BY DEF BInv, TypeOK, OneCall, Call, Idle
<1>2. /\ row' \in [Beers -> {NoBeer} \union Row]
      /\ row'[c.beer] = draft[h] /\ \A b \in Beers \ {c.beer} : row'[b] = row[b]
  BY <1>1 DEF BInv, TypeOK, Committed
<1>3. c.op # "create" => row[c.beer] # NoBeer
  BY DEF BInv, DraftsFit, TxLabels
<1>4. /\ events' \subseteq events \union {EventOf(c)}
      /\ \A e \in events : e \in events' \/ row'[e.beer] = NoBeer
      /\ EventsOn => EventOf(c) \in events' \/ row'[c.beer] = NoBeer
  BY <1>2 DEF Committed
<1> QED BY <1>1, <1>2, <1>3, <1>4

\* After its COMMIT request c goes on to l with status s.
Lands(h, c, l, s) ==
  /\ l \in {"cache", "done"}
  /\ s \in 0 .. 599
  /\ l = "cache" => c.op # "approve"
  /\ l = "done" /\ s = 200 => c.op = "approve"
  /\ pc' = [pc EXCEPT ![h] = l]
  /\ reply' = [reply EXCEPT ![h] = s]

\* COMMIT, acknowledged or not: a 200 at once is an approval's.
LEMMA CommittedKeeps ==
  ASSUME BInv, NEW h \in Handlers, pc[h] = "commit",
         NEW c \in call[h], Committed(h, c),
         NEW l, NEW s, Lands(h, c, l, s),
         UNCHANGED <<cache, call, numCalls>>
  PROVE  BInv'
<1> USE DEF BInv, Lands
<1>0. /\ c \in Call /\ c.beer \in Beers /\ call[h] = {c}
      /\ row' \in [Beers -> {NoBeer} \union Row]
      /\ row'[c.beer] = draft[h] /\ \A b \in Beers \ {c.beer} : row'[b] = row[b]
      /\ events' \subseteq events \union {EventOf(c)}
      /\ \A e \in events : e \in events' \/ row'[e.beer] = NoBeer
      /\ EventsOn => EventOf(c) \in events' \/ row'[c.beer] = NoBeer
      /\ c.op # "create" => row[c.beer] # NoBeer
  BY CommitEffect
<1>1. EventOf(c) \in Event /\ Credit(c) \in [n : CallIds, beer : Beers, type : AllOps, by : Users]
  BY <1>0 DEF EventOf, Event, Credit, Call
<1>2. /\ \A g \in Handlers \ {h} : pc'[g] = pc[g] /\ draft'[g] = draft[g] /\ reply'[g] = reply[g]
      /\ pc'[h] = l /\ draft'[h] = NoBeer /\ reply'[h] = s
      /\ cache' = cache /\ call' = call
      /\ l \notin Undecided /\ l \notin TxLabels
  BY DEF TypeOK, Committed, Undecided, TxLabels
<1>3. TypeOK'
  <2>1. events' \subseteq Event
    BY <1>0, <1>1 DEF TypeOK
  <2>2. last' \subseteq [n : CallIds, beer : Beers, type : AllOps, by : Users]
    BY <1>1 DEF Committed
  <2>3. lock' \in [Beers -> Handlers \union {NoHandler}]
    BY DEF TypeOK, Committed, Release
  <2> QED BY <1>0, <2>1, <2>2, <2>3 DEF TypeOK, Committed, Labels
<1>4. OneCall'
  BY <1>2 DEF OneCall, Idle
<1>5. LocksMatchTransactions'
  <2>1. ASSUME NEW g \in Handlers, g # h
        PROVE  {b \in Beers : lock'[b] = g} = {b \in Beers : lock[b] = g}
    BY <2>1, StoreAssumption DEF StoreAssumption, Committed, Release
  <2>2. {b \in Beers : lock'[b] = h} = {}
    BY StoreAssumption DEF StoreAssumption, Committed, Release
  <2> QED BY <1>2, <2>1, <2>2 DEF LocksMatchTransactions
<1>6. DraftsFit'
  <2> SUFFICES ASSUME NEW g \in Handlers, g # h, pc[g] \in TxLabels, NEW d \in call[g],
                      d.op # "create"
               PROVE  row'[d.beer] # NoBeer
    BY <1>2 DEF DraftsFit
  <2>1. d.beer \in Beers /\ lock[d.beer] = g /\ lock[c.beer] = h
    BY <1>0 DEF TypeOK, LocksMatchTransactions, Call, TxLabels
  <2>2. row[d.beer] # NoBeer
    BY DEF DraftsFit
  <2> QED BY <1>0, <2>1, <2>2
<1>7. CreatesAlone'
  <2> SUFFICES ASSUME NEW g \in Handlers, NEW d \in call[g], pc'[g] \in Undecided, d.op = "create"
               PROVE  /\ row'[d.beer] = NoBeer
                      /\ \A k \in Handlers \ {g} : \A e \in call[k] : e.beer # d.beer
                      /\ \A e \in cache : e.beer # d.beer
    BY <1>2 DEF CreatesAlone
  <2>1. g # h /\ pc[g] \in Undecided
    BY <1>2
  <2>2. /\ row[d.beer] = NoBeer
        /\ \A k \in Handlers \ {g} : \A e \in call[k] : e.beer # d.beer
        /\ \A e \in cache : e.beer # d.beer
    BY <2>1 DEF CreatesAlone
  <2>3. d.beer # c.beer /\ d.beer \in Beers
    BY <2>1, <2>2 DEF TypeOK, Call
  <2> QED BY <1>0, <2>2, <2>3
<1>8. c.op = "create" => /\ row[c.beer] = NoBeer
                         /\ \A g \in Handlers \ {h} : \A d \in call[g] : d.beer # c.beer
                         /\ \A e \in cache : e.beer # c.beer
  BY DEF CreatesAlone, Undecided, TxLabels
<1>9. EventsFit'
  <2>1. ASSUME EventsOn, NEW g \in Handlers, g # h, NEW d \in call[g], Recorded(d)
        PROVE  Recorded(d)'
    <3>1. d.beer \in Beers /\ EventOf(d).beer = d.beer
      BY DEF TypeOK, Call, EventOf
    <3>2. EventOf(d) \in events => EventOf(d) \in events' \/ row'[d.beer] = NoBeer
      BY <1>0, <3>1
    <3>3. row[d.beer] = NoBeer => row'[d.beer] = NoBeer
      BY <1>0, <1>8, <2>1, <3>1
    <3>4. EventOf(d) \in events' \/ row'[d.beer] = NoBeer
      BY <2>1, <3>2, <3>3 DEF Recorded
    <3> QED BY <3>4 DEF Recorded, EventOf
  <2>2. ASSUME EventsOn PROVE Recorded(c)'
    BY <1>0, <2>2 DEF Recorded, EventOf
  <2> QED BY <1>0, <1>2, <2>1, <2>2 DEF EventsFit
<1>10. CacheIsBacked'
  <2>1. ASSUME EventsOn, NEW e \in cache
        PROVE  e \in events' \/ row'[e.beer] = NoBeer
    <3>1. e.beer \in Beers
      BY DEF TypeOK, Event
    <3>2. CASE e \in events
      BY <1>0, <3>2
    <3>3. CASE row[e.beer] = NoBeer
      BY <1>0, <1>8, <3>1, <3>3
    <3> QED BY <2>1, <3>2, <3>3 DEF CacheIsBacked
  <2> QED BY <1>2, <2>1 DEF CacheIsBacked
<1> QED BY <1>3, <1>4, <1>5, <1>6, <1>7, <1>9, <1>10

LEMMA CommitKeeps ==
  ASSUME BInv, NEW h \in Handlers, Commit(h) \/ CommitUnacknowledged(h) PROVE BInv'
<1>1. CASE Commit(h)
  <2>1. PICK c \in call[h] :
          /\ Committed(h, c)
          /\ \/ c.op = "approve" /\ Answer(h, 200)
             \/ c.op # "approve" /\ Goto(h, "cache") /\ UNCHANGED reply
    BY <1>1 DEF Commit
  <2>2. pc[h] = "commit" /\ UNCHANGED <<cache, call, numCalls>>
    BY <1>1 DEF Commit
  <2>3. Lands(h, c, "done", 200) \/ Lands(h, c, "cache", reply[h])
    BY <2>1 DEF BInv, TypeOK, Lands, Answer, Goto
  <2> QED BY <2>1, <2>2, <2>3, CommittedKeeps
<1>2. CASE CommitUnacknowledged(h)
  <2>1. PICK c \in call[h] : Committed(h, c)
    BY <1>2 DEF CommitUnacknowledged
  <2>2. pc[h] = "commit" /\ Lands(h, c, "done", 500) /\ UNCHANGED <<cache, call, numCalls>>
    BY <1>2 DEF CommitUnacknowledged, Lands, Answer, Goto
  <2> QED BY <2>1, <2>2, CommittedKeeps
<1> QED BY <1>1, <1>2

\* What is copied to Redis is in the table by now, or its beer is gone.
LEMMA PublishKeeps == ASSUME BInv, NEW h \in Handlers, PublishCache(h) PROVE BInv'
<1>0. /\ pc[h] = "cache" /\ pc[h] # Idle /\ pc[h] \notin TxLabels
      /\ "done" \notin TxLabels /\ "done" \notin Undecided
  BY DEF PublishCache, Idle, TxLabels, Undecided
<1>1. Local(h, "done", draft[h], 200)
  BY DEF BInv, TypeOK, Local, PublishCache, Answer, Goto, store
<1>2. Fits(h, "done", draft[h], 200)
  BY <1>0 DEF BInv, TypeOK, EventsFit, Fits, Labels, Idle
<1>3. {b \in Beers : lock'[b] = h} = {}
  BY <1>0 DEF BInv, LocksMatchTransactions, PublishCache
<1>4. Publishes(h, "done")
  <2>1. cache' \subseteq cache \union {EventOf(c) : c \in call[h]}
    BY DEF PublishCache
  <2>2. ASSUME EventsOn, NEW c \in call[h]
        PROVE  EventOf(c) \in events \/ row[EventOf(c).beer] = NoBeer
    <3>1. EventOf(c).beer = c.beer
      BY DEF EventOf
    <3> QED BY <1>0, <2>2, <3>1 DEF BInv, EventsFit, Recorded
  <2> QED BY <1>0, <2>1, <2>2 DEF BInv, CacheIsBacked, Publishes
<1> QED BY <1>0, <1>1, <1>2, <1>3, <1>4, LocalKeeps

LEMMA RespondKeeps == ASSUME BInv, NEW h \in Handlers, Respond(h) PROVE BInv'
<1> USE DEF BInv
<1>1. TypeOK'
  BY DEF TypeOK, Respond, Goto, Labels, Idle
<1>2. /\ \A g \in Handlers \ {h} : /\ pc'[g] = pc[g] /\ call'[g] = call[g]
                                   /\ reply'[g] = reply[g]
      /\ pc'[h] = Idle /\ call'[h] = {} /\ pc[h] = "done"
      /\ row' = row /\ events' = events /\ cache' = cache
      /\ lock' = lock /\ draft' = draft
  BY DEF TypeOK, Respond, Goto
<1>3. OneCall'
  BY <1>2 DEF OneCall
<1>4. LocksMatchTransactions'
  BY <1>2 DEF LocksMatchTransactions, TxLabels, Idle
<1>5. DraftsFit'
  BY <1>2 DEF DraftsFit, TxLabels, Idle
<1>6. CreatesAlone'
  BY <1>2 DEF CreatesAlone
<1>7. EventsFit'
  <2>1. \A c : Recorded(c) => Recorded(c)'
    BY <1>2 DEF Recorded, EventOf
  <2> QED BY <1>2, <2>1 DEF EventsFit, Idle
<1>8. CacheIsBacked'
  BY <1>2 DEF CacheIsBacked
<1> QED BY <1>1, <1>3, <1>4, <1>5, <1>6, <1>7, <1>8

\* A crash leaves what was committed and nothing else.
LEMMA CrashKeeps == ASSUME BInv, Crash PROVE BInv'
<1> USE DEF BInv, Crash
<1>1. TypeOK'
  BY DEF TypeOK, Labels, Idle
<1>2. OneCall'
  BY DEF OneCall
<1>3. LocksMatchTransactions'
  BY StoreAssumption DEF StoreAssumption, LocksMatchTransactions, TxLabels, Idle
<1>4. DraftsFit' /\ CreatesAlone' /\ EventsFit' /\ CacheIsBacked'
  BY DEF DraftsFit, CreatesAlone, EventsFit, CacheIsBacked, Idle
<1> QED BY <1>1, <1>2, <1>3, <1>4

\* A step that changes nothing.
LEMMA StutterKeeps == ASSUME BInv, UNCHANGED vars PROVE BInv'
BY DEF vars, BInv, TypeOK, OneCall, LocksMatchTransactions, DraftsFit, CreatesAlone,
       EventsFit, Recorded, EventOf, CacheIsBacked

LEMMA NextKeeps == ASSUME BInv, [Next]_vars PROVE BInv'
<1>1. ASSUME NEW h \in Handlers, Serve(h) PROVE BInv'
  BY <1>1, CheckKeeps, ReadKeeps, EditKeeps, WriteKeeps, LogEventKeeps, CommitKeeps,
     PublishKeeps, RespondKeeps DEF Serve
<1>2. ASSUME NEW h \in Handlers, SubmitForm(h) PROVE BInv'
  <2>1. pc[h] \in {"form", "check"} /\ Pass(h, "check")
    BY <1>2 DEF SubmitForm, Pass
  <2> QED BY <2>1, PassKeeps
<1>3. ASSUME NEW h \in Handlers, StatementFails(h) PROVE BInv'
  <2>1. pc[h] # Idle /\ Rollback(h, 500)
    BY <1>3 DEF StatementFails, TxLabels, Idle
  <2> QED BY <2>1, RollbackKeeps
<1> QED BY <1>1, <1>2, <1>3, ArriveKeeps, CommitKeeps, CrashKeeps, StutterKeeps DEF Next

----------------------------------------------------------------------------
\* The invariant behind the theorems.
THEOREM InvariantHolds == Spec => []BInv
BY InitHolds, NextKeeps, PTL DEF Spec

\* Every variable keeps its type.
THEOREM TypeCorrect == Spec => []TypeOK
<1>1. BInv => TypeOK
  BY DEF BInv
<1> QED BY <1>1, InvariantHolds, PTL

\* No row lock leaks and no two handlers edit one row, for any number of
\* beers and handlers: of each handler the locks are those of its transaction.
THEOREM LocksNeverLeak == Spec => []LocksMatchTransactions
<1>1. BInv => LocksMatchTransactions
  BY DEF BInv
<1> QED BY <1>1, InvariantHolds, PTL

\* A change that was acknowledged is in the table of events for as long as its
\* beer exists, deletions by approval included.
THEOREM AcknowledgedStays == Spec => []AcknowledgedIsRecorded
<1>1. BInv => AcknowledgedIsRecorded
  BY DEF BInv, EventsFit, Recorded, AcknowledgedIsRecorded
<1> QED BY <1>1, InvariantHolds, PTL

\* Of a beer that exists the copy in Redis never holds an event the database
\* does not have.
THEOREM CacheNeverAhead == Spec => []CacheIsBacked
<1>1. BInv => CacheIsBacked
  BY DEF BInv
<1> QED BY <1>1, InvariantHolds, PTL
=============================================================================
