----------------------------- MODULE BeerStore -----------------------------
(***************************************************************************)
(* Beers, their comments and likes, and the event every change leaves:     *)
(* internal/beer/usecase/beer_usecase.go over the PostgreSQL repository    *)
(* internal/beer/repository/beer_repository.go.                            *)
(*                                                                         *)
(* A request is served by a handler goroutine.  A change to a beer is one  *)
(* database transaction: the row is locked (SELECT ... FOR UPDATE, or the  *)
(* lock an UPDATE / DELETE / INSERT takes), rewritten as a whole, and the  *)
(* event row is inserted before COMMIT.  What a transaction wrote stays in *)
(* the handler's `draft` until Commit makes it visible; a failure or a     *)
(* crash before that rolls it back.  After the commit the event is copied  *)
(* to Redis, and an error of that copy is swallowed.                       *)
(*                                                                         *)
(* EventsOn is u.events # nil: with Redis reachable at start-up the event  *)
(* store exists and every change runs through ExecInTxWithEvent, without   *)
(* it comment changes run through ExecInTx and the others are single       *)
(* statements, whose row lock lasts until the statement's own commit.      *)
(*                                                                         *)
(* A beer also goes when an administrator approves a request for its       *)
(* deletion (internal/beer/usecase/moderation_usecase.go).  Moderation     *)
(* models the requests; here an approval is one more transaction on the    *)
(* beer's row, the only one that writes no event.                          *)
(***************************************************************************)
EXTENDS Integers, FiniteSets

CONSTANTS
  Beers,      \* beer ids (UUIDs) that exist or can still be generated
  Users,      \* authenticated callers
  Admins,     \* those whose token carries role admin
  Names,      \* beer names; equal names stand for names the search matches
  Handlers,   \* handler goroutines
  Ops,        \* operations enabled in this instance, a subset of AllOps
  EventsOn,   \* the event store is configured
  Faults,     \* database errors and process crashes happen
  Sent,       \* what clients may write into a comment of a body of their own
  MaxCalls,   \* model bound: requests per behaviour
  NoBeer,     \* an id without a row
  NoUser,     \* created_by = '' (rows that were seeded, not created)
  NoHandler   \* a row nobody has locked

AllOps == {"create", "update", "delete", "comment", "uncomment", "like", "approve"}

ASSUME StoreAssumption ==
  /\ Admins \subseteq Users
  /\ NoUser \notin Users
  /\ Names # {}
  /\ NoHandler \notin Handlers
  /\ Ops \subseteq AllOps
  /\ EventsOn \in BOOLEAN
  /\ Faults \in BOOLEAN
  /\ MaxCalls \in Nat
  /\ Sent \subseteq [author : Users \union {NoUser}, likes : Int, likedBy : SUBSET Users]

VARIABLES
  row,       \* table beers, committed
  events,    \* table beer_events, committed
  cache,     \* the Redis copy of the events
  last,      \* history: the request whose COMMIT was the last (read by no step)
  lock,      \* who holds the row lock of a beer
  pc,        \* where each handler is
  call,      \* the request each handler serves
  draft,     \* the row as the handler's transaction wrote it
  reply,     \* the HTTP status the handler answers with
  numCalls   \* requests received; numbers them, their events and comments

store == <<row, events, cache, last>>
vars == <<row, events, cache, last, lock, pc, call, draft, reply, numCalls>>

CallIds == 1 .. MaxCalls

\* A comment of request n has id n; 0 stands for the ids clients make up.
Comment == [id : {0} \union CallIds, author : Users \union {NoUser},
            likes : Int, likedBy : SUBSET Users]

Row == [owner : Users \union {NoUser}, name : Names, comments : SUBSET Comment]

ASSUME NoBeerIsNoRow == NoBeer \notin Row

Event == [n : CallIds, beer : Beers, type : AllOps]

Call == [op : AllOps, n : CallIds, by : Users, beer : Beers, name : Names,
         target : {0} \union CallIds, likers : SUBSET Users, form : SUBSET Comment]

\* Labels between which a handler may be interrupted.
Idle == "idle"
TxLabels == {"edit", "log", "commit"}
Labels == {"idle", "form", "check", "read", "write", "cache", "done"} \union TxLabels

----------------------------------------------------------------------------
(* What one operation does to a row.                                       *)

NewRow(c) == [owner |-> c.by, name |-> c.name, comments |-> {}]

\* repo.Update writes the request body, its name and comments among it;
\* created_by is not among the columns it sets.
Overwritten(r, c) == [r EXCEPT !.name = c.name, !.comments = c.form]

\* AddComment in the controller: fresh id, no likes, the caller as author;
\* likedBy stays as the body has it.
NewComment(c) == [id |-> c.n, author |-> c.by, likes |-> 0, likedBy |-> c.likers]

Commented(r, c) == [r EXCEPT !.comments = @ \union {NewComment(c)}]

Uncommented(r, m) == [r EXCEPT !.comments = @ \ {m}]

WithLike(m, u) == [m EXCEPT !.likes = @ + 1, !.likedBy = @ \union {u}]

Liked(r, m, u) == [r EXCEPT !.comments = (@ \ {m}) \union {WithLike(m, u)}]

\* The comment a request names.  Ids the server gave are UUIDs, but an update
\* may leave several comments with one id: the handler takes the first of the
\* list, here any of them.
Target(r, c) == {m \in r.comments : m.id = c.target}

CanModify(u, owner) == u \in Admins \/ u = owner

\* Mutant: the event is filed under the beer's name.
EventOf_ByName(c) == [n |-> c.n, beer |-> c.name, type |-> c.op]

EventOf(c) == [n |-> c.n, beer |-> c.beer, type |-> c.op]

----------------------------------------------------------------------------
Init ==
  /\ row \in [Beers -> {NoBeer} \union
                       [owner : Users \union {NoUser}, name : Names, comments : {{}}]]
  /\ events = {}
  /\ cache = {}
  /\ last = {}
  /\ lock = [b \in Beers |-> NoHandler]
  /\ pc = [h \in Handlers |-> Idle]
  /\ call = [h \in Handlers |-> {}]
  /\ draft = [h \in Handlers |-> NoBeer]
  /\ reply = [h \in Handlers |-> 0]
  /\ numCalls = 0

Goto(h, l) == pc' = [pc EXCEPT ![h] = l]

\* The answer is decided; nothing of the request remains to be done.
Answer(h, status) == /\ Goto(h, "done")
                     /\ reply' = [reply EXCEPT ![h] = status]

\* Mutant: the deferred rollback is missing.
Release_Forgotten(h) == UNCHANGED lock

\* ROLLBACK (the deferred tx.Rollback, or the server noticing a dead client).
Release(h) == lock' = [b \in Beers |-> IF lock[b] = h THEN NoHandler ELSE lock[b]]

Rollback(h, status) ==
  /\ Release(h)
  /\ draft' = [draft EXCEPT ![h] = NoBeer]
  /\ Answer(h, status)
  /\ UNCHANGED <<row, events, cache, last, call, numCalls>>

\* An early return outside a transaction.
Refuse(h, status) ==
  /\ Answer(h, status)
  /\ UNCHANGED <<row, events, cache, last, lock, call, draft, numCalls>>

----------------------------------------------------------------------------
(* Requests arrive.                                                        *)

Receive(h, c, l) ==
  /\ pc[h] = Idle
  /\ numCalls < MaxCalls
  /\ c.op \in Ops
  /\ numCalls' = numCalls + 1
  /\ call' = [call EXCEPT ![h] = {c}]
  /\ Goto(h, l)
  /\ UNCHANGED <<row, events, cache, last, lock, draft, reply>>

\* A request without a body; the operations that have one fill it in.
Req(o, u, b) ==
  [op |-> o, n |-> numCalls + 1, by |-> u, beer |-> b,
   name |-> CHOOSE nm \in Names : TRUE, target |-> 0, likers |-> {}, form |-> {}]

WithBody(c, nm, f) == [c EXCEPT !.name = nm, !.form = f]

\* POST /beers: the id is a UUID the server generates, so it names no row, no
\* event anybody remembers, and no other request holds it.
ReceiveCreate(h) ==
  \E u \in Users, b \in Beers, nm \in Names :
    /\ row[b] = NoBeer
    /\ \A e \in events \union cache : e.beer # b
    /\ \A g \in Handlers : \A c \in call[g] : c.beer # b
    /\ Receive(h, WithBody(Req("create", u, b), nm, {}), "check")

\* Nobody but the server knows the id of a beer that is being created.
Known(b) == \A g \in Handlers : \A c \in call[g] : c.op = "create" => c.beer # b

\* Comments a client may write itself, under an id of its own or of a comment
\* it has seen on the beer.
Written(b) == {[id |-> i, author |-> t.author, likes |-> t.likes, likedBy |-> t.likedBy] :
                 i \in {0} \union {m.id : m \in row[b].comments}, t \in Sent}

\* PUT /beers/{id}: the body may hold any comments: those of the client's copy
\* of the beer, all or some of them, and others it wrote.  The list is a set
\* here: elements equal in every field are one.
ReceiveForm(h) ==
  \E u \in Users, b \in Beers, nm \in Names :
    /\ row[b] # NoBeer
    /\ \E f \in SUBSET (row[b].comments \union Written(b)) :
         Receive(h, WithBody(Req("update", u, b), nm, f), "form")

SubmitForm(h) ==
  /\ pc[h] = "form"
  /\ Goto(h, "check")
  /\ UNCHANGED <<store, lock, call, draft, reply, numCalls>>

ReceiveDelete(h) ==
  \E u \in Users, b \in Beers :
    Known(b) /\ Receive(h, Req("delete", u, b), "check")

\* PATCH /admin/deletion-requests/{id}: approval of a request filed
\* about beer b.
ReceiveApproval(h) ==
  \E u \in Users, b \in Beers :
    Known(b) /\ Receive(h, Req("approve", u, b), "check")

\* POST .../comments: the body decodes into a whole Comment, likedBy included;
\* the apps leave that empty.
ReceiveComment(h) ==
  \E u \in Users, b \in Beers, l \in {{}} \union {t.likedBy : t \in Sent} :
    Known(b) /\ Receive(h, [Req("comment", u, b) EXCEPT !.likers = l], "check")

\* The comments a client can name: those that were announced, and any with an
\* id that clients made up, if there is one.
CommentIds == 0 .. numCalls

ReceiveUncomment(h) ==
  \E u \in Users, b \in Beers, t \in CommentIds :
    Known(b) /\ Receive(h, [Req("uncomment", u, b) EXCEPT !.target = t], "read")

ReceiveLike(h) ==
  \E u \in Users, b \in Beers, t \in CommentIds :
    Known(b) /\ Receive(h, [Req("like", u, b) EXCEPT !.target = t], "read")

----------------------------------------------------------------------------
(* Checks before the transaction.                                          *)

NameTaken(nm) == \E b \in Beers : row[b] # NoBeer /\ row[b].name = nm

Pass(h, l) ==
  /\ Goto(h, l)
  /\ UNCHANGED <<store, lock, call, draft, reply, numCalls>>

\* Create searches for the name first; an error of the search is ignored.
CheckDuplicate(h, c) ==
  /\ c.op = "create"
  /\ \/ NameTaken(c.name) /\ Refuse(h, 409)
     \/ ~NameTaken(c.name) /\ Pass(h, "write")
     \/ Faults /\ Pass(h, "write")

\* GetByID (which waits for the row lock) and then who may do what.
CheckUpdate(h, c) ==
  /\ c.op = "update"
  /\ lock[c.beer] = NoHandler
  /\ \/ row[c.beer] = NoBeer /\ Refuse(h, 404)
     \/ row[c.beer] # NoBeer /\ ~CanModify(c.by, row[c.beer].owner) /\ Refuse(h, 403)
     \/ row[c.beer] # NoBeer /\ CanModify(c.by, row[c.beer].owner) /\ Pass(h, "write")

\* The route admits administrators only (RequireAdmin), the use case then
\* reads the row.
CheckDelete(h, c) ==
  /\ c.op = "delete"
  /\ \/ c.by \notin Admins /\ Refuse(h, 403)
     \/ c.by \in Admins /\ lock[c.beer] = NoHandler /\ row[c.beer] = NoBeer /\ Refuse(h, 404)
     \/ c.by \in Admins /\ lock[c.beer] = NoHandler /\ row[c.beer] # NoBeer /\ Pass(h, "write")

\* ResolveDeletionRequest: administrators only, and 404 for a request that is
\* gone or is not the newest one (any outcome: the requests are Moderation's).
CheckApproval(h, c) ==
  /\ c.op = "approve"
  /\ \/ c.by \notin Admins /\ Refuse(h, 403)
     \/ c.by \in Admins /\ Refuse(h, 404)
     \/ c.by \in Admins /\ Pass(h, "write")

\* IsContentAllowed: any verdict, before the row is read.
Moderate(h, c) ==
  /\ c.op = "comment"
  /\ \/ Pass(h, "read")
     \/ Refuse(h, 422)

Check(h) ==
  /\ pc[h] = "check"
  /\ \E c \in call[h] : \/ CheckDuplicate(h, c)
                        \/ CheckUpdate(h, c)
                        \/ CheckDelete(h, c)
                        \/ CheckApproval(h, c)
                        \/ Moderate(h, c)

----------------------------------------------------------------------------
(* The transaction.                                                        *)

\* The label after the row is written: the event, or straight to COMMIT.
AfterWrite == IF EventsOn THEN "log" ELSE "commit"

Wrote(h, r) ==
  /\ draft' = [draft EXCEPT ![h] = r]
  /\ Goto(h, AfterWrite)
  /\ UNCHANGED <<row, events, cache, last, call, reply, numCalls>>

\* Mutant: SELECT without FOR UPDATE, outside the transaction that writes.
ReadForUpdate_NoLock(h) ==
  /\ pc[h] = "read"
  /\ \E c \in call[h] :
       \/ row[c.beer] = NoBeer /\ Rollback(h, 404)
       \/ /\ row[c.beer] # NoBeer
          /\ lock' = [lock EXCEPT ![c.beer] = h]
          /\ draft' = [draft EXCEPT ![h] = row[c.beer]]
          /\ Goto(h, "edit")
          /\ UNCHANGED <<row, events, cache, last, call, reply, numCalls>>

\* BEGIN; SELECT ... FOR UPDATE by the comment operations.
ReadForUpdate(h) ==
  /\ pc[h] = "read"
  /\ \E c \in call[h] :
       /\ lock[c.beer] = NoHandler
       /\ \/ row[c.beer] = NoBeer /\ Rollback(h, 404)
          \/ /\ row[c.beer] # NoBeer
             /\ lock' = [lock EXCEPT ![c.beer] = h]
             /\ draft' = [draft EXCEPT ![h] = row[c.beer]]
             /\ Goto(h, "edit")
             /\ UNCHANGED <<row, events, cache, last, call, reply, numCalls>>

\* The closures of AddComment, DeleteComment and LikeComment, up to the
\* UPDATE that writes the whole row back.
EditAdd(h, c) ==
  /\ c.op = "comment"
  /\ Wrote(h, Commented(draft[h], c))
  /\ UNCHANGED lock

EditRemove(h, c) ==
  /\ c.op = "uncomment"
  /\ \/ Target(draft[h], c) = {} /\ Rollback(h, 404)
     \/ Target(draft[h], c) # {} /\ c.by \notin Admins /\ Rollback(h, 403)
     \/ /\ c.by \in Admins
        /\ \E m \in Target(draft[h], c) : Wrote(h, Uncommented(draft[h], m))
        /\ UNCHANGED lock

\* Mutant: no test for a like the caller already gave.
EditLike_Twice(h, c) ==
  /\ c.op = "like"
  /\ \/ Target(draft[h], c) = {} /\ Rollback(h, 404)
     \/ /\ \E m \in Target(draft[h], c) : Wrote(h, Liked(draft[h], m, c.by))
        /\ UNCHANGED lock

EditLike(h, c) ==
  /\ c.op = "like"
  /\ \/ Target(draft[h], c) = {} /\ Rollback(h, 404)
     \/ \E m \in Target(draft[h], c) : c.by \in m.likedBy /\ Rollback(h, 400)
     \/ /\ \E m \in Target(draft[h], c) :
             c.by \notin m.likedBy /\ Wrote(h, Liked(draft[h], m, c.by))
        /\ UNCHANGED lock

Edit(h) ==
  /\ pc[h] = "edit"
  /\ \E c \in call[h] : EditAdd(h, c) \/ EditRemove(h, c) \/ EditLike(h, c)

\* The single INSERT, UPDATE or DELETE of the other operations, which takes
\* the row lock itself and finds no row if the beer is gone by now.
WriteCreate(h, c) ==
  /\ c.op = "create"
  /\ lock' = [lock EXCEPT ![c.beer] = h]
  /\ Wrote(h, NewRow(c))

WriteUpdate(h, c) ==
  /\ c.op = "update"
  /\ \/ row[c.beer] = NoBeer /\ Rollback(h, 500)
     \/ /\ row[c.beer] # NoBeer
        /\ lock' = [lock EXCEPT ![c.beer] = h]
        /\ Wrote(h, Overwritten(row[c.beer], c))

WriteDelete(h, c) ==
  /\ c.op = "delete"
  /\ \/ row[c.beer] = NoBeer /\ Rollback(h, 500)
     \/ /\ row[c.beer] # NoBeer
        /\ lock' = [lock EXCEPT ![c.beer] = h]
        /\ Wrote(h, NoBeer)

\* txBeerRepo.Delete in the transaction of an approval: no event follows, with
\* or without the event store.
WriteApproval(h, c) ==
  /\ c.op = "approve"
  /\ \/ row[c.beer] = NoBeer /\ Rollback(h, 500)
     \/ /\ row[c.beer] # NoBeer
        /\ lock' = [lock EXCEPT ![c.beer] = h]
        /\ draft' = [draft EXCEPT ![h] = NoBeer]
        /\ Goto(h, "commit")
        /\ UNCHANGED <<row, events, cache, last, call, reply, numCalls>>

Write(h) ==
  /\ pc[h] = "write"
  /\ \E c \in call[h] :
       /\ lock[c.beer] = NoHandler
       /\ \/ WriteCreate(h, c) \/ WriteUpdate(h, c)
          \/ WriteDelete(h, c) \/ WriteApproval(h, c)

\* Mutant: the copy to Redis is made before COMMIT.
LogEvent_PublishesEarly(h) ==
  /\ pc[h] = "log"
  /\ \/ draft[h] = NoBeer /\ Rollback(h, 500)
     \/ /\ draft[h] # NoBeer
        /\ cache' = cache \union {EventOf(c) : c \in call[h]}
        /\ Goto(h, "commit")
        /\ UNCHANGED <<row, events, last, lock, call, draft, reply, numCalls>>

\* INSERT INTO beer_events: beer_id references beers(id), so the event of a
\* beer this transaction has just deleted is refused by the database.
LogEvent(h) ==
  /\ pc[h] = "log"
  /\ \/ draft[h] = NoBeer /\ Rollback(h, 500)
     \/ draft[h] # NoBeer /\ Pass(h, "commit")

\* The request a change is owed to.
Credit(c) == [n |-> c.n, beer |-> c.beer, type |-> c.op, by |-> c.by]

\* Mutant: the event is not part of the transaction.
Committed_NoEvent(h, c) ==
  /\ row' = [row EXCEPT ![c.beer] = draft[h]]
  /\ last' = {Credit(c)}
  /\ Release(h)
  /\ draft' = [draft EXCEPT ![h] = NoBeer]
  /\ UNCHANGED events

\* COMMIT: row and event become visible together; deleting a beer deletes
\* its events (ON DELETE CASCADE), those of acknowledged requests among them.
Committed(h, c) ==
  /\ row' = [row EXCEPT ![c.beer] = draft[h]]
  /\ last' = {Credit(c)}
  /\ events' = {e \in events \union (IF EventsOn THEN {EventOf(c)} ELSE {}) :
                  draft[h] # NoBeer \/ e.beer # c.beer}
  /\ Release(h)
  /\ draft' = [draft EXCEPT ![h] = NoBeer]

\* After COMMIT the event is copied to Redis; an approval has none.
Commit(h) ==
  /\ pc[h] = "commit"
  /\ \E c \in call[h] :
       /\ Committed(h, c)
       /\ \/ c.op = "approve" /\ Answer(h, 200)
          \/ c.op # "approve" /\ Goto(h, "cache") /\ UNCHANGED reply
  /\ UNCHANGED <<cache, call, numCalls>>

\* The commit took effect but its acknowledgement was lost.
CommitUnacknowledged(h) ==
  /\ Faults
  /\ pc[h] = "commit"
  /\ \E c \in call[h] : Committed(h, c)
  /\ Answer(h, 500)
  /\ UNCHANGED <<cache, call, numCalls>>

\* publishEventCache: the copy to Redis may fail, the request succeeds anyway.
PublishCache(h) ==
  /\ pc[h] = "cache"
  /\ Answer(h, 200)
  /\ \/ EventsOn /\ cache' = cache \union {EventOf(c) : c \in call[h]}
     \/ UNCHANGED cache
  /\ UNCHANGED <<row, events, last, lock, call, draft, numCalls>>

Respond(h) ==
  /\ pc[h] = "done"
  /\ Goto(h, Idle)
  /\ call' = [call EXCEPT ![h] = {}]
  /\ reply' = [reply EXCEPT ![h] = 0]
  /\ UNCHANGED <<row, events, cache, last, lock, draft, numCalls>>

----------------------------------------------------------------------------
(* Failures.                                                               *)

\* A statement fails: the deferred rollback undoes the transaction.
StatementFails(h) ==
  /\ Faults
  /\ pc[h] \in {"check", "read", "write"} \union TxLabels
  /\ Rollback(h, 500)

\* The process dies; the database aborts its open transactions.
Crash ==
  /\ Faults
  /\ pc' = [h \in Handlers |-> Idle]
  /\ call' = [h \in Handlers |-> {}]
  /\ reply' = [h \in Handlers |-> 0]
  /\ draft' = [h \in Handlers |-> NoBeer]
  /\ lock' = [b \in Beers |-> NoHandler]
  /\ UNCHANGED <<row, events, cache, last, numCalls>>

----------------------------------------------------------------------------
Arrive(h) ==
  \/ ReceiveCreate(h)
  \/ ReceiveForm(h)
  \/ ReceiveDelete(h)
  \/ ReceiveApproval(h)
  \/ ReceiveComment(h)
  \/ ReceiveUncomment(h)
  \/ ReceiveLike(h)

\* The steps a handler takes once it has its request.
Serve(h) ==
  \/ Check(h)
  \/ ReadForUpdate(h)
  \/ Edit(h)
  \/ Write(h)
  \/ LogEvent(h)
  \/ Commit(h)
  \/ PublishCache(h)
  \/ Respond(h)

Next ==
  \/ \E h \in Handlers : \/ Arrive(h)
                         \/ SubmitForm(h)
                         \/ Serve(h)
                         \/ CommitUnacknowledged(h)
                         \/ StatementFails(h)
  \/ Crash

Spec == Init /\ [][Next]_vars

\* A handler that can take a step takes it; PostgreSQL queues the waiters of
\* a row lock, so a waiter whose lock is free time and again gets it.
Fairness == \A h \in Handlers : SF_vars(Serve(h))

FairSpec == Spec /\ Fairness

----------------------------------------------------------------------------
TypeOK ==
  /\ row \in [Beers -> {NoBeer} \union Row]
  /\ events \subseteq Event
  /\ cache \subseteq Event
  /\ last \subseteq [n : CallIds, beer : Beers, type : AllOps, by : Users]
  /\ lock \in [Beers -> Handlers \union {NoHandler}]
  /\ pc \in [Handlers -> Labels]
  /\ call \in [Handlers -> SUBSET Call]
  /\ draft \in [Handlers -> {NoBeer} \union Row]
  /\ reply \in [Handlers -> 0 .. 599]
  /\ numCalls \in 0 .. MaxCalls

\* A row lock is held exactly while its handler is inside its transaction on
\* that beer: no early return, failed statement or crash leaks one, and no two
\* handlers ever edit the same row.
LocksMatchTransactions ==
  \A h \in Handlers :
    {b \in Beers : lock[b] = h} =
      IF pc[h] \in TxLabels THEN {c.beer : c \in call[h]} ELSE {}

\* A change the client was told has succeeded is recorded: its event is in
\* the table the moment the 200 is decided, and it stays there, whatever fails
\* later, as long as its beer does.  Only the deletion of the beer, which an
\* approved request brings about while others are served, takes it away.
AcknowledgedIsRecorded ==
  EventsOn => \A h \in Handlers :
    pc[h] = "done" /\ reply[h] = 200 =>
      \A c \in call[h] : \/ c.op = "approve"
                         \/ EventOf(c) \in events
                         \/ row[c.beer] = NoBeer

\* Redis is never ahead of the database: of a beer that exists it holds only
\* events of committed changes.  (Of a beer that was deleted it keeps them
\* until they expire, when the cascade has long removed the rows.)
CacheIsBacked ==
  EventsOn => \A e \in cache : e \in events \/ row[e.beer] = NoBeer

\* m is still there: the same comment by the same author, liked by all who
\* liked it, its counter moved by exactly the likes its list gained.
Kept(m, cs) ==
  \E k \in cs : /\ k.id = m.id /\ k.author = m.author
               /\ m.likedBy \subseteq k.likedBy
               /\ k.likes = m.likes + Cardinality(k.likedBy \ m.likedBy)

\* What the transaction about to commit on beer b does.
Commits(b, P(_)) ==
  \E h \in Handlers : pc[h] = "commit" /\ \E c \in call[h] : c.beer = b /\ P(c)

AdminRemoves(b, m) ==
  Commits(b, LAMBDA c : c.op = "uncomment" /\ c.by \in Admins /\ c.target = m.id)

\* A comment, its author and its likes outlive every comment operation on the
\* beer, concurrent, failing or interrupted, and no like is counted twice or
\* lost, unless an administrator deletes that very comment.  (An update
\* replaces the list: see OnlyAdminsRemove.)
CommentsSurvive ==
  [][\A b \in Beers : row[b] # NoBeer /\ row'[b] # NoBeer =>
       \A m \in row[b].comments :
         \/ Kept(m, row'[b].comments)
         \/ AdminRemoves(b, m)
         \/ Commits(b, LAMBDA c : c.op = "update")]_vars

\* Nobody but an administrator makes a comment of an existing beer disappear.
OnlyAdminsRemove ==
  [][\A b \in Beers : row[b] # NoBeer /\ row'[b] # NoBeer =>
       \A m \in row[b].comments :
         \/ Kept(m, row'[b].comments)
         \/ Commits(b, LAMBDA c : c.by \in Admins)]_vars

\* Create refuses a name the catalogue already has.
CreatedNameIsNew ==
  [][\A a, b \in Beers : row[a] # NoBeer /\ row[b] = NoBeer /\ row'[b] # NoBeer =>
       row'[b].name # row[a].name]_vars

\* An administrator's request to delete a beer does not end in a server error
\* while the database is healthy.
DeletionHonoured ==
  \A h \in Handlers : \A c \in call[h] :
    pc[h] = "done" /\ c.op = "delete" => reply[h] # 500

\* Every request whose body has arrived is answered: no handler waits for
\* ever for a row lock.
EveryRequestAnswered ==
  \A h \in Handlers : pc[h] \notin {Idle, "form"} ~> pc[h] = Idle

\* Every behaviour of the transactions is one of BeerBoard: the changes
\* happen one at a time and whole, each together with its event and by a caller
\* who may make it.  `last` tells the board whose change it is, so that without
\* the event store, too, a step is held to what its own request may do.
Board == INSTANCE BeerBoard
           WITH board <- row, log <- events, Types <- AllOps, Logging <- EventsOn

Implements == Board!Spec
=============================================================================
