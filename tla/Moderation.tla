----------------------------- MODULE Moderation -----------------------------
(***************************************************************************)
(* Reports and deletion requests: internal/beer/usecase/                   *)
(* moderation_usecase.go over internal/beer/repository/                    *)
(* moderation_repository.go, with the two other deletions that reach their *)
(* tables through foreign keys: an administrator's DELETE of a beer and    *)
(* the deletion of an account.                                             *)
(*                                                                         *)
(* Filing and resolving a report are single statements.  Deciding a        *)
(* deletion request is a transaction of up to three: mark the request,     *)
(* look it up among the newest ones, delete its beer.  `holds` are the     *)
(* row locks of open transactions; what a transaction has not committed    *)
(* follows from its label.  Reports and requests are rows of one shape.    *)
(***************************************************************************)
EXTENDS Integers, FiniteSets

CONSTANTS
  Users,      \* people with an account at the start
  Admins,     \* those whose token carries role admin
  Beers,
  Handlers,   \* handler goroutines
  Faults,     \* statements fail, acknowledgements are lost
  Backlog,    \* rows that may be there at the start, with numbers up to Filed
  Filed,
  MaxCalls,   \* model bound: requests per behaviour
  Nobody      \* resolved_by / reviewed_by IS NULL; no beer picked yet

VARIABLES
  beers,      \* table beers: the ids that exist
  accounts,   \* table beerUsers
  filed,      \* tables beer_reports and beer_deletion_requests
  holds,      \* row locks of each handler's transaction
  pc, job,    \* where each handler is and the request it serves
  target,     \* the Go variable `target`: the beer the handler is to delete
  reply,
  numCalls,
  history     \* every row ever filed (not part of the program)

tables == <<beers, accounts, filed>>
vars == <<beers, accounts, filed, holds, pc, job, target, reply, numCalls, history>>

Kinds == {"report", "request"}
Initial(kind) == IF kind = "report" THEN "open" ELSE "pending"
Verdicts(kind) == IF kind = "report" THEN {"resolved", "dismissed"} ELSE {"approved", "rejected"}

Ids == 1 .. Filed + MaxCalls

Rows == [kind : Kinds, n : Ids, beer : Beers, user : Users,
         status : {"open", "pending", "resolved", "dismissed", "approved", "rejected"},
         by : Users \union {Nobody}]

Ops == Kinds \union {"resolve", "decide", "remove", "leave"}

Jobs == [op : Ops, n : Ids, by : Users, beer : Beers, row : Ids, user : Users,
         verdict : {"resolved", "dismissed", "approved", "rejected"}]

Labels == {"idle", "file", "resolve", "mark", "find", "delete", "cascade", "commit",
           "leave", "done"}

RowLock(n) == <<"row", n>>
BeerLock(b) == <<"beer", b>>
UserLock(u) == <<"user", u>>      \* FOR KEY SHARE: by whoever has just signed as u

\* No other transaction has locked x.
Free(h, x) == \A g \in Handlers \ {h} : x \notin holds[g]

Open(r) == r.status = Initial(r.kind)

----------------------------------------------------------------------------
Init ==
  /\ beers = Beers
  /\ accounts = Users
  /\ filed \in {f \in SUBSET Backlog :
                  \A r, s \in f : r.n = s.n => r = s}
  /\ history = filed
  /\ holds = [h \in Handlers |-> {}]
  /\ pc = [h \in Handlers |-> "idle"]
  /\ job = [h \in Handlers |-> {}]
  /\ target = [h \in Handlers |-> Nobody]
  /\ reply = [h \in Handlers |-> 0]
  /\ numCalls = 0

Goto(h, l) == pc' = [pc EXCEPT ![h] = l]

Lock(h, xs) == holds' = [holds EXCEPT ![h] = @ \union xs]

\* Mutant: ExecInTx without its deferred Rollback.
End_Forgotten(h, status) ==
  /\ target' = [target EXCEPT ![h] = Nobody]
  /\ reply' = [reply EXCEPT ![h] = status]
  /\ Goto(h, "done")
  /\ UNCHANGED <<holds, job, numCalls>>

\* The transaction, if there is one, is over and the answer decided.
End(h, status) ==
  /\ holds' = [holds EXCEPT ![h] = {}]
  /\ target' = [target EXCEPT ![h] = Nobody]
  /\ reply' = [reply EXCEPT ![h] = status]
  /\ Goto(h, "done")
  /\ UNCHANGED <<job, numCalls>>

Rollback(h, status) == End(h, status) /\ UNCHANGED <<tables, history>>

----------------------------------------------------------------------------
(* Requests.  The body has been validated: only the verdicts of the kind   *)
(* are accepted, and only administrators pass RequireAdmin.                *)

Receive(h, j, l) ==
  /\ pc[h] = "idle"
  /\ numCalls < MaxCalls
  /\ numCalls' = numCalls + 1
  /\ job' = [job EXCEPT ![h] = {j}]
  /\ Goto(h, l)
  /\ UNCHANGED <<tables, history, holds, target, reply>>

\* A request of u; the fields its operation has no use for stay as here.
Req(o, u) ==
  [op |-> o, n |-> Filed + numCalls + 1, by |-> u, beer |-> CHOOSE b \in Beers : TRUE,
   row |-> 1, user |-> u, verdict |-> "rejected"]

\* POST /beers/{id}/reports and /deletion-requests, by any signed-in user.
ReceiveFile(h) ==
  \E k \in Kinds, u \in Users, b \in Beers :
    Receive(h, [Req(k, u) EXCEPT !.beer = b], "file")

\* PATCH /admin/reports/{id}: a report that was listed at some time.
ReceiveResolve(h) ==
  \E u \in Admins, r \in history, v \in Verdicts("report") :
    /\ r.kind = "report"
    /\ Receive(h, [Req("resolve", u) EXCEPT !.row = r.n, !.verdict = v], "resolve")

\* PATCH /admin/deletion-requests/{id}.
ReceiveDecide(h) ==
  \E u \in Admins, r \in history, v \in Verdicts("request") :
    /\ r.kind = "request"
    /\ Receive(h, [Req("decide", u) EXCEPT !.row = r.n, !.verdict = v], "mark")

\* DELETE /beers/{id}.
ReceiveRemove(h) ==
  \E u \in Admins, b \in Beers :
    Receive(h, [Req("remove", u) EXCEPT !.beer = b], "delete")

\* DELETE /users/{id}: oneself, or anybody for an administrator.
ReceiveLeave(h) ==
  \E u, v \in Users :
    /\ u \in Admins \/ u = v
    /\ Receive(h, [Req("leave", u) EXCEPT !.user = v], "leave")

----------------------------------------------------------------------------
(* Single statements.                                                      *)

NewRow(j) == [kind |-> j.op, n |-> j.n, beer |-> j.beer, user |-> j.by,
              status |-> Initial(j.op), by |-> Nobody]

Duplicate(j) ==
  \E r \in filed : r.kind = j.op /\ r.beer = j.beer /\ r.user = j.by /\ Open(r)

\* INSERT: the foreign keys lock the beer, so it waits for whoever is deleting
\* it; a missing beer or account, or an open row of the same person about the
\* same beer, is a database error (500).
File(h) ==
  /\ pc[h] = "file"
  /\ \E j \in job[h] :
       /\ Free(h, BeerLock(j.beer))
       /\ \/ /\ j.beer \notin beers \/ j.by \notin accounts \/ Duplicate(j)
             /\ Rollback(h, 500)
          \/ /\ j.beer \in beers /\ j.by \in accounts /\ ~Duplicate(j)
             /\ filed' = filed \union {NewRow(j)}
             /\ history' = history \union {NewRow(j)}
             /\ End(h, 201)
             /\ UNCHANGED <<beers, accounts>>

Signed(r, j) == [r EXCEPT !.status = j.verdict, !.by = j.by]

\* UPDATE beer_reports: whatever its status was.
Resolve(h) ==
  /\ pc[h] = "resolve"
  /\ \E j \in job[h] :
       /\ Free(h, RowLock(j.row))
       /\ \/ (\A r \in filed : r.n # j.row) /\ Rollback(h, 404)
          \/ (\E r \in filed : r.n = j.row) /\ j.by \notin accounts /\ Rollback(h, 500)
          \/ /\ j.by \in accounts
             /\ \E r \in filed : /\ r.n = j.row
                                 /\ filed' = (filed \ {r}) \union {Signed(r, j)}
             /\ End(h, 200)
             /\ UNCHANGED <<beers, accounts, history>>

\* Mutant: nothing checks who signed what.
Signatures_Ignored(u) == FALSE

\* A decision u signed on a row that does not go away with u's account.
Signatures(u) == \E r \in filed : r.by = u /\ r.user # u

\* DELETE FROM beerUsers: the rows the person filed go too (ON DELETE
\* CASCADE); resolved_by and reviewed_by have no such clause, so a person who
\* has signed decisions about other people's rows cannot leave.  (The rows are
\* taken at once: a statement that waits half-way is one that has not begun.)
Leave(h) ==
  /\ pc[h] = "leave"
  /\ \E j \in job[h] :
       /\ Free(h, UserLock(j.user))
       /\ \A r \in filed : r.user = j.user => Free(h, RowLock(r.n))
       /\ \/ (j.user \notin accounts \/ Signatures(j.user)) /\ Rollback(h, 500)
          \/ /\ j.user \in accounts /\ ~Signatures(j.user)
             /\ accounts' = accounts \ {j.user}
             /\ filed' = {r \in filed : r.user # j.user}
             /\ End(h, 200)
             /\ UNCHANGED <<beers, history>>

----------------------------------------------------------------------------
(* The transaction that decides a deletion request.                        *)

Decides(h, v) == \E j \in job[h] : j.op = "decide" /\ j.verdict = v

\* UPDATE beer_deletion_requests, inside the transaction; the foreign key of
\* reviewed_by keeps the account of whoever signs it from going.
Mark(h) ==
  /\ pc[h] = "mark"
  /\ \E j \in job[h] :
       /\ Free(h, RowLock(j.row))
       /\ \/ (\A r \in filed : r.n # j.row) /\ Rollback(h, 404)
          \/ (\E r \in filed : r.n = j.row) /\ j.by \notin accounts /\ Rollback(h, 500)
          \/ /\ j.by \in accounts
             /\ \E r \in filed : r.n = j.row
             /\ Lock(h, {RowLock(j.row), UserLock(j.by)})
             /\ Goto(h, IF j.verdict = "approved" THEN "find" ELSE "commit")
             /\ UNCHANGED <<tables, history, job, target, reply, numCalls>>

\* GetDeletionRequests without a filter: the rows from position `offset` of
\* ORDER BY created_at DESC, at most `limit`.
GetDeletionRequests(limit, offset) ==
  {r \in filed :
     /\ r.kind = "request"
     /\ Cardinality({s \in filed : s.kind = "request" /\ s.n > r.n})
          \in offset .. offset + limit - 1}

\* Mutant: the rows found are not compared with the request.
Found_Unchecked(j) == GetDeletionRequests(1, 0)

\* The single newest request, if it is the one to decide.
Found(j) == {r \in GetDeletionRequests(1, 0) : r.n = j.row}

Find(h) ==
  /\ pc[h] = "find"
  /\ \E j \in job[h] :
       \/ Found(j) = {} /\ Rollback(h, 404)
       \/ \E r \in Found(j) :
            /\ target' = [target EXCEPT ![h] = r.beer]
            /\ Goto(h, "delete")
            /\ UNCHANGED <<tables, history, holds, job, reply, numCalls>>

\* The beer a handler is to delete: the one found, or the one in the path.
Doomed(h) == IF \E j \in job[h] : j.op = "remove" THEN {j.beer : j \in job[h]} ELSE {target[h]}

\* DELETE FROM beers locks the row ...
Delete(h) ==
  /\ pc[h] = "delete"
  /\ \E b \in Doomed(h) :
       /\ Free(h, BeerLock(b))
       /\ \/ b \notin beers /\ Rollback(h, IF Decides(h, "approved") THEN 500 ELSE 404)
          \/ /\ b \in beers
             /\ Lock(h, {BeerLock(b)})
             /\ Goto(h, "cascade")
             /\ UNCHANGED <<tables, history, job, target, reply, numCalls>>

\* ... and at its end deletes the rows that reference it, waiting for those
\* another transaction has locked.
Cascade(h) ==
  /\ pc[h] = "cascade"
  /\ \A b \in Doomed(h) : \A r \in filed : r.beer = b => Free(h, RowLock(r.n))
  /\ Lock(h, {RowLock(r.n) : r \in {s \in filed : s.beer \in Doomed(h)}})
  /\ Goto(h, "commit")
  /\ UNCHANGED <<tables, history, job, target, reply, numCalls>>

\* Mutant: the rows of the beer stay behind.
Committed_NoCascade(h) ==
  IF Decides(h, "rejected")
    THEN /\ filed' = {IF RowLock(r.n) \in holds[h]
                        THEN Signed(r, CHOOSE j \in job[h] : TRUE) ELSE r : r \in filed}
         /\ UNCHANGED beers
    ELSE /\ beers' = beers \ Doomed(h)
         /\ UNCHANGED filed

\* What COMMIT makes visible: the decision, or the beer and all its rows gone,
\* the approved request among them.
Committed(h) ==
  IF Decides(h, "rejected")
    THEN /\ filed' = {IF RowLock(r.n) \in holds[h]
                        THEN Signed(r, CHOOSE j \in job[h] : TRUE) ELSE r : r \in filed}
         /\ UNCHANGED beers
    ELSE /\ beers' = beers \ Doomed(h)
         /\ filed' = {r \in filed : r.beer \notin Doomed(h)}

Commit(h) ==
  /\ pc[h] = "commit"
  /\ Committed(h)
  /\ End(h, 200)
  /\ UNCHANGED <<accounts, history>>

\* COMMIT took effect and its acknowledgement was lost.
CommitUnacknowledged(h) ==
  /\ Faults
  /\ pc[h] = "commit"
  /\ Committed(h)
  /\ End(h, 500)
  /\ UNCHANGED <<accounts, history>>

----------------------------------------------------------------------------
StatementFails(h) ==
  /\ Faults
  /\ pc[h] \notin {"idle", "done"}
  /\ Rollback(h, 500)

\* g keeps h waiting.
Blocks(g, h) ==
  \/ pc[h] = "mark" /\ \E j \in job[h] : RowLock(j.row) \in holds[g]
  \/ pc[h] = "delete" /\ \E b \in Doomed(h) : BeerLock(b) \in holds[g]
  \/ pc[h] = "cascade" /\ \E r \in filed : r.beer \in Doomed(h) /\ RowLock(r.n) \in holds[g]

\* PostgreSQL aborts one of two transactions that wait for each other.
DeadlockVictim(h) ==
  /\ \E g \in Handlers \ {h} : Blocks(g, h) /\ Blocks(h, g)
  /\ Rollback(h, 500)

Respond(h) ==
  /\ pc[h] = "done"
  /\ Goto(h, "idle")
  /\ job' = [job EXCEPT ![h] = {}]
  /\ reply' = [reply EXCEPT ![h] = 0]
  /\ UNCHANGED <<tables, history, holds, target, numCalls>>

Arrive(h) ==
  \/ ReceiveFile(h)
  \/ ReceiveResolve(h)
  \/ ReceiveDecide(h)
  \/ ReceiveRemove(h)
  \/ ReceiveLeave(h)

Serve(h) ==
  \/ File(h)
  \/ Resolve(h)
  \/ Leave(h)
  \/ Mark(h)
  \/ Find(h)
  \/ Delete(h)
  \/ Cascade(h)
  \/ Commit(h)
  \/ DeadlockVictim(h)
  \/ Respond(h)

Next == \E h \in Handlers : \/ Arrive(h)
                            \/ Serve(h)
                            \/ CommitUnacknowledged(h)
                            \/ StatementFails(h)

Spec == Init /\ [][Next]_vars

\* A handler goes on while it can.  No queue of waiters is assumed: within MaxCalls
\* requests nobody is overtaken for ever.
Fairness == \A h \in Handlers : WF_vars(Serve(h))

----------------------------------------------------------------------------
TypeOK ==
  /\ beers \subseteq Beers
  /\ accounts \subseteq Users
  /\ filed \subseteq Rows
  /\ history \subseteq Rows
  /\ holds \in [Handlers -> SUBSET ({RowLock(n) : n \in Ids} \union {BeerLock(b) : b \in Beers}
                               \union {UserLock(u) : u \in Users})]
  /\ pc \in [Handlers -> Labels]
  /\ job \in [Handlers -> SUBSET Jobs]
  /\ target \in [Handlers -> Beers \union {Nobody}]
  /\ reply \in [Handlers -> 0 .. 599]
  /\ numCalls \in 0 .. MaxCalls

\* No row is about a beer or by a person that is gone, and every decision is
\* signed by somebody who still has an account, however filing, deciding and
\* deleting interleave.
NoDanglingRow ==
  \A r \in filed : r.beer \in beers /\ r.user \in accounts /\ r.by \in accounts \union {Nobody}

\* The beer an approval that is about to commit is for.
Approved(h) ==
  {r.beer : r \in {s \in history : \E j \in job[h] : /\ j.op = "decide" /\ j.verdict = "approved"
                                                     /\ s.n = j.row}}

\* A beer disappears only because an administrator deleted it or approved a
\* request about that very beer.
OnlyJudgedBeersGo ==
  [][\A b \in beers \ beers' :
       \E h \in Handlers : /\ pc[h] = "commit"
                           /\ b \in Approved(h) \/ \E j \in job[h] : j.op = "remove" /\ j.beer = b]_vars

\* An approval that was acknowledged has taken effect.
ApprovalTakesEffect ==
  \A h \in Handlers : pc[h] = "done" /\ reply[h] = 200 => Approved(h) \cap beers = {}

\* Every request is answered: administrators who decide about the same beer at
\* the same time do not wait for each other for ever.
EveryDecisionAnswered == \A h \in Handlers : pc[h] # "idle" ~> pc[h] = "idle"
=============================================================================
