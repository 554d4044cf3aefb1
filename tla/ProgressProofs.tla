--------------------------- MODULE ProgressProofs ---------------------------
(***************************************************************************)
(* What the four components of MCProgress keep to for any number of users, *)
(* beers, handlers, calls, requests and processes: each moves alone, so    *)
(* its own invariant is that of the behaviours in which it stands beside   *)
(* the others.                                                             *)
(***************************************************************************)
EXTENDS MCProgress, BootProofs

----------------------------------------------------------------------------
(* Moderation.                                                             *)

\* The operation a label belongs to.
JobFits(l, j) ==
  /\ l = "file" => j.op \in M!Kinds
  /\ l = "resolve" => j.op = "resolve"
  /\ l = "leave" => j.op = "leave"
  /\ l = "mark" => j.op = "decide"
  /\ l = "find" => j.op = "decide" /\ j.verdict = "approved"
  /\ l \in {"delete", "cascade"} => j.op = "remove" \/ (j.op = "decide" /\ j.verdict = "approved")
  /\ l = "commit" => j.op \in {"remove", "decide"}
  /\ j.op = "decide" => j.verdict \in {"approved", "rejected"}

\* A handler is idle or serves one request.
OneJob ==
  \A h \in Handlers :
    /\ pc[h] = "idle" => job[h] = {}
    /\ pc[h] # "idle" => \E j \in M!Jobs : job[h] = {j} /\ JobFits(pc[h], j)

\* Rows are numbered as they are filed, and a number stands for one beer for ever.
RowsNumbered ==
  /\ \A r \in history : r.n <= 2 + numCalls
  /\ \A r \in filed : \E s \in history : s.n = r.n
  /\ \A r \in filed \union history : \A s \in history : r.n = s.n => r.beer = s.beer

\* The number of a row about to be filed is nobody else's.
JobsNumbered ==
  /\ \A h \in Handlers : \A j \in job[h] :
       /\ j.n <= 2 + numCalls
       /\ pc[h] = "file" => \A s \in history : s.n # j.n
  /\ \A g, h \in Handlers : \A i \in job[g], j \in job[h] : g # h => i.n # j.n

\* A decision is about a row that was filed.  From its mark on, the transaction
\* holds the account of whoever signs it, so that account stays; the beer it is
\* to delete is the one the request was filed about, whatever has become of the
\* row the handler found.
DecisionFits(l, j, locks, b) ==
  j.op = "decide" =>
    /\ \E s \in history : s.n = j.row
    /\ l \in {"find", "delete", "cascade", "commit"}
         => M!UserLock(j.by) \in locks /\ j.by \in accounts
    /\ l \in {"delete", "cascade", "commit"} /\ j.verdict = "approved"
         => \A s \in history : s.n = j.row => s.beer = b

DecisionsFit == \A h \in Handlers : \A j \in job[h] : DecisionFits(pc[h], j, holds[h], target[h])

ModerationInv ==
  /\ M!TypeOK
  /\ OneJob
  /\ RowsNumbered
  /\ JobsNumbered
  /\ DecisionsFit
  /\ NoDanglingRow
  /\ ApprovalTakesEffect

\* The end of a request that files nothing: what is left of the tables was there,
\* no account goes that a transaction holds, and an approval leaves no beer.
LEMMA EndKeeps ==
  ASSUME ModerationInv, NEW h \in Handlers, NEW s \in 0 .. 599, pc[h] # "idle",
         M!End(h, s), UNCHANGED history,
         beers' \subseteq beers, accounts' \subseteq accounts, filed' \subseteq M!Rows,
         \A r \in filed' : \E q \in filed : q.n = r.n /\ q.beer = r.beer,
         \A g \in Handlers \ {h} : \A u \in accounts \ accounts' : M!UserLock(u) \notin holds[g],
         NoDanglingRow',
         s = 200 => M!Approved(h) \cap beers' = {}
  PROVE  ModerationInv'
<1> USE DEF ModerationInv
<1>1. /\ \A g \in Handlers \ {h} : /\ pc'[g] = pc[g] /\ holds'[g] = holds[g]
                                   /\ target'[g] = target[g] /\ reply'[g] = reply[g]
      /\ pc'[h] = "done" /\ reply'[h] = s
      /\ job' = job /\ numCalls' = numCalls /\ history' = history
  BY DEF M!End, M!Goto, M!TypeOK
<1>2. M!TypeOK'
  BY DEF M!End, M!Goto, M!TypeOK, M!Labels
<1>3. OneJob'
  BY <1>1 DEF OneJob, JobFits
<1>4. RowsNumbered'
  BY <1>1 DEF RowsNumbered
<1>5. JobsNumbered'
  BY <1>1 DEF JobsNumbered
<1>6. DecisionsFit'
  BY <1>1 DEF DecisionsFit, DecisionFits
<1>7. \A g \in Handlers : M!Approved(g)' = M!Approved(g)
  BY <1>1 DEF M!Approved
<1>8. ApprovalTakesEffect'
  BY <1>1, <1>7 DEF ApprovalTakesEffect, M!ApprovalTakesEffect
<1> QED BY <1>2, <1>3, <1>4, <1>5, <1>6, <1>8

LEMMA ModerationRollback ==
  ASSUME ModerationInv, NEW h \in Handlers, NEW s \in 400 .. 599, pc[h] # "idle", M!Rollback(h, s)
  PROVE  ModerationInv'
<1>1. M!End(h, s) /\ UNCHANGED <<beers, accounts, filed, history>>
  BY DEF M!Rollback, M!tables
<1>2. filed' \subseteq M!Rows /\ NoDanglingRow'
  BY <1>1 DEF ModerationInv, M!TypeOK, NoDanglingRow, M!NoDanglingRow
<1>3. \A r \in filed' : \E q \in filed : q.n = r.n /\ q.beer = r.beer
  BY <1>1
<1>4. accounts \ accounts' = {} /\ s \in 0 .. 599 /\ s # 200
  BY <1>1
<1> QED BY <1>1, <1>2, <1>3, <1>4, EndKeeps

Locks == {M!RowLock(n) : n \in M!Ids} \union {M!BeerLock(b) : b \in Beers}
         \union {M!UserLock(u) : u \in Users}

\* A transaction that goes on: it keeps its locks and publishes nothing.
LEMMA MoveKeeps ==
  ASSUME ModerationInv, NEW h \in Handlers, pc[h] # "idle",
         NEW l \in {"find", "delete", "cascade", "commit"}, pc' = [pc EXCEPT ![h] = l],
         NEW locks \in SUBSET Locks,
         holds' = [holds EXCEPT ![h] = locks],
         NEW b \in Beers \union {Nobody}, target' = [target EXCEPT ![h] = b],
         UNCHANGED <<beers, accounts, filed, history, job, reply, numCalls>>,
         \A j \in job[h] : JobFits(l, j) /\ DecisionFits(l, j, locks, b)
  PROVE  ModerationInv'
<1> USE DEF ModerationInv
<1>1. /\ \A g \in Handlers \ {h} : /\ pc'[g] = pc[g] /\ holds'[g] = holds[g]
                                   /\ target'[g] = target[g]
      /\ pc'[h] = l /\ holds'[h] = locks /\ target'[h] = b
      /\ beers' = beers /\ accounts' = accounts /\ filed' = filed /\ history' = history
      /\ job' = job /\ reply' = reply /\ numCalls' = numCalls
  BY DEF M!TypeOK
<1>2. M!TypeOK'
  BY DEF M!TypeOK, M!Labels, Locks
<1>3. OneJob'
  BY <1>1 DEF OneJob
<1>4. RowsNumbered'
  BY <1>1 DEF RowsNumbered
<1>5. JobsNumbered'
  BY <1>1 DEF JobsNumbered
<1>6. DecisionsFit'
  BY <1>1 DEF DecisionsFit, DecisionFits
<1>7. NoDanglingRow'
  BY <1>1 DEF NoDanglingRow, M!NoDanglingRow
<1>8. ApprovalTakesEffect'
  BY <1>1 DEF ApprovalTakesEffect, M!ApprovalTakesEffect, M!Approved
<1> QED BY <1>2, <1>3, <1>4, <1>5, <1>6, <1>7, <1>8

LEMMA ReceiveKeepsModeration ==
  ASSUME ModerationInv, NEW h \in Handlers, NEW j \in M!Jobs,
         NEW l \in {"file", "resolve", "mark", "delete", "leave"}, M!Receive(h, j, l),
         j.n = 2 + numCalls + 1, JobFits(l, j),
         j.op = "decide" => l = "mark" /\ \E s \in history : s.n = j.row
  PROVE  ModerationInv'
<1> USE DEF ModerationInv
<1>1. /\ \A g \in Handlers \ {h} : pc'[g] = pc[g] /\ job'[g] = job[g]
      /\ pc'[h] = l /\ job'[h] = {j}
      /\ beers' = beers /\ accounts' = accounts /\ filed' = filed /\ history' = history
      /\ holds' = holds /\ target' = target /\ reply' = reply
      /\ numCalls' = numCalls + 1 /\ numCalls \in Int /\ numCalls' \in 0 .. MaxCalls
  BY ProgressAssumption DEF ProgressAssumption, M!Receive, M!Goto, M!TypeOK, M!tables
<1>2. M!TypeOK'
  BY <1>1 DEF M!Receive, M!Goto, M!TypeOK, M!Labels
<1>3. OneJob'
  BY <1>1 DEF OneJob
<1>4. \A r \in history : r.n \in Int
  BY DEF M!TypeOK, M!Rows, M!Ids
<1>5. RowsNumbered'
  BY <1>1, <1>4 DEF RowsNumbered
<1>6. JobsNumbered'
  <2>1. ASSUME NEW g \in Handlers, NEW i \in job'[g]
        PROVE  /\ i.n \in Int
               /\ g # h => i \in job[g] /\ i.n <= 2 + numCalls
               /\ g = h => i.n = 2 + numCalls'
    <3>1. i.n \in Int
      BY <1>2 DEF M!TypeOK, M!Jobs, M!Ids
    <3> QED BY <1>1, <2>1, <3>1 DEF JobsNumbered
  <2>2. ASSUME NEW g \in Handlers, NEW k \in Handlers, NEW i \in job'[g], NEW m \in job'[k],
               g # k
        PROVE  i.n # m.n
    BY <1>1, <2>1, <2>2 DEF JobsNumbered
  <2>3. \A s \in history : s.n # j.n
    BY <1>1, <1>4 DEF RowsNumbered
  <2> QED BY <1>1, <2>1, <2>2, <2>3 DEF JobsNumbered
<1>7. DecisionsFit'
  <2>1. DecisionFits(l, j, holds[h], target[h])
    BY DEF DecisionFits
  <2> QED BY <1>1, <2>1 DEF DecisionsFit, DecisionFits
<1>8. NoDanglingRow'
  BY <1>1 DEF NoDanglingRow, M!NoDanglingRow
<1>9. ApprovalTakesEffect'
  BY <1>1 DEF ApprovalTakesEffect, M!ApprovalTakesEffect, M!Approved
<1> QED BY <1>2, <1>3, <1>5, <1>6, <1>7, <1>8, <1>9

\* Requests of operation o are requests, numbered by their arrival.
Asks(q, o) == q \in M!Jobs /\ q.op = o /\ q.n = 2 + numCalls + 1

AsksAbout(q, o, n, v) == Asks(q, o) /\ q.row = n /\ q.verdict = v

LEMMA ModerationRequests ==
  ASSUME M!TypeOK, numCalls < MaxCalls, NEW o \in M!Ops, NEW u \in Users
  PROVE  /\ \A b \in Beers : Asks([M!Req(o, u) EXCEPT !.beer = b], o)
         /\ \A n \in M!Ids, v \in {"resolved", "dismissed", "approved", "rejected"} :
              AsksAbout([M!Req(o, u) EXCEPT !.row = n, !.verdict = v], o, n, v)
         /\ \A v \in Users : Asks([M!Req(o, u) EXCEPT !.user = v], o)
<1>1. 2 + numCalls + 1 \in M!Ids /\ 1 \in M!Ids
  BY ProgressAssumption DEF ProgressAssumption, M!TypeOK, M!Ids
<1>2. (CHOOSE b \in Beers : TRUE) \in Beers
  BY ProgressAssumption DEF ProgressAssumption
<1> DEFINE q == M!Req(o, u)
<1>3. Asks(q, o)
  BY <1>1, <1>2 DEF M!Req, M!Jobs, Asks
<1> HIDE DEF q
<1>4. \A b \in Beers : Asks([q EXCEPT !.beer = b], o)
  BY <1>3 DEF M!Jobs, Asks
<1>5. \A n \in M!Ids, v \in {"resolved", "dismissed", "approved", "rejected"} :
        AsksAbout([q EXCEPT !.row = n, !.verdict = v], o, n, v)
  BY <1>3 DEF M!Jobs, Asks, AsksAbout
<1>6. \A v \in Users : Asks([q EXCEPT !.user = v], o)
  BY <1>3 DEF M!Jobs, Asks
<1> QED BY <1>4, <1>5, <1>6 DEF q

LEMMA ModerationArrive ==
  ASSUME ModerationInv, NEW h \in Handlers, M!Arrive(h)
  PROVE  ModerationInv'
<1>0. Admins \subseteq Users /\ M!TypeOK
  BY ProgressAssumption DEF ProgressAssumption, ModerationInv
<1>1. CASE M!ReceiveFile(h)
  <2>1. PICK k \in M!Kinds, u \in Users, b \in Beers :
          M!Receive(h, [M!Req(k, u) EXCEPT !.beer = b], "file")
    BY <1>1 DEF M!ReceiveFile
  <2> DEFINE q == [M!Req(k, u) EXCEPT !.beer = b]
  <2>2. numCalls < MaxCalls /\ k \in M!Ops
    BY <2>1 DEF M!Receive, M!Ops
  <2>3. Asks(q, k)
    BY <1>0, <2>2, ModerationRequests
  <2> HIDE DEF q
  <2>4. JobFits("file", q) /\ q.op # "decide"
    BY <2>3 DEF JobFits, M!Kinds, Asks
  <2> QED BY <2>1, <2>3, <2>4, ReceiveKeepsModeration DEF q, Asks
<1>2. CASE M!ReceiveResolve(h) \/ M!ReceiveDecide(h)
  <2>1. PICK u \in Admins, r \in history, o \in {"resolve", "decide"},
             v \in {"resolved", "dismissed", "approved", "rejected"},
             l \in {"resolve", "mark"} :
          /\ M!Receive(h, [M!Req(o, u) EXCEPT !.row = r.n, !.verdict = v], l)
          /\ IF l = "mark" THEN o = "decide" /\ v \in {"approved", "rejected"} ELSE o = "resolve"
    BY <1>2 DEF M!ReceiveResolve, M!ReceiveDecide, M!Verdicts
  <2> DEFINE q == [M!Req(o, u) EXCEPT !.row = r.n, !.verdict = v]
  <2>2. numCalls < MaxCalls /\ o \in M!Ops /\ u \in Users /\ r.n \in M!Ids
    BY <1>0, <2>1 DEF M!Receive, M!Ops, M!TypeOK, M!Rows
  <2>3. AsksAbout(q, o, r.n, v)
    BY <1>0, <2>2, ModerationRequests
  <2> HIDE DEF q
  <2>4. JobFits(l, q) /\ (q.op = "decide" => l = "mark" /\ \E s \in history : s.n = q.row)
    BY <2>1, <2>3 DEF JobFits, M!Kinds, Asks, AsksAbout
  <2> QED BY <2>1, <2>3, <2>4, ReceiveKeepsModeration DEF q, Asks, AsksAbout
<1>3. CASE M!ReceiveRemove(h)
  <2>1. PICK u \in Admins, b \in Beers :
          M!Receive(h, [M!Req("remove", u) EXCEPT !.beer = b], "delete")
    BY <1>3 DEF M!ReceiveRemove
  <2> DEFINE q == [M!Req("remove", u) EXCEPT !.beer = b]
  <2>2. numCalls < MaxCalls /\ "remove" \in M!Ops /\ u \in Users
    BY <1>0, <2>1 DEF M!Receive, M!Ops
  <2>3. Asks(q, "remove")
    BY <1>0, <2>2, ModerationRequests
  <2> HIDE DEF q
  <2>4. JobFits("delete", q) /\ q.op # "decide"
    BY <2>3 DEF JobFits, Asks
  <2> QED BY <2>1, <2>3, <2>4, ReceiveKeepsModeration DEF q, Asks
<1>4. CASE M!ReceiveLeave(h)
  <2>1. PICK u \in Users, v \in Users :
          M!Receive(h, [M!Req("leave", u) EXCEPT !.user = v], "leave")
    BY <1>4 DEF M!ReceiveLeave
  <2> DEFINE q == [M!Req("leave", u) EXCEPT !.user = v]
  <2>2. numCalls < MaxCalls /\ "leave" \in M!Ops
    BY <2>1 DEF M!Receive, M!Ops
  <2>3. Asks(q, "leave")
    BY <1>0, <2>2, ModerationRequests
  <2> HIDE DEF q
  <2>4. JobFits("leave", q) /\ q.op # "decide"
    BY <2>3 DEF JobFits, Asks
  <2> QED BY <2>1, <2>3, <2>4, ReceiveKeepsModeration DEF q, Asks
<1> QED BY <1>1, <1>2, <1>3, <1>4 DEF M!Arrive

\* Filing: the new row has a number of its own, about a beer and by a person
\* that are there.
LEMMA FileKeeps ==
  ASSUME ModerationInv, NEW h \in Handlers, M!File(h)
  PROVE  ModerationInv'
<1> USE DEF ModerationInv
<1>1. pc[h] = "file"
  BY DEF M!File
<1>2. PICK j \in job[h] :
        \/ M!Rollback(h, 500)
        \/ /\ j.beer \in beers /\ j.by \in accounts
           /\ filed' = filed \union {M!NewRow(j)}
           /\ history' = history \union {M!NewRow(j)}
           /\ M!End(h, 201)
           /\ UNCHANGED <<beers, accounts>>
  BY DEF M!File
<1>3. CASE M!Rollback(h, 500)
  BY <1>1, <1>3, ModerationRollback
<1>4. CASE ~M!Rollback(h, 500)
  <2> DEFINE new == M!NewRow(j)
  <2>0. j \in M!Jobs /\ j.op \in M!Kinds /\ job[h] = {j}
    BY <1>1 DEF OneJob, JobFits
  <2>1. /\ new \in M!Rows /\ new.n = j.n /\ new.beer = j.beer /\ new.user = j.by /\ new.by = Nobody
    BY <2>0 DEF M!NewRow, M!Rows, M!Jobs, M!Initial, M!Kinds
  <2> HIDE DEF new
  <2>2. /\ filed' = filed \union {new} /\ history' = history \union {new}
        /\ j.beer \in beers /\ j.by \in accounts
        /\ beers' = beers /\ accounts' = accounts
        /\ \A g \in Handlers \ {h} : /\ pc'[g] = pc[g] /\ holds'[g] = holds[g]
                                     /\ target'[g] = target[g] /\ reply'[g] = reply[g]
        /\ pc'[h] = "done" /\ reply'[h] = 201
        /\ job' = job /\ numCalls' = numCalls
    BY <1>2, <1>4 DEF M!End, M!Goto, M!TypeOK, new
  <2>3. \A s \in history : s.n # new.n
    BY <1>1, <2>1 DEF JobsNumbered
  <2>4. M!TypeOK'
    BY <1>2, <1>4, <2>1, <2>2 DEF M!End, M!Goto, M!TypeOK, M!Labels
  <2>5. OneJob'
    BY <2>2 DEF OneJob, JobFits
  <2>6. RowsNumbered'
    <3>1. new.n <= 2 + numCalls
      BY <2>1 DEF JobsNumbered
    <3>2. \A r \in filed : r.n # new.n
      BY <2>3 DEF RowsNumbered
    <3> QED BY <2>2, <2>3, <3>1, <3>2 DEF RowsNumbered
  <2>7. JobsNumbered'
    BY <2>0, <2>1, <2>2 DEF JobsNumbered
  <2>8. ASSUME NEW g \in Handlers, NEW i \in job[g], i.op = "decide" PROVE i.row # new.n
    BY <2>3, <2>8 DEF DecisionsFit, DecisionFits
  <2>9. DecisionsFit'
    BY <2>0, <2>2, <2>8 DEF DecisionsFit, DecisionFits, M!Kinds
  <2>10. NoDanglingRow'
    BY <2>1, <2>2 DEF NoDanglingRow, M!NoDanglingRow
  <2>11. \A g \in Handlers : M!Approved(g)' = M!Approved(g)
    BY <2>2, <2>8 DEF M!Approved
  <2>12. ApprovalTakesEffect'
    BY <2>2, <2>11 DEF ApprovalTakesEffect, M!ApprovalTakesEffect
  <2> QED BY <2>4, <2>5, <2>6, <2>7, <2>9, <2>10, <2>12
<1> QED BY <1>3, <1>4

\* A row that is signed stays the row it was.
LEMMA SignedRow ==
  ASSUME NEW r \in M!Rows, NEW j \in M!Jobs, j.by \in Users
  PROVE  /\ M!Signed(r, j) \in M!Rows /\ M!Signed(r, j).n = r.n /\ M!Signed(r, j).beer = r.beer
         /\ M!Signed(r, j).user = r.user /\ M!Signed(r, j).by = j.by
BY DEF M!Signed, M!Rows, M!Jobs

LEMMA NotApproving ==
  ASSUME NEW h \in Handlers, \A j \in job[h] : ~(j.op = "decide" /\ j.verdict = "approved")
  PROVE  M!Approved(h) = {}
BY DEF M!Approved

LEMMA ResolveKeeps ==
  ASSUME ModerationInv, NEW h \in Handlers, M!Resolve(h)
  PROVE  ModerationInv'
<1> USE DEF ModerationInv
<1>1. pc[h] = "resolve"
  BY DEF M!Resolve
<1>2. PICK j \in job[h] :
        \/ M!Rollback(h, 404) \/ M!Rollback(h, 500)
        \/ /\ j.by \in accounts
           /\ \E r \in filed : filed' = (filed \ {r}) \union {M!Signed(r, j)}
           /\ M!End(h, 200)
           /\ UNCHANGED <<beers, accounts, history>>
  BY DEF M!Resolve
<1>3. CASE M!Rollback(h, 404) \/ M!Rollback(h, 500)
  BY <1>1, <1>3, ModerationRollback
<1>4. CASE ~(M!Rollback(h, 404) \/ M!Rollback(h, 500))
  <2>1. PICK r \in filed : filed' = (filed \ {r}) \union {M!Signed(r, j)}
    BY <1>2, <1>4
  <2>2. j \in M!Jobs /\ j.by \in Users /\ j.op = "resolve" /\ job[h] = {j} /\ r \in M!Rows
    BY <1>1 DEF OneJob, JobFits, M!TypeOK, M!Jobs
  <2> DEFINE k == M!Signed(r, j)
  <2>3. k \in M!Rows /\ k.n = r.n /\ k.beer = r.beer /\ k.user = r.user /\ k.by = j.by
    BY <2>2, SignedRow
  <2> HIDE DEF k
  <2>4. filed' = (filed \ {r}) \union {k}
    BY <2>1 DEF k
  <2>5. filed' \subseteq M!Rows /\ \A s \in filed' : \E q \in filed : q.n = s.n /\ q.beer = s.beer
    BY <2>3, <2>4 DEF M!TypeOK
  <2>6. NoDanglingRow'
    BY <1>2, <1>4, <2>3, <2>4 DEF NoDanglingRow, M!NoDanglingRow
  <2>7. M!Approved(h) = {}
    BY <2>2, NotApproving
  <2>8. accounts \ accounts' = {} /\ 200 \in 0 .. 599
    BY <1>2, <1>4
  <2> QED BY <1>1, <1>2, <1>4, <2>5, <2>6, <2>7, <2>8, EndKeeps
<1> QED BY <1>3, <1>4

\* Whoever leaves has signed nothing that stays, and no open transaction either.
LEMMA LeaveKeeps ==
  ASSUME ModerationInv, NEW h \in Handlers, M!Leave(h)
  PROVE  ModerationInv'
<1> USE DEF ModerationInv
<1>1. pc[h] = "leave"
  BY DEF M!Leave
<1>2. PICK j \in job[h] :
        /\ M!Free(h, M!UserLock(j.user))
        /\ \/ M!Rollback(h, 500)
           \/ /\ ~M!Signatures(j.user)
              /\ accounts' = accounts \ {j.user}
              /\ filed' = {r \in filed : r.user # j.user}
              /\ M!End(h, 200)
              /\ UNCHANGED <<beers, history>>
  BY DEF M!Leave
<1>3. CASE M!Rollback(h, 500)
  BY <1>1, <1>3, ModerationRollback
<1>4. CASE ~M!Rollback(h, 500)
  <2>1. job[h] = {j} /\ j.op = "leave"
    BY <1>1 DEF OneJob, JobFits
  <2>2. M!Approved(h) = {}
    BY <2>1, NotApproving
  <2>3. NoDanglingRow'
    BY <1>2, <1>4 DEF NoDanglingRow, M!NoDanglingRow, M!Signatures
  <2>4. \A g \in Handlers \ {h} : \A u \in accounts \ accounts' : M!UserLock(u) \notin holds[g]
    BY <1>2, <1>4 DEF M!Free
  <2>5. filed' \subseteq M!Rows /\ \A r \in filed' : \E q \in filed : q.n = r.n /\ q.beer = r.beer
    BY <1>2, <1>4 DEF M!TypeOK
  <2>6. 200 \in 0 .. 599
    OBVIOUS
  <2> QED BY <1>1, <1>2, <1>4, <2>2, <2>3, <2>4, <2>5, <2>6, EndKeeps
<1> QED BY <1>3, <1>4

----------------------------------------------------------------------------
(* The transaction that decides.                                           *)

MarkLocks(j) == {M!RowLock(j.row), M!UserLock(j.by)}

LEMMA MarkKeeps ==
  ASSUME ModerationInv, NEW h \in Handlers, M!Mark(h)
  PROVE  ModerationInv'
<1> USE DEF ModerationInv
<1>1. pc[h] = "mark"
  BY DEF M!Mark
<1>2. PICK j \in job[h] :
        \/ M!Rollback(h, 404) \/ M!Rollback(h, 500)
        \/ /\ j.by \in accounts
           /\ holds' = [holds EXCEPT ![h] = @ \union MarkLocks(j)]
           /\ pc' = [pc EXCEPT ![h] = IF j.verdict = "approved" THEN "find" ELSE "commit"]
           /\ UNCHANGED <<beers, accounts, filed, history, job, target, reply, numCalls>>
  BY DEF M!Mark, M!Lock, M!Goto, M!tables, MarkLocks
<1>3. CASE M!Rollback(h, 404) \/ M!Rollback(h, 500)
  BY <1>1, <1>3, ModerationRollback
<1>4. CASE ~(M!Rollback(h, 404) \/ M!Rollback(h, 500))
  <2>1. /\ j \in M!Jobs /\ j.op = "decide" /\ job[h] = {j} /\ j.verdict \in {"approved", "rejected"}
        /\ \E s \in history : s.n = j.row
    BY <1>1 DEF OneJob, JobFits, DecisionsFit, DecisionFits
  <2> DEFINE l == IF j.verdict = "approved" THEN "find" ELSE "commit"
             locks == holds[h] \union MarkLocks(j)
  <2>2. l \in {"find", "commit"} /\ (l = "find" => j.verdict = "approved")
        /\ (l = "commit" => j.verdict # "approved")
    OBVIOUS
  <2>3. locks \in SUBSET Locks
    BY <2>1 DEF M!TypeOK, M!Jobs, MarkLocks, Locks
  <2>4. M!UserLock(j.by) \in locks /\ j.by \in accounts
    BY <1>2, <1>4 DEF MarkLocks
  <2>5. /\ holds' = [holds EXCEPT ![h] = locks] /\ pc' = [pc EXCEPT ![h] = l]
        /\ target' = [target EXCEPT ![h] = target[h]] /\ target[h] \in Beers \union {Nobody}
        /\ UNCHANGED <<beers, accounts, filed, history, job, reply, numCalls>>
    BY <1>2, <1>4 DEF M!TypeOK
  <2> HIDE DEF l, locks
  <2>6. \A i \in job[h] : JobFits(l, i) /\ DecisionFits(l, i, locks, target[h])
    BY <2>1, <2>2, <2>4 DEF JobFits, DecisionFits
  <2> QED BY <1>1, <2>2, <2>3, <2>5, <2>6, MoveKeeps
<1> QED BY <1>3, <1>4

\* The row found is the one to decide, so its beer is the one it was filed about.
LEMMA FindKeeps ==
  ASSUME ModerationInv, NEW h \in Handlers, M!Find(h)
  PROVE  ModerationInv'
<1> USE DEF ModerationInv
<1>1. pc[h] = "find"
  BY DEF M!Find
<1>2. PICK j \in job[h] :
        \/ M!Rollback(h, 404)
        \/ \E r \in M!Found(j) :
             /\ target' = [target EXCEPT ![h] = r.beer]
             /\ pc' = [pc EXCEPT ![h] = "delete"]
             /\ UNCHANGED <<beers, accounts, filed, history, holds, job, reply, numCalls>>
  BY DEF M!Find, M!Goto, M!tables
<1>3. CASE M!Rollback(h, 404)
  BY <1>1, <1>3, ModerationRollback
<1>4. CASE ~M!Rollback(h, 404)
  <2>1. PICK r \in filed :
          /\ r.n = j.row
          /\ target' = [target EXCEPT ![h] = r.beer]
          /\ pc' = [pc EXCEPT ![h] = "delete"]
          /\ UNCHANGED <<beers, accounts, filed, history, holds, job, reply, numCalls>>
    BY <1>2, <1>4 DEF M!Found, M!GetDeletionRequests
  <2>2. r.beer \in Beers /\ \A s \in history : s.n = j.row => s.beer = r.beer
    BY <2>1 DEF M!TypeOK, M!Rows, RowsNumbered
  <2>3. job[h] = {j} /\ JobFits("find", j) /\ DecisionFits("find", j, holds[h], target[h])
    BY <1>1 DEF OneJob, DecisionsFit
  <2>4. JobFits("delete", j) /\ DecisionFits("delete", j, holds[h], r.beer)
    BY <2>2, <2>3 DEF JobFits, DecisionFits
  <2>5. /\ holds' = [holds EXCEPT ![h] = holds[h]]
        /\ holds[h] \in SUBSET Locks
    BY <2>1 DEF M!TypeOK, Locks
  <2>6. \A i \in job[h] : JobFits("delete", i) /\ DecisionFits("delete", i, holds[h], r.beer)
    BY <2>3, <2>4
  <2> QED BY <1>1, <2>1, <2>2, <2>5, <2>6, MoveKeeps
<1> QED BY <1>3, <1>4

\* Both halves of the DELETE only add locks.
LEMMA DeleteKeeps ==
  ASSUME ModerationInv, NEW h \in Handlers, M!Delete(h) \/ M!Cascade(h)
  PROVE  ModerationInv'
<1> USE DEF ModerationInv
<1>1. pc[h] \in {"delete", "cascade"}
  BY DEF M!Delete, M!Cascade
<1>2. CASE M!Rollback(h, 404) \/ M!Rollback(h, 500)
  BY <1>1, <1>2, ModerationRollback
<1>3. CASE ~(M!Rollback(h, 404) \/ M!Rollback(h, 500))
  <2>1. PICK xs \in SUBSET Locks, l \in {"cascade", "commit"} :
          /\ holds' = [holds EXCEPT ![h] = @ \union xs] /\ pc' = [pc EXCEPT ![h] = l]
          /\ UNCHANGED <<beers, accounts, filed, history, job, target, reply, numCalls>>
    <3>1. CASE M!Delete(h)
      <4>1. PICK b \in beers : /\ holds' = [holds EXCEPT ![h] = @ \union {M!BeerLock(b)}]
                               /\ pc' = [pc EXCEPT ![h] = "cascade"]
                               /\ UNCHANGED <<beers, accounts, filed, history, job, target, reply, numCalls>>
        BY <1>3, <3>1 DEF M!Delete, M!Lock, M!Goto, M!tables
      <4>2. {M!BeerLock(b)} \in SUBSET Locks
        BY DEF M!TypeOK, Locks
      <4> QED BY <4>1, <4>2
    <3>2. CASE M!Cascade(h)
      <4> DEFINE xs == {M!RowLock(r.n) : r \in {s \in filed : s.beer \in M!Doomed(h)}}
      <4>1. xs \in SUBSET Locks
        BY DEF M!TypeOK, M!Rows, Locks
      <4>2. /\ holds' = [holds EXCEPT ![h] = @ \union xs] /\ pc' = [pc EXCEPT ![h] = "commit"]
            /\ UNCHANGED <<beers, accounts, filed, history, job, target, reply, numCalls>>
        BY <3>2 DEF M!Cascade, M!Lock, M!Goto, M!tables
      <4> QED BY <4>1, <4>2
    <3> QED BY <3>1, <3>2
  <2>2. PICK j \in M!Jobs : job[h] = {j} /\ JobFits(pc[h], j) /\ DecisionFits(pc[h], j, holds[h], target[h])
    BY <1>1 DEF OneJob, DecisionsFit
  <2>3. \A i \in job[h] : JobFits(l, i) /\ DecisionFits(l, i, holds[h] \union xs, target[h])
    BY <1>1, <2>2 DEF JobFits, DecisionFits
  <2> DEFINE locks == holds[h] \union xs
  <2>4. /\ locks \in SUBSET Locks /\ target[h] \in Beers \union {Nobody}
        /\ holds' = [holds EXCEPT ![h] = locks]
        /\ target' = [target EXCEPT ![h] = target[h]]
    BY <2>1 DEF M!TypeOK, Locks
  <2>5. l \in {"find", "delete", "cascade", "commit"} /\ pc[h] # "idle"
    BY <1>1
  <2>6. \A i \in job[h] : JobFits(l, i) /\ DecisionFits(l, i, locks, target[h])
    BY <2>3
  <2> HIDE DEF locks
  <2> QED BY <2>1, <2>4, <2>5, <2>6, MoveKeeps
<1> QED BY <1>2, <1>3

\* The two outcomes of a COMMIT: a rejection signs the locked row, and everything
\* else takes one beer and its rows away, for a decision the beer its request was
\* filed about.
LEMMA CommitCases ==
  ASSUME ModerationInv, NEW h \in Handlers, pc[h] = "commit", M!Committed(h)
  PROVE  \E j \in M!Jobs :
           /\ job[h] = {j}
           /\ \/ /\ j.op = "decide" /\ j.verdict = "rejected" /\ j.by \in accounts
                 /\ beers' = beers
                 /\ filed' = {IF M!RowLock(r.n) \in holds[h] THEN M!Signed(r, j) ELSE r : r \in filed}
              \/ \E b : /\ beers' = beers \ {b}
                        /\ filed' = {r \in filed : r.beer # b}
                        /\ \/ j.op = "remove" /\ b = j.beer
                           \/ /\ j.op = "decide" /\ j.verdict = "approved"
                              /\ \A s \in history : s.n = j.row => s.beer = b
                              /\ \E s \in history : s.n = j.row
<1>1. PICK j \in M!Jobs :
        job[h] = {j} /\ JobFits("commit", j) /\ DecisionFits("commit", j, holds[h], target[h])
  BY DEF ModerationInv, OneJob, DecisionsFit
<1>2. CASE j.op = "decide" /\ j.verdict = "rejected"
  <2>1. M!Decides(h, "rejected") /\ (CHOOSE i \in job[h] : TRUE) = j
    BY <1>1, <1>2 DEF M!Decides
  <2> QED BY <1>1, <1>2, <2>1 DEF M!Committed, DecisionFits
<1>3. CASE ~(j.op = "decide" /\ j.verdict = "rejected")
  <2>1. ~M!Decides(h, "rejected")
    BY <1>1, <1>3 DEF M!Decides
  <2>2. beers' = beers \ M!Doomed(h) /\ filed' = {r \in filed : r.beer \notin M!Doomed(h)}
    BY <2>1 DEF M!Committed
  <2>3. CASE j.op = "remove"
    <3>1. M!Doomed(h) = {j.beer}
      BY <1>1, <2>3 DEF M!Doomed
    <3> QED BY <1>1, <2>2, <2>3, <3>1
  <2>4. CASE j.op # "remove"
    <3>1. M!Doomed(h) = {target[h]}
      BY <1>1, <2>4 DEF M!Doomed
    <3>2. j.op = "decide" /\ j.verdict = "approved"
      BY <1>1, <1>3, <2>4 DEF JobFits
    <3>3. beers' = beers \ {target[h]} /\ filed' = {r \in filed : r.beer # target[h]}
      BY <2>2, <3>1
    <3> QED BY <1>1, <3>2, <3>3 DEF DecisionFits
  <2> QED BY <2>3, <2>4
<1> QED BY <1>2, <1>3

LEMMA ModerationCommit ==
  ASSUME ModerationInv, NEW h \in Handlers, M!Commit(h) \/ M!CommitUnacknowledged(h)
  PROVE  ModerationInv'
<1>1. /\ pc[h] = "commit" /\ M!Committed(h)
      /\ UNCHANGED <<accounts, history>>
  BY DEF M!Commit, M!CommitUnacknowledged
<1>2. PICK s \in 0 .. 599 : M!End(h, s)
  <2>1. 200 \in 0 .. 599 /\ 500 \in 0 .. 599
    OBVIOUS
  <2> QED BY <2>1 DEF M!Commit, M!CommitUnacknowledged
<1>3. PICK j \in M!Jobs :
        /\ job[h] = {j}
        /\ \/ /\ j.op = "decide" /\ j.verdict = "rejected" /\ j.by \in accounts
              /\ beers' = beers
              /\ filed' = {IF M!RowLock(r.n) \in holds[h] THEN M!Signed(r, j) ELSE r : r \in filed}
           \/ \E b : /\ beers' = beers \ {b}
                     /\ filed' = {r \in filed : r.beer # b}
                     /\ \/ j.op = "remove" /\ b = j.beer
                        \/ /\ j.op = "decide" /\ j.verdict = "approved"
                           /\ \A r \in history : r.n = j.row => r.beer = b
  BY <1>1, CommitCases
<1>4. accounts \ accounts' = {}
  BY <1>1
<1>5. filed \subseteq M!Rows /\ accounts \subseteq Users
  BY DEF ModerationInv, M!TypeOK
<1>6. CASE /\ j.op = "decide" /\ j.verdict = "rejected" /\ j.by \in accounts
           /\ beers' = beers
           /\ filed' = {IF M!RowLock(r.n) \in holds[h] THEN M!Signed(r, j) ELSE r : r \in filed}
  <2>1. \A k \in filed' : \E r \in filed :
          /\ k \in M!Rows /\ k.n = r.n /\ k.beer = r.beer /\ k.user = r.user
          /\ k.by \in {r.by, j.by}
    <3>1. \A r \in filed : M!Signed(r, j) \in M!Rows /\ M!Signed(r, j).n = r.n
                           /\ M!Signed(r, j).beer = r.beer
                           /\ M!Signed(r, j).user = r.user /\ M!Signed(r, j).by = j.by
      BY <1>5, <1>6, SignedRow
    <3> QED BY <1>5, <1>6, <3>1
  <2>2. filed' \subseteq M!Rows /\ \A k \in filed' : \E r \in filed : r.n = k.n /\ r.beer = k.beer
    BY <2>1
  <2>3. NoDanglingRow'
    BY <1>1, <1>6, <2>1 DEF ModerationInv, NoDanglingRow, M!NoDanglingRow
  <2>4. M!Approved(h) = {}
    BY <1>3, <1>6, NotApproving
  <2> QED BY <1>1, <1>2, <1>4, <1>6, <2>2, <2>3, <2>4, EndKeeps
<1>7. CASE \E b : /\ beers' = beers \ {b}
                  /\ filed' = {r \in filed : r.beer # b}
                  /\ \/ j.op = "remove" /\ b = j.beer
                     \/ /\ j.op = "decide" /\ j.verdict = "approved"
                        /\ \A r \in history : r.n = j.row => r.beer = b
  <2>1. PICK b : /\ beers' = beers \ {b}
                 /\ filed' = {r \in filed : r.beer # b}
                 /\ \/ j.op = "remove" /\ b = j.beer
                    \/ /\ j.op = "decide" /\ j.verdict = "approved"
                       /\ \A r \in history : r.n = j.row => r.beer = b
    BY <1>7
  <2>2. NoDanglingRow'
    BY <1>1, <2>1 DEF ModerationInv, NoDanglingRow, M!NoDanglingRow
  <2>3. M!Approved(h) \subseteq {b}
    BY <1>3, <2>1 DEF M!Approved
  <2>4. filed' \subseteq M!Rows /\ \A k \in filed' : \E r \in filed : r.n = k.n /\ r.beer = k.beer
    BY <1>5, <2>1
  <2>5. beers' \subseteq beers /\ M!Approved(h) \cap beers' = {}
    BY <2>1, <2>3
  <2> QED BY <1>1, <1>2, <1>4, <2>2, <2>4, <2>5, EndKeeps
<1> QED BY <1>3, <1>6, <1>7

LEMMA ModerationRespond ==
  ASSUME ModerationInv, NEW h \in Handlers, M!Respond(h)
  PROVE  ModerationInv'
<1> USE DEF ModerationInv
<1>1. /\ \A g \in Handlers \ {h} : pc'[g] = pc[g] /\ job'[g] = job[g] /\ reply'[g] = reply[g]
      /\ pc'[h] = "idle" /\ job'[h] = {}
      /\ beers' = beers /\ accounts' = accounts /\ filed' = filed /\ history' = history
      /\ holds' = holds /\ target' = target /\ numCalls' = numCalls
  BY DEF M!Respond, M!Goto, M!TypeOK, M!tables
<1>2. M!TypeOK'
  BY <1>1 DEF M!Respond, M!Goto, M!TypeOK, M!Labels
<1>3. OneJob' /\ RowsNumbered' /\ JobsNumbered'
  BY <1>1 DEF OneJob, RowsNumbered, JobsNumbered
<1>4. DecisionsFit'
  BY <1>1 DEF DecisionsFit, DecisionFits
<1>5. NoDanglingRow' /\ ApprovalTakesEffect'
  BY <1>1 DEF NoDanglingRow, M!NoDanglingRow, ApprovalTakesEffect, M!ApprovalTakesEffect, M!Approved
<1> QED BY <1>2, <1>3, <1>4, <1>5

LEMMA ModerationStep ==
  ASSUME ModerationInv, [M!Next]_mVars
  PROVE  ModerationInv'
<1>1. ASSUME NEW h \in Handlers, M!StatementFails(h) \/ M!DeadlockVictim(h) PROVE ModerationInv'
  <2>1. pc[h] # "idle" /\ M!Rollback(h, 500)
    BY <1>1 DEF M!StatementFails, M!DeadlockVictim, M!Blocks
  <2> QED BY <2>1, ModerationRollback
<1>2. ASSUME NEW h \in Handlers, M!Serve(h) PROVE ModerationInv'
  BY <1>1, <1>2, FileKeeps, ResolveKeeps, LeaveKeeps, MarkKeeps, FindKeeps, DeleteKeeps,
     ModerationCommit, ModerationRespond DEF M!Serve
<1>3. CASE UNCHANGED mVars
  BY <1>3 DEF mVars, ModerationInv, M!TypeOK, OneJob, RowsNumbered, JobsNumbered, DecisionsFit,
              DecisionFits, NoDanglingRow, M!NoDanglingRow, ApprovalTakesEffect,
              M!ApprovalTakesEffect, M!Approved
<1> QED BY <1>1, <1>2, <1>3, ModerationArrive, ModerationCommit DEF M!Next

\* Two rows at the most are there at the start, with the numbers 1 and 2.
LEMMA ModerationStart ==
  ASSUME M!Init
  PROVE  ModerationInv
<1>1. /\ filed \subseteq M!Rows /\ \A r \in filed : r.n <= 2 /\ r.by \in Users \union {Nobody}
      /\ \A r \in filed, s \in filed : r.n = s.n => r.beer = s.beer
  <2>1. /\ (CHOOSE u \in Admins : TRUE) \in Users /\ (CHOOSE u \in Users \ Admins : TRUE) \in Users
        /\ (CHOOSE b \in Beers : TRUE) \in Beers
    BY ProgressAssumption DEF ProgressAssumption
  <2>2. 1 \in M!Ids /\ 2 \in M!Ids
    BY ProgressAssumption DEF ProgressAssumption, M!Ids
  <2>3. filed \subseteq Backlog
    BY DEF M!Init
  <2>4. Backlog \subseteq M!Rows
    BY <2>1, <2>2 DEF Backlog, M!Rows, M!Kinds
  <2>5. \A r \in Backlog : r.n \in {1, 2} /\ \A s \in Backlog : r.beer = s.beer
    BY DEF Backlog
  <2>6. \A r \in M!Rows : r.by \in Users \union {Nobody}
    BY DEF M!Rows
  <2> QED BY <2>3, <2>4, <2>5, <2>6
<1>2. M!TypeOK
  BY <1>1, ProgressAssumption DEF ProgressAssumption, M!Init, M!TypeOK, M!Labels
<1>3. OneJob
  BY DEF M!Init, OneJob
<1>4. RowsNumbered /\ JobsNumbered
  BY <1>1 DEF M!Init, RowsNumbered, JobsNumbered
<1>5. DecisionsFit /\ ApprovalTakesEffect
  BY DEF M!Init, DecisionsFit, ApprovalTakesEffect, M!ApprovalTakesEffect
<1>6. NoDanglingRow
  BY <1>1 DEF M!Init, NoDanglingRow, M!NoDanglingRow, M!Rows
<1> QED BY <1>2, <1>3, <1>4, <1>5, <1>6 DEF ModerationInv

\* Beers go at a COMMIT only, and then the one that was judged.
LEMMA BeersGoJudged ==
  ASSUME ModerationInv, [M!Next]_mVars, NEW b \in beers \ beers'
  PROVE  \E h \in Handlers :
           /\ pc[h] = "commit"
           /\ b \in M!Approved(h) \/ \E j \in job[h] : j.op = "remove" /\ j.beer = b
<1>1. ASSUME NEW h \in Handlers, M!Arrive(h) PROVE UNCHANGED beers
  BY <1>1 DEF M!Arrive, M!ReceiveFile, M!ReceiveResolve, M!ReceiveDecide, M!ReceiveRemove,
              M!ReceiveLeave, M!Receive, M!tables
<1>2. ASSUME NEW h \in Handlers, M!File(h) \/ M!Resolve(h) \/ M!Leave(h) PROVE UNCHANGED beers
  BY <1>2 DEF M!File, M!Resolve, M!Leave, M!Rollback, M!tables
<1>3. ASSUME NEW h \in Handlers,
             \/ M!Mark(h) \/ M!Find(h) \/ M!Delete(h) \/ M!Cascade(h)
             \/ M!DeadlockVictim(h) \/ M!StatementFails(h) \/ M!Respond(h)
      PROVE  UNCHANGED beers
  BY <1>3 DEF M!Mark, M!Find, M!Delete, M!Cascade, M!DeadlockVictim, M!StatementFails,
              M!Respond, M!Rollback, M!tables
<1>4. PICK h \in Handlers : M!Commit(h) \/ M!CommitUnacknowledged(h)
  BY <1>1, <1>2, <1>3 DEF M!Next, M!Serve, mVars
<1>5. pc[h] = "commit" /\ M!Committed(h)
  BY <1>4 DEF M!Commit, M!CommitUnacknowledged
<1>6. PICK j \in M!Jobs :
        /\ job[h] = {j}
        /\ \/ j.op = "remove" /\ b = j.beer
           \/ /\ j.op = "decide" /\ j.verdict = "approved"
              /\ \A s \in history : s.n = j.row => s.beer = b
              /\ \E s \in history : s.n = j.row
  BY <1>5, CommitCases
<1>7. CASE j.op = "remove" /\ b = j.beer
  BY <1>5, <1>6, <1>7
<1>8. CASE /\ j.op = "decide" /\ j.verdict = "approved"
           /\ \A s \in history : s.n = j.row => s.beer = b
           /\ \E s \in history : s.n = j.row
  <2>1. b \in M!Approved(h)
    BY <1>6, <1>8 DEF M!Approved
  <2> QED BY <1>5, <2>1
<1> QED BY <1>6, <1>7, <1>8

----------------------------------------------------------------------------
(* Repeated statements.                                                    *)

LEMMA BoundsNat == MaxRetries \in Nat /\ Resends \in Nat
BY ProgressAssumption DEF ProgressAssumption

\* What the statement may have done by now: everything the earlier attempts could
\* send, and what this one has sent.
Sent(c) == attempt[c] * (Resends + 1) + sends[c]

\* No more effects than statements sent; database/sql has not used up its repeats
\* when it takes a connection, nor the loop its attempts when it waits.
EffectsFollowSends ==
  \A c \in Calls : /\ applied[c] <= Sent(c)
                   /\ at[c] \in {"conn", "send"} => sends[c] <= Resends
                   /\ at[c] \in {"idle", "head"} => sends[c] = 0
                   /\ at[c] = "select" => attempt[c] < MaxRetries

\* An attempt begins only with a context that is alive, so what was sent too late
\* was sent by the attempt in progress.
LateSendsAreOfOneFn ==
  \A c \in Calls : /\ late[c] <= Resends + 1
                   /\ ~cancelled[c] => late[c] = 0
                   /\ at[c] \in {"conn", "send"} => late[c] <= sends[c]

RetryInv == R!TypeOK /\ EffectsFollowSends /\ LateSendsAreOfOneFn

----------------------------------------------------------------------------
LEMMA RetryStart ==
  ASSUME R!Init
  PROVE  RetryInv
<1>1. \A c \in Calls : Sent(c) = 0
  BY BoundsNat DEF R!Init, Sent
<1> QED BY <1>1, BoundsNat DEF R!Init, RetryInv, R!TypeOK, EffectsFollowSends, LateSendsAreOfOneFn

\* Steps that send nothing and start no new attempt.
LEMMA QuietKeeps ==
  ASSUME RetryInv, NEW c \in Calls,
         UNCHANGED <<attempt, sends, applied, late>>,
         at' = [at EXCEPT ![c] = at'[c]],
         cancelled' = [cancelled EXCEPT ![c] = cancelled'[c]], cancelled'[c] \in BOOLEAN,
         cancelled[c] => cancelled'[c],
         at'[c] \in {"idle", "head", "conn", "send", "select", "returned"},
         result' \in [Calls -> {"none", "ok", "permanent", "transient", "cancelled"}],
         at'[c] \in {"conn", "send"} => at[c] \in {"head", "conn", "send"},
         at'[c] \in {"idle", "head"} => at[c] \in {"idle", "head"},
         at'[c] = "select" => at[c] = "select",
         at'[c] \in {"conn", "send"} => at[c] \in {"conn", "send"} \/ ~cancelled[c]
  PROVE  RetryInv'
<1>1. \A d \in Calls : Sent(d)' = Sent(d)
  BY DEF Sent
<1>2. R!TypeOK'
  BY DEF RetryInv, R!TypeOK
<1>3. EffectsFollowSends'
  <2>1. \A d \in Calls : sends[d] \in Int /\ 0 <= Resends
    BY BoundsNat DEF RetryInv, R!TypeOK
  <2> QED BY <1>1, <2>1 DEF RetryInv, R!TypeOK, EffectsFollowSends
<1>4. LateSendsAreOfOneFn'
  BY DEF RetryInv, R!TypeOK, LateSendsAreOfOneFn
<1> QED BY <1>2, <1>3, <1>4 DEF RetryInv

LEMMA HeadKeeps ==
  ASSUME RetryInv, NEW c \in Calls, R!Head(c) \/ R!Connect(c)
  PROVE  RetryInv'
<1>1. /\ UNCHANGED <<attempt, sends, applied, late, cancelled>>
      /\ at[c] \in {"head", "conn"}
      /\ at' = [at EXCEPT ![c] = at'[c]]
      /\ at'[c] \in {"conn", "send", "returned"}
      /\ at[c] = "conn" \/ at'[c] = "returned" \/ ~cancelled[c]
      /\ result' \in [Calls -> {"none", "ok", "permanent", "transient", "cancelled"}]
  BY DEF R!Head, R!Connect, R!Stops, R!Return, RetryInv, R!TypeOK
<1>2. cancelled' = [cancelled EXCEPT ![c] = cancelled'[c]] /\ cancelled'[c] \in BOOLEAN
  BY <1>1 DEF RetryInv, R!TypeOK
<1> QED BY <1>1, <1>2, QuietKeeps

\* A call begins, or its context ends at any moment.
LEMMA CallerKeeps ==
  ASSUME RetryInv, NEW c \in Calls, R!Call(c) \/ R!Cancel(c)
  PROVE  RetryInv'
<1>1. /\ UNCHANGED <<attempt, sends, applied, late, result>>
      /\ at' = [at EXCEPT ![c] = at'[c]]
      /\ cancelled' = [cancelled EXCEPT ![c] = cancelled'[c]] /\ cancelled'[c] \in BOOLEAN
      /\ cancelled[c] => cancelled'[c]
      /\ (at'[c] = at[c] \/ (at[c] = "idle" /\ at'[c] = "head"))
      /\ at[c] \in {"idle", "head", "conn", "send", "select", "returned"}
      /\ result \in [Calls -> {"none", "ok", "permanent", "transient", "cancelled"}]
  BY DEF R!Call, R!Cancel, RetryInv, R!TypeOK
<1> QED BY <1>1, QuietKeeps

\* One statement is sent: one more effect at most.
LEMMA SendKeeps ==
  ASSUME RetryInv, NEW c \in Calls, R!Send(c)
  PROVE  RetryInv'
<1>1. /\ at[c] = "send" /\ late[c] <= sends[c] /\ late[c] \in Nat
      /\ applied[c] <= Sent(c) /\ sends[c] <= Resends
      /\ applied[c] \in Nat /\ attempt[c] \in 0 .. MaxRetries /\ sends[c] \in Nat
  BY BoundsNat DEF R!Send, RetryInv, R!TypeOK, EffectsFollowSends, LateSendsAreOfOneFn
<1>2. PICK effect \in {0, 1} : applied' = [applied EXCEPT ![c] = @ + effect]
  BY DEF R!Send
<1>3. sends' = [sends EXCEPT ![c] = sends[c] + 1] /\ sends[c] + 1 \in 0 .. Resends + 1
  BY <1>1, BoundsNat DEF R!Send
<1>4. /\ at' = [at EXCEPT ![c] = at'[c]] /\ at'[c] \in {"conn", "select", "returned"}
      /\ at'[c] = "conn" => sends[c] < Resends
      /\ at'[c] = "select" => attempt[c] < MaxRetries
      /\ attempt' = attempt /\ cancelled' = cancelled
      /\ result' \in [Calls -> {"none", "ok", "permanent", "transient", "cancelled"}]
  <2>1. /\ at \in [Calls -> {"idle", "head", "conn", "send", "select", "returned"}]
        /\ result \in [Calls -> {"none", "ok", "permanent", "transient", "cancelled"}]
    BY DEF RetryInv, R!TypeOK
  <2>2. ASSUME NEW r \in {"ok", "permanent", "transient"}, R!Return(c, r), cancelled' = cancelled
        PROVE  <1>4!:
    BY <2>1, <2>2 DEF R!Return
  <2>3. ASSUME R!Transient(c), cancelled' = cancelled PROVE <1>4!:
    <3>1. CASE R!LastAttempt(c)
      BY <2>2, <2>3, <3>1 DEF R!Transient
    <3>2. CASE ~R!LastAttempt(c)
      BY <1>1, <2>1, <2>3, <3>2, BoundsNat DEF R!Transient, R!LastAttempt
    <3> QED BY <3>1, <3>2
  <2>4. ASSUME R!BadConn(c), cancelled' = cancelled PROVE <1>4!:
    BY <2>1, <2>3, <2>4 DEF R!BadConn
  <2>5. /\ cancelled' = cancelled
        /\ R!Return(c, "ok") \/ R!Return(c, "permanent") \/ R!BadConn(c) \/ R!Transient(c)
    BY DEF R!Send
  <2> QED BY <2>2, <2>3, <2>4, <2>5
<1>5. /\ late' = [late EXCEPT ![c] = late'[c]] /\ late'[c] \in Nat
      /\ late'[c] <= sends[c] + 1 /\ (~cancelled[c] => late'[c] = 0)
  BY <1>1 DEF R!Send, RetryInv, R!TypeOK, LateSendsAreOfOneFn
<1>6. R!TypeOK'
  BY <1>1, <1>2, <1>3, <1>4, <1>5 DEF RetryInv, R!TypeOK
<1>7. EffectsFollowSends'
  <2>1. \A d \in Calls : d # c => Sent(d)' = Sent(d)
    BY <1>3, <1>4 DEF Sent, RetryInv, R!TypeOK
  <2>2. Sent(c)' = Sent(c) + 1 /\ Sent(c) \in Int
    <3>1. attempt[c] * (Resends + 1) \in Int
      BY <1>1, BoundsNat
    <3> DEFINE earlier == attempt[c] * (Resends + 1)
    <3>2. Sent(c) = earlier + sends[c] /\ Sent(c)' = earlier + (sends[c] + 1)
      BY <1>3, <1>4 DEF Sent, RetryInv, R!TypeOK
    <3> HIDE DEF earlier
    <3> QED BY <1>1, <3>1, <3>2 DEF earlier
  <2>3. applied'[c] <= Sent(c)'
    BY <1>1, <1>2, <2>2 DEF RetryInv, R!TypeOK
  <2>4. \A d \in Calls : applied'[d] <= Sent(d)'
    BY <1>2, <2>1, <2>3 DEF RetryInv, R!TypeOK, EffectsFollowSends
  <2> QED BY <1>1, <1>3, <1>4, <2>4, BoundsNat DEF RetryInv, R!TypeOK, EffectsFollowSends
<1>8. LateSendsAreOfOneFn'
  BY <1>1, <1>3, <1>4, <1>5, BoundsNat DEF RetryInv, R!TypeOK, LateSendsAreOfOneFn
<1> QED BY <1>6, <1>7, <1>8 DEF RetryInv

\* The next attempt may send afresh; what the last one has sent stays counted.
LEMMA SelectKeeps ==
  ASSUME RetryInv, NEW c \in Calls, R!Select(c)
  PROVE  RetryInv'
<1>1. /\ at[c] = "select" /\ attempt[c] \in 0 .. MaxRetries /\ attempt[c] < MaxRetries
      /\ sends[c] \in 0 .. Resends + 1 /\ applied[c] \in Nat /\ applied[c] <= Sent(c)
      /\ UNCHANGED <<cancelled, applied, late>>
  BY DEF R!Select, RetryInv, R!TypeOK, EffectsFollowSends
<1>2. CASE /\ at' = [at EXCEPT ![c] = "head"]
           /\ attempt' = [attempt EXCEPT ![c] = @ + 1]
           /\ sends' = [sends EXCEPT ![c] = 0]
           /\ result' = result
  <2>1. R!TypeOK'
    BY <1>1, <1>2, BoundsNat DEF RetryInv, R!TypeOK
  <2>2. \A d \in Calls : d # c => Sent(d)' = Sent(d)
    BY <1>2 DEF Sent, RetryInv, R!TypeOK
  <2>3. Sent(c) <= Sent(c)' /\ Sent(c)' \in Int /\ Sent(c) \in Int
    <3>1. attempt'[c] = attempt[c] + 1 /\ sends'[c] = 0
      BY <1>2 DEF RetryInv, R!TypeOK
    <3>2. (attempt[c] + 1) * (Resends + 1) = attempt[c] * (Resends + 1) + Resends + 1
      BY <1>1, BoundsNat
    <3>3. attempt[c] * (Resends + 1) \in Int
      BY <1>1, BoundsNat
    <3> DEFINE earlier == attempt[c] * (Resends + 1)
    <3>4. Sent(c) = earlier + sends[c] /\ Sent(c)' = earlier + Resends + 1
      BY <3>1, <3>2, <3>3, BoundsNat DEF Sent
    <3> HIDE DEF earlier
    <3> QED BY <1>1, <3>3, <3>4, BoundsNat DEF earlier
  <2>4. applied[c] <= Sent(c)'
    BY <1>1, <2>3
  <2>5. \A d \in Calls : applied'[d] <= Sent(d)'
    BY <1>1, <2>2, <2>4 DEF RetryInv, R!TypeOK, EffectsFollowSends
  <2>6. EffectsFollowSends'
    BY <1>1, <1>2, <2>5, BoundsNat DEF RetryInv, R!TypeOK, EffectsFollowSends
  <2>7. LateSendsAreOfOneFn'
    BY <1>1, <1>2 DEF RetryInv, R!TypeOK, LateSendsAreOfOneFn
  <2> QED BY <2>1, <2>6, <2>7 DEF RetryInv
<1>3. CASE R!Return(c, "cancelled") /\ UNCHANGED sends
  <2>1. /\ UNCHANGED <<attempt, sends, applied, late, cancelled>>
        /\ at' = [at EXCEPT ![c] = "returned"] /\ at'[c] = "returned"
        /\ result' \in [Calls -> {"none", "ok", "permanent", "transient", "cancelled"}]
        /\ cancelled' = [cancelled EXCEPT ![c] = cancelled'[c]] /\ cancelled'[c] \in BOOLEAN
    BY <1>1, <1>3 DEF R!Return, RetryInv, R!TypeOK
  <2> QED BY <2>1, QuietKeeps
<1> QED BY <1>2, <1>3 DEF R!Select, R!NextAttempt

LEMMA RetryStep ==
  ASSUME RetryInv, [R!Next]_rVars
  PROVE  RetryInv'
<1>1. ASSUME NEW c \in Calls, R!Step(c) PROVE RetryInv'
  BY <1>1, HeadKeeps, SendKeeps, SelectKeeps DEF R!Step
<1>2. CASE UNCHANGED rVars
  BY <1>2 DEF rVars, RetryInv, R!TypeOK, EffectsFollowSends, Sent, LateSendsAreOfOneFn
<1> QED BY <1>1, <1>2, CallerKeeps DEF R!Next

\* A statement takes effect at most as often as both loops can send it.
LEMMA SendsBound ==
  ASSUME RetryInv
  PROVE  EffectsBounded
<1> SUFFICES ASSUME NEW c \in Calls
             PROVE  /\ applied[c] <= (MaxRetries + 1) * (Resends + 1)
                    /\ applied[c] <= Sent(c)
  BY DEF EffectsBounded, R!EffectsBounded, Sent
<1>1. /\ attempt[c] \in 0 .. MaxRetries /\ sends[c] \in 0 .. Resends + 1
      /\ applied[c] \in Nat /\ applied[c] <= Sent(c)
  BY DEF RetryInv, R!TypeOK, EffectsFollowSends
<1>2. Sent(c) <= attempt[c] * (Resends + 1) + (Resends + 1)
  BY <1>1, BoundsNat DEF Sent
<1>3. attempt[c] * (Resends + 1) + (Resends + 1) = (attempt[c] + 1) * (Resends + 1)
  BY <1>1, BoundsNat
<1>4. (attempt[c] + 1) * (Resends + 1) <= (MaxRetries + 1) * (Resends + 1)
  BY <1>1, BoundsNat
<1> DEFINE sent == Sent(c)
           made == (attempt[c] + 1) * (Resends + 1)
           most == (MaxRetries + 1) * (Resends + 1)
<1>5. sent \in Int /\ made \in Int /\ most \in Int
  BY <1>1, BoundsNat DEF Sent
<1>6. sent <= made /\ made <= most /\ applied[c] <= sent
  BY <1>1, <1>2, <1>3, <1>4
<1> HIDE DEF sent, made, most
<1>7. applied[c] <= most
  BY <1>1, <1>5, <1>6
<1> QED BY <1>1, <1>7 DEF most

----------------------------------------------------------------------------
(* The serverless instance.                                                *)

LEMMA NoneIsNoRequest == None \notin Requests
BY ProgressAssumption DEF ProgressAssumption

\* The mutex is held by the request that is opening a pool or building a router,
\* and by no other.
HolderIsInside == \A r \in Requests : where[r] \in {"open", "build"} <=> initMu = r

\* Nobody else has opened a pool while a request is inside, nor left one before.
AloneInside ==
  \A r \in Requests :
    /\ where[r] = "open"  => current.pool = None /\ pools = {}
    /\ where[r] = "build" => current.pool = None /\ pools = {r} /\ opened[r] = r

\* With the mutex free the pools are those the router uses.
NothingLeftOver == initMu = None => pools = IF S!HasDB THEN {current.pool} ELSE {}

SlotInv == S!TypeOK /\ HolderIsInside /\ AloneInside /\ NothingLeftOver

----------------------------------------------------------------------------
LEMMA SlotStart ==
  ASSUME S!Init
  PROVE  SlotInv
BY NoneIsNoRequest DEF S!Init, SlotInv, S!TypeOK, HolderIsInside, AloneInside, NothingLeftOver, S!HasDB

\* The steps before the mutex and after the swap leave what it protects alone.
LEMMA SlotOutside ==
  ASSUME SlotInv, NEW r \in Requests, S!Arrive(r) \/ S!Serve(r)
  PROVE  SlotInv'
<1>1. PICK l \in {"serve", "lock", "answered"} : S!Goto(r, l)
  BY DEF S!Arrive, S!Serve, S!Reply
<1>2. /\ where[r] \notin {"open", "build"}
      /\ UNCHANGED <<dsn, up, pools, current, initMu, static, opened>>
      /\ status' \in [Requests -> {0, 200, 500, 503}]
  BY DEF S!Arrive, S!Serve, S!Reply, SlotInv, S!TypeOK
<1>3. where' = [where EXCEPT ![r] = l]
  BY <1>1 DEF S!Goto
<1>4. S!TypeOK'
  BY <1>2, <1>3 DEF SlotInv, S!TypeOK
<1>5. HolderIsInside' /\ AloneInside' /\ NothingLeftOver'
  BY <1>2, <1>3 DEF SlotInv, S!TypeOK, HolderIsInside, AloneInside, NothingLeftOver, S!HasDB
<1> QED BY <1>4, <1>5 DEF SlotInv

LEMMA SlotLock ==
  ASSUME SlotInv, NEW r \in Requests, S!Lock(r)
  PROVE  SlotInv'
<1>1. CASE S!HasDB
  BY <1>1 DEF S!Lock, S!SwappedMeanwhile, S!Goto, SlotInv, S!TypeOK, HolderIsInside, AloneInside,
              NothingLeftOver, S!HasDB
<1>2. CASE ~S!HasDB
  <2>1. /\ where[r] = "lock" /\ initMu = None /\ initMu' = r
        /\ where' = [where EXCEPT ![r] = "open"]
        /\ UNCHANGED <<dsn, up, pools, current, static, opened, status>>
        /\ pools = {} /\ current.pool = None
    BY <1>2 DEF S!Lock, S!SwappedMeanwhile, S!Goto, SlotInv, NothingLeftOver, S!HasDB
  <2>2. \A q \in Requests : where[q] \notin {"open", "build"}
    BY <2>1, NoneIsNoRequest DEF SlotInv, HolderIsInside
  <2>3. S!TypeOK'
    BY <2>1 DEF SlotInv, S!TypeOK
  <2>4. HolderIsInside' /\ AloneInside' /\ NothingLeftOver'
    BY <2>1, <2>2 DEF SlotInv, S!TypeOK, HolderIsInside, AloneInside, NothingLeftOver, S!HasDB
  <2> QED BY <2>3, <2>4 DEF SlotInv
<1> QED BY <1>1, <1>2

LEMMA SlotOpen ==
  ASSUME SlotInv, NEW r \in Requests, S!TryInitDB(r)
  PROVE  SlotInv'
<1>1. /\ where[r] = "open" /\ initMu = r /\ pools = {} /\ current.pool = None
      /\ \A q \in Requests : where[q] \in {"open", "build"} => q = r
  BY DEF S!TryInitDB, SlotInv, HolderIsInside, AloneInside
<1>2. CASE /\ opened' = [opened EXCEPT ![r] = r] /\ pools' = pools \union {r}
           /\ S!Goto(r, "build") /\ UNCHANGED <<dsn, up, current, static, initMu, status>>
  BY <1>1, <1>2, NoneIsNoRequest DEF S!Goto, SlotInv, S!TypeOK, HolderIsInside, AloneInside, NothingLeftOver, S!HasDB
<1>3. CASE initMu' = None /\ S!Reply(r, 503) /\ UNCHANGED <<dsn, up, current, static, opened, pools>>
  BY <1>1, <1>3, NoneIsNoRequest DEF S!Reply, S!Goto, SlotInv, S!TypeOK, HolderIsInside, AloneInside, NothingLeftOver, S!HasDB
<1> QED BY <1>2, <1>3 DEF S!TryInitDB

LEMMA SlotSwap ==
  ASSUME SlotInv, NEW r \in Requests, S!Swap(r)
  PROVE  SlotInv'
<1>1. /\ where[r] = "build" /\ initMu = r /\ pools = {r} /\ opened[r] = r
      /\ \A q \in Requests : where[q] \in {"open", "build"} => q = r
  BY DEF S!Swap, SlotInv, HolderIsInside, AloneInside
<1>2. /\ current' = [pool |-> r, works |-> up] /\ initMu' = None
      /\ where' = [where EXCEPT ![r] = "serve"]
      /\ UNCHANGED <<dsn, up, pools, static, opened, status>>
  BY <1>1 DEF S!Swap, S!Goto
<1>3. S!TypeOK'
  BY <1>2 DEF SlotInv, S!TypeOK
<1>4. HolderIsInside' /\ AloneInside' /\ NothingLeftOver'
  BY <1>1, <1>2, NoneIsNoRequest DEF SlotInv, S!TypeOK, HolderIsInside, AloneInside, NothingLeftOver, S!HasDB
<1> QED BY <1>3, <1>4 DEF SlotInv

LEMMA SlotStep ==
  ASSUME SlotInv, [S!Next]_sVars
  PROVE  SlotInv'
<1>1. CASE S!Toggle
  BY <1>1 DEF S!Toggle, SlotInv, S!TypeOK, HolderIsInside, AloneInside, NothingLeftOver, S!HasDB
<1>2. ASSUME NEW r \in Requests, S!Handle(r) PROVE SlotInv'
  BY <1>2, SlotOutside, SlotLock, SlotOpen, SlotSwap DEF S!Handle
<1>3. CASE UNCHANGED sVars
  BY <1>3 DEF sVars, SlotInv, S!TypeOK, HolderIsInside, AloneInside, NothingLeftOver, S!HasDB
<1> QED BY <1>1, <1>2, <1>3 DEF S!Next

\* One pool at most, and with the mutex free none but the router's.
LEMMA SlotHasOnePool ==
  ASSUME SlotInv
  PROVE  OnePool
<1>1. CASE initMu = None
  BY <1>1 DEF SlotInv, NothingLeftOver, OnePool, S!OnePool
<1>2. CASE initMu \in Requests
  BY <1>2, NoneIsNoRequest DEF SlotInv, HolderIsInside, AloneInside, OnePool, S!OnePool
<1> QED BY <1>1, <1>2 DEF SlotInv, S!TypeOK

----------------------------------------------------------------------------
(* Side by side.                                                           *)

allVars == <<part, mVars, rVars, sVars, bootVars>>

\* A step of the whole is a step, or none, of each component.
LEMMA EachMovesAlone ==
  ASSUME [Step]_allVars
  PROVE  [M!Next]_mVars /\ [R!Next]_rVars /\ [S!Next]_sVars /\ [Next]_bootVars
BY DEF Step, allVars

LEMMA ModerationHolds == SideBySide => []ModerationInv
<1>1. StartAll => ModerationInv
  BY ModerationStart DEF StartAll
<1>2. ModerationInv /\ [Step]_allVars => ModerationInv'
  BY EachMovesAlone, ModerationStep
<1> QED BY <1>1, <1>2, PTL DEF SideBySide, allVars

LEMMA RetryHolds == SideBySide => []RetryInv
<1>1. StartAll => RetryInv
  BY RetryStart DEF StartAll
<1>2. RetryInv /\ [Step]_allVars => RetryInv'
  BY EachMovesAlone, RetryStep
<1> QED BY <1>1, <1>2, PTL DEF SideBySide, allVars

LEMMA SlotHolds == SideBySide => []SlotInv
<1>1. StartAll => SlotInv
  BY SlotStart DEF StartAll
<1>2. SlotInv /\ [Step]_allVars => SlotInv'
  BY EachMovesAlone, SlotStep
<1> QED BY <1>1, <1>2, PTL DEF SideBySide, allVars

LEMMA BootHolds == SideBySide => [](TInv /\ IInv)
<1>1. StartAll => TInv /\ IInv
  BY InitTyped, InitEstablishes DEF StartAll
<1>2. TInv /\ IInv /\ [Step]_allVars => (TInv /\ IInv)'
  BY EachMovesAlone, StepTyped, StepPreserves
<1> QED BY <1>1, <1>2, PTL DEF SideBySide, allVars

\* Type correctness of moderation, retries, the serverless instance and the processes.
THEOREM TypesCorrect == SideBySide => []AllTypesOK
<1>1. ModerationInv /\ RetryInv /\ SlotInv /\ TInv => AllTypesOK
  BY TypesFollow DEF ModerationInv, RetryInv, SlotInv, AllTypesOK
<1> QED BY <1>1, ModerationHolds, RetryHolds, SlotHolds, BootHolds, PTL

\* No report or request refers to a beer that is gone: a deletion takes the rows
\* about the beer with it, in the transaction that removes the beer.
THEOREM RowsKeepTheirBeer == SideBySide => []NoDanglingRow
<1>1. ModerationInv => NoDanglingRow
  BY DEF ModerationInv
<1> QED BY <1>1, ModerationHolds, PTL

\* When the 200 of an approval is sent the beer is gone, whoever decided about it,
\* deleted it or ended the transaction meanwhile.
THEOREM AcknowledgedApprovalsHold == SideBySide => []ApprovalTakesEffect
<1>1. ModerationInv => ApprovalTakesEffect
  BY DEF ModerationInv
<1> QED BY <1>1, ModerationHolds, PTL

\* A beer disappears at a COMMIT only, and is the one the administrator deleted or
\* the approved request was about.
THEOREM JudgedBeersOnly == SideBySide => OnlyJudgedBeersGo
<1> DEFINE Judged == \A b \in beers \ beers' :
                       \E h \in Handlers :
                         /\ pc[h] = "commit"
                         /\ b \in M!Approved(h) \/ \E j \in job[h] : j.op = "remove" /\ j.beer = b
<1>1. ModerationInv /\ [Step]_allVars => [Judged]_(M!vars)
  BY EachMovesAlone, BeersGoJudged
<1> QED BY <1>1, ModerationHolds, PTL DEF SideBySide, allVars, OnlyJudgedBeersGo, M!OnlyJudgedBeersGo

\* However many answers are lost, a repeated statement takes effect at most as
\* often as the loop of retry.go and that of database/sql together may send it, and
\* an error that is not transient ends both.
THEOREM RepetitionIsBounded == SideBySide => []EffectsBounded
<1>1. RetryInv => EffectsBounded
  BY SendsBound
<1> QED BY <1>1, RetryHolds, PTL

\* After its context has ended a call begins no attempt: it sends the statement no
\* more often than the attempt in progress may.
THEOREM CancellationStops == SideBySide => []CancelStopsAttempts
<1>1. RetryInv => CancelStopsAttempts
  BY DEF RetryInv, LateSendsAreOfOneFn, CancelStopsAttempts, R!CancelStopsAttempts
<1> QED BY <1>1, RetryHolds, PTL

\* A cold start leaks no connections: the instance has one pool at most, and once
\* nobody is opening one, none that its router does not use.
THEOREM ColdStartOpensOnePool == SideBySide => []OnePool
<1>1. SlotInv => OnePool
  BY SlotHasOnePool
<1> QED BY <1>1, SlotHolds, PTL

\* The two theorems about the processes hold beside the other components too.
THEOREM ProcessesUnaffected == SideBySide => [](ServesOnlyMigrated /\ ReferencesHold)
<1>1. IInv => ServesOnlyMigrated /\ ReferencesHold
  BY DEF IInv, MigratedFirst, Through, Complete, ServesOnlyMigrated, DataInv
<1> QED BY <1>1, BootHolds, PTL
=============================================================================
