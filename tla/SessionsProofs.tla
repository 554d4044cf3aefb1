--------------------------- MODULE SessionsProofs ---------------------------
(***************************************************************************)
(* What holds of accounts and refresh tokens for any number of people,     *)
(* devices and handlers, whatever interleaves and whatever fails.  The     *)
(* numbers of requests stand for the UUIDs of the code, so the proofs rest *)
(* on one fact about them (Numbered): the number of a request in progress  *)
(* is no other request's, and no device and no request presents it as a    *)
(* token before it was handed out.                                         *)
(***************************************************************************)
EXTENDS Sessions, TLAPS

Active(h) == pc[h] # "idle"

\* The number of a request in progress is fresh, and its answer carries the
\* token of that number or none.
Numbered ==
  /\ \A h \in Handlers :
       /\ job[h].n <= numCalls
       /\ job[h].token <= numCalls
       /\ given[h] \in {0, job[h].n}
       /\ pc[h] # "reply" => given[h] = 0
       /\ Active(h) => job[h].n # 0
  /\ \A h \in Handlers : Active(h) =>
       /\ \A g \in Handlers : job[g].token # job[h].n
       /\ \A g \in Handlers : Active(g) /\ job[g].n = job[h].n => g = h
       /\ \A d \in Devices : held[d] # job[h].n

\* A refresh with a token that was dead on arrival ends in the refusal: the
\* token is still dead, and the request has no way to a new pair.
LateIsRefused ==
  \A h \in Handlers : job[h].late =>
    /\ pc[h] \in {"lookup", "reuse", "reply"}
    /\ given[h] = 0
    /\ ~Live(job[h].token)

TablesOK ==
  /\ account \in [Emails -> Ids]
  /\ social \subseteq Ids \ {0}
  /\ owner \in [Ids -> Ids]
  /\ revoked \subseteq Ids
  /\ expired \subseteq Ids
  /\ root \in [Ids -> Ids]

IInv ==
  /\ TypeOK
  /\ Numbered
  /\ NoOrphanTokens
  /\ LateIsRefused

----------------------------------------------------------------------------
\* The idle request is a request.
LEMMA NoJobType ==
  /\ NoJob \in Job
  /\ NoJob.n = 0 /\ NoJob.token = 0 /\ NoJob.late = FALSE /\ NoJob.op = "none"
<1>1. \E d \in Devices : TRUE
  BY SessionAssumption DEF SessionAssumption
<1>2. \E e \in Emails : TRUE
  BY SessionAssumption DEF SessionAssumption
<1>3. (CHOOSE d \in Devices : TRUE) \in Devices
  BY <1>1
<1>4. (CHOOSE e \in Emails : TRUE) \in Emails
  BY <1>2
<1>5. 0 \in Ids
  BY SessionAssumption DEF SessionAssumption, Ids
<1> QED BY <1>3, <1>4, <1>5 DEF NoJob, Job

\* Request numbers are natural numbers up to the bound.
LEMMA IdsNat == /\ 0 \in Ids
                /\ \A i \in Ids : i \in Nat
                /\ \A i \in Nat : i <= MaxCalls => i \in Ids
BY SessionAssumption DEF SessionAssumption, Ids

\* The types of the state, request by request.
LEMMA Types ==
  ASSUME IInv
  PROVE  /\ TablesOK
         /\ held \in [Devices -> Ids] /\ pc \in [Handlers -> Labels]
         /\ job \in [Handlers -> Job] /\ given \in [Handlers -> Ids]
         /\ numCalls \in Ids /\ numCalls \in Nat
         /\ \A d \in Devices : held[d] <= numCalls /\ held[d] \in Nat
         /\ \A h \in Handlers :
              /\ job[h] \in Job
              /\ job[h].n \in Ids /\ job[h].token \in Ids /\ job[h].acct \in Ids
              /\ job[h].n \in Nat /\ job[h].token \in Nat
              /\ job[h].dev \in Devices /\ job[h].email \in Emails
              /\ pc[h] \in {"reuse", "user", "revoke", "issue"} => job[h].acct # 0
<1>1. TypeOK
  BY DEF IInv
<1>2. \A h \in Handlers : job[h] \in Job
  BY <1>1 DEF TypeOK
<1> QED BY <1>1, <1>2, IdsNat DEF TypeOK, TablesOK, Job

\* The service starts without accounts, tokens and requests.
LEMMA InitEstablishes == Init => IInv
<1> SUFFICES ASSUME Init PROVE IInv
  OBVIOUS
<1>1. 0 \in Ids
  BY SessionAssumption DEF SessionAssumption, Ids
<1>2. TypeOK
  BY <1>1, NoJobType DEF Init, TypeOK, Labels, Ids
<1>3. Numbered
  BY NoJobType DEF Init, Numbered, Active
<1>4. NoOrphanTokens /\ LateIsRefused
  BY NoJobType DEF Init, NoOrphanTokens, LateIsRefused
<1> QED BY <1>2, <1>3, <1>4 DEF IInv

\* What a step of handler h does to the other handlers: nothing.
Only(h) ==
  /\ pc' \in [Handlers -> Labels]
  /\ job' \in [Handlers -> Job]
  /\ given' \in [Handlers -> Ids]
  /\ \A g \in Handlers \ {h} : pc'[g] = pc[g] /\ job'[g] = job[g] /\ given'[g] = given[g]

\* The request in progress stays what it is, its account aside.
SameRequest(h) ==
  /\ job'[h].op = job[h].op /\ job'[h].n = job[h].n /\ job'[h].dev = job[h].dev
  /\ job'[h].email = job[h].email /\ job'[h].token = job[h].token
  /\ job'[h].late = job[h].late

\* Going on with a request about account a.
LEMMA ProceedStep ==
  ASSUME IInv, NEW h \in Handlers, NEW a \in Ids, NEW l \in Labels, Proceed(h, a, l)
  PROVE  /\ Only(h)
         /\ SameRequest(h)
         /\ pc'[h] = l /\ job'[h].acct = a /\ given'[h] = given[h]
         /\ held' = held /\ numCalls' = numCalls
<1>1. /\ pc \in [Handlers -> Labels] /\ job \in [Handlers -> Job] /\ given \in [Handlers -> Ids]
  BY DEF IInv, TypeOK
<1>2. /\ pc' = [pc EXCEPT ![h] = l]
      /\ job' = [job EXCEPT ![h].acct = a]
      /\ given' = given /\ held' = held /\ numCalls' = numCalls
  BY DEF Proceed, Goto
<1>3. job[h] \in Job
  BY <1>1
<1>4. [job[h] EXCEPT !.acct = a] \in Job
  BY <1>3 DEF Job
<1>5. job'[h] = [job[h] EXCEPT !.acct = a]
  BY <1>1, <1>2
<1>6. job' \in [Handlers -> Job]
  BY <1>1, <1>2, <1>4
<1>7. SameRequest(h) /\ job'[h].acct = a
  BY <1>3, <1>5 DEF SameRequest, Job
<1> QED BY <1>1, <1>2, <1>6, <1>7 DEF Only

\* Ending a request with an error.
LEMMA RefuseStep ==
  ASSUME IInv, NEW h \in Handlers, Refuse(h)
  PROVE  /\ Only(h)
         /\ job'[h] = job[h] /\ pc'[h] = "reply" /\ given'[h] = given[h]
         /\ held' = held /\ numCalls' = numCalls
<1>1. /\ pc \in [Handlers -> Labels] /\ job \in [Handlers -> Job] /\ given \in [Handlers -> Ids]
  BY DEF IInv, TypeOK
<1>2. /\ pc' = [pc EXCEPT ![h] = "reply"]
      /\ job' = job /\ given' = given /\ held' = held /\ numCalls' = numCalls
  BY DEF Refuse, Goto
<1> QED BY <1>1, <1>2 DEF Only, Labels

----------------------------------------------------------------------------
(* The shapes a step can have, seen from the requests in progress.         *)

\* Handler h goes on with its request, or decides the answer.
Continues(h) ==
  /\ Only(h)
  /\ SameRequest(h)
  /\ held' = held /\ numCalls' = numCalls
  /\ pc[h] \notin {"idle", "reply"} /\ pc'[h] # "idle"
  /\ given'[h] \in {0, job[h].n}
  /\ pc'[h] # "reply" => given'[h] = 0

\* The only token that can come to life is the one the request inserts.
OnlyRevives(h) == \A t \in Ids : Live(t)' => Live(t) \/ t = job[h].n

\* A step of a request keeps the invariant when it does so in the tables, and
\* does not help a late refresh.
LEMMA ContinuesPreserves ==
  ASSUME IInv, NEW h \in Handlers, Continues(h),
         TablesOK', NoOrphanTokens', OnlyRevives(h),
         pc'[h] \in {"reuse", "user", "revoke", "issue"} => job'[h].acct # 0,
         job[h].late => pc'[h] \in {"lookup", "reuse", "reply"} /\ given'[h] = 0
  PROVE  IInv'
<1> USE DEF Continues, SameRequest
<1>1. /\ held \in [Devices -> Ids] /\ numCalls \in Ids
      /\ \A d \in Devices : held[d] <= numCalls
      /\ \A g \in Handlers : job[g] \in Job
      /\ \A g \in Handlers :
           pc[g] \in {"reuse", "user", "revoke", "issue"} => job[g].acct # 0
  BY DEF IInv, TypeOK
<1>2. TypeOK'
  BY <1>1 DEF TypeOK, TablesOK, Only
<1>3. \A g \in Handlers :
        /\ job'[g].n = job[g].n /\ job'[g].token = job[g].token /\ job'[g].late = job[g].late
        /\ Active(g)' = Active(g)
  BY DEF Only, Active
<1>4. Numbered'
  <2>1. \A g \in Handlers :
          /\ job'[g].n <= numCalls'
          /\ job'[g].token <= numCalls'
          /\ given'[g] \in {0, job'[g].n}
          /\ pc'[g] # "reply" => given'[g] = 0
          /\ Active(g)' => job'[g].n # 0
    BY <1>3 DEF IInv, Numbered, Only
  <2>2. \A g \in Handlers : Active(g)' =>
          /\ \A f \in Handlers : job'[f].token # job'[g].n
          /\ \A f \in Handlers : Active(f)' /\ job'[f].n = job'[g].n => f = g
          /\ \A d \in Devices : held'[d] # job'[g].n
    BY <1>3 DEF IInv, Numbered
  <2> QED BY <2>1, <2>2 DEF Numbered, Active
<1>5. LateIsRefused'
  <2> SUFFICES ASSUME NEW g \in Handlers, job'[g].late
               PROVE  /\ pc'[g] \in {"lookup", "reuse", "reply"}
                      /\ given'[g] = 0
                      /\ ~Live(job[g].token)'
    BY <1>3 DEF LateIsRefused, Live
  <2>1. job[g].late /\ ~Live(job[g].token) /\ job[g].token \in Ids
    BY <1>1, <1>3 DEF IInv, LateIsRefused, Job
  <2>2. job[g].token # job[h].n
    BY DEF IInv, Numbered, Active
  <2>3. \A t \in Ids : t = job[g].token => ~Live(t)'
    BY <2>1, <2>2 DEF OnlyRevives
  <2>4. pc'[g] \in {"lookup", "reuse", "reply"} /\ given'[g] = 0
    BY <2>1 DEF IInv, LateIsRefused, Only
  <2> QED BY <2>1, <2>3, <2>4, <1>3 DEF Live
<1> QED BY <1>2, <1>4, <1>5 DEF IInv

\* A new request takes the next number, which nobody has seen.
LEMMA ReceivePreserves ==
  ASSUME IInv, NEW h \in Handlers, NEW d \in Devices, NEW j \in Job, NEW l \in Labels,
         Receive(h, d, j, l), l \in {"find", "lookup"},
         j.n = numCalls + 1, j.token \in {0, held[d]},
         j.late => l = "lookup" /\ ~Live(j.token)
  PROVE  IInv'
<1>1. /\ pc[h] = "idle" /\ numCalls < MaxCalls /\ numCalls' = numCalls + 1
      /\ job' = [job EXCEPT ![h] = j] /\ pc' = [pc EXCEPT ![h] = l]
      /\ account' = account /\ social' = social /\ owner' = owner /\ revoked' = revoked
      /\ expired' = expired /\ root' = root /\ held' = held /\ given' = given
  BY DEF Receive, Goto, accounts, tokens
<1>2. /\ held \in [Devices -> Ids] /\ numCalls \in Nat /\ numCalls' \in Ids
      /\ pc \in [Handlers -> Labels] /\ job \in [Handlers -> Job]
      /\ \A e \in Devices : held[e] <= numCalls
      /\ \A g \in Handlers : job[g] \in Job
  <2>1. numCalls' \in Nat /\ numCalls' <= MaxCalls
    BY <1>1, Types, IdsNat, SessionAssumption DEF SessionAssumption
  <2> QED BY <2>1, Types, IdsNat
<1>3. /\ pc'[h] = l /\ job'[h] = j /\ given'[h] = 0
      /\ \A g \in Handlers \ {h} : pc'[g] = pc[g] /\ job'[g] = job[g]
  <2>1. given[h] = 0
    BY <1>1 DEF IInv, Numbered
  <2> QED BY <1>1, <1>2, <2>1
<1>4. TypeOK'
  <2>1. \A e \in Devices : held'[e] <= numCalls'
    BY <1>1, <1>2 DEF Ids
  <2>2. \A g \in Handlers : pc'[g] \in {"reuse", "user", "revoke", "issue"} => job'[g].acct # 0
    BY <1>3 DEF IInv, TypeOK
  <2> QED BY <1>1, <1>2, <2>1, <2>2 DEF IInv, TypeOK
<1>5. \A g \in Handlers : /\ job[g].n \in Nat /\ job[g].token \in Nat
                          /\ job[g].n <= numCalls /\ job[g].token <= numCalls
  BY <1>2 DEF IInv, Numbered, Job, Ids
<1>6. /\ j.token \in Nat /\ j.token <= numCalls
      /\ \A e \in Devices : held[e] \in Nat
  BY <1>2 DEF Job, Ids
<1>7. Numbered'
  <2>1. \A g \in Handlers :
          /\ job'[g].n <= numCalls'
          /\ job'[g].token <= numCalls'
          /\ given'[g] \in {0, job'[g].n}
          /\ pc'[g] # "reply" => given'[g] = 0
          /\ Active(g)' => job'[g].n # 0
    BY <1>1, <1>2, <1>3, <1>5, <1>6 DEF IInv, Numbered, Active
  <2>2. \A g \in Handlers : Active(g)' =>
          /\ \A f \in Handlers : job'[f].token # job'[g].n
          /\ \A f \in Handlers : Active(f)' /\ job'[f].n = job'[g].n => f = g
          /\ \A e \in Devices : held'[e] # job'[g].n
    <3> SUFFICES ASSUME NEW g \in Handlers, Active(g)'
                 PROVE  /\ \A f \in Handlers : job'[f].token # job'[g].n
                        /\ \A f \in Handlers : Active(f)' /\ job'[f].n = job'[g].n => f = g
                        /\ \A e \in Devices : held'[e] # job'[g].n
      OBVIOUS
    <3>1. CASE g = h
      BY <1>1, <1>2, <1>3, <1>5, <1>6, <3>1
    <3>2. CASE g # h
      <4>1. Active(g) /\ job'[g] = job[g]
        BY <1>3, <3>2 DEF Active
      <4>2. \A f \in Handlers : job'[f].token # job'[g].n
        <5>1. j.token # job[g].n
          <6>1. CASE j.token = 0
            BY <4>1, <6>1 DEF IInv, Numbered
          <6>2. CASE j.token # 0
            BY <4>1, <6>2 DEF IInv, Numbered
          <6> QED BY <6>1, <6>2
        <5> QED BY <1>3, <4>1, <5>1 DEF IInv, Numbered
      <4>3. \A f \in Handlers : Active(f)' /\ job'[f].n = job'[g].n => f = g
        BY <1>2, <1>3, <1>5, <4>1 DEF IInv, Numbered, Active
      <4>4. \A e \in Devices : held'[e] # job'[g].n
        BY <1>1, <4>1 DEF IInv, Numbered
      <4> QED BY <4>2, <4>3, <4>4
    <3> QED BY <3>1, <3>2
  <2> QED BY <2>1, <2>2 DEF Numbered, Active
<1>8. NoOrphanTokens'
  BY <1>1 DEF IInv, NoOrphanTokens, Accounts
<1>9. LateIsRefused'
  BY <1>1, <1>3 DEF IInv, LateIsRefused, Live
<1> QED BY <1>4, <1>7, <1>8, <1>9 DEF IInv

\* After its answer a handler is idle; the device may have kept the new token.
LEMMA RestPreserves ==
  ASSUME IInv, NEW h \in Handlers, pc[h] = "reply", Rest(h),
         held' \in {held, [held EXCEPT ![job[h].dev] = given[h]]}
  PROVE  IInv'
<1>1. /\ pc' = [pc EXCEPT ![h] = "idle"] /\ job' = [job EXCEPT ![h] = NoJob]
      /\ given' = [given EXCEPT ![h] = 0] /\ numCalls' = numCalls
      /\ account' = account /\ social' = social /\ owner' = owner /\ revoked' = revoked
      /\ expired' = expired /\ root' = root
  BY DEF Rest, Goto, accounts, tokens
<1>2. /\ held \in [Devices -> Ids] /\ numCalls \in Ids /\ numCalls \in Nat
      /\ pc \in [Handlers -> Labels] /\ job \in [Handlers -> Job]
      /\ given \in [Handlers -> Ids] /\ "idle" \in Labels
      /\ \A g \in Handlers : job[g] \in Job
  BY Types DEF Labels
<1>3. /\ pc'[h] = "idle" /\ job'[h] = NoJob /\ given'[h] = 0
      /\ \A g \in Handlers \ {h} : pc'[g] = pc[g] /\ job'[g] = job[g] /\ given'[g] = given[g]
  BY <1>1, <1>2
<1>4. \A d \in Devices : held'[d] \in {held[d], given[h]}
  BY <1>2
<1>5. given[h] \in {0, job[h].n} /\ job[h].n <= numCalls /\ job[h].n # 0 /\ given[h] <= numCalls
  BY <1>2 DEF IInv, Numbered, Active, Ids
<1>6. TypeOK'
  <2>1. \A d \in Devices : held'[d] <= numCalls'
    BY <1>1, <1>4, <1>5 DEF IInv, TypeOK
  <2>2. held' \in [Devices -> Ids]
    BY <1>2
  <2>3. job' \in [Handlers -> Job]
    BY <1>1, <1>2, NoJobType
  <2>4. pc' \in [Handlers -> Labels] /\ given' \in [Handlers -> Ids]
    BY <1>1, <1>2, IdsNat
  <2>5. \A g \in Handlers : pc'[g] \in {"reuse", "user", "revoke", "issue"} => job'[g].acct # 0
    BY <1>3 DEF IInv, TypeOK
  <2> QED BY <1>1, <2>1, <2>2, <2>3, <2>4, <2>5 DEF IInv, TypeOK
<1>7. Numbered'
  <2>1. \A g \in Handlers :
          /\ job'[g].n <= numCalls'
          /\ job'[g].token <= numCalls'
          /\ given'[g] \in {0, job'[g].n}
          /\ pc'[g] # "reply" => given'[g] = 0
          /\ Active(g)' => job'[g].n # 0
    <3>1. 0 <= numCalls
      BY <1>2
    <3> QED BY <1>1, <1>3, <3>1, NoJobType DEF IInv, Numbered, Active
  <2>2. \A g \in Handlers : Active(g)' =>
          /\ \A f \in Handlers : job'[f].token # job'[g].n
          /\ \A f \in Handlers : Active(f)' /\ job'[f].n = job'[g].n => f = g
          /\ \A d \in Devices : held'[d] # job'[g].n
    <3> SUFFICES ASSUME NEW g \in Handlers, Active(g)'
                 PROVE  /\ \A f \in Handlers : job'[f].token # job'[g].n
                        /\ \A f \in Handlers : Active(f)' /\ job'[f].n = job'[g].n => f = g
                        /\ \A d \in Devices : held'[d] # job'[g].n
      OBVIOUS
    <3>1. g # h /\ Active(g) /\ Active(h) /\ job'[g] = job[g]
      BY <1>3 DEF Active
    <3>2. \A f \in Handlers : job'[f].token # job'[g].n
      BY <1>3, <3>1, NoJobType DEF IInv, Numbered
    <3>3. \A f \in Handlers : Active(f)' /\ job'[f].n = job'[g].n => f = g
      BY <1>3, <3>1 DEF IInv, Numbered, Active
    <3>4. \A d \in Devices : held'[d] # job'[g].n
      <4>1. job[h].n # job[g].n /\ job[g].n # 0
        BY <3>1 DEF IInv, Numbered
      <4>2. \A d \in Devices : held[d] # job[g].n
        BY <3>1 DEF IInv, Numbered
      <4> QED BY <1>4, <1>5, <3>1, <4>1, <4>2
    <3> QED BY <3>2, <3>3, <3>4
  <2> QED BY <2>1, <2>2 DEF Numbered, Active
<1>8. NoOrphanTokens'
  BY <1>1 DEF IInv, NoOrphanTokens, Accounts
<1>9. LateIsRefused'
  <2>1. \A g \in Handlers : job'[g].late => g # h
    BY <1>3, NoJobType
  <2> QED BY <1>1, <1>3, <2>1 DEF IInv, LateIsRefused, Live
<1> QED BY <1>6, <1>7, <1>8, <1>9 DEF IInv

\* A crash leaves every handler idle and the tables as they are.
LEMMA CrashPreserves ==
  ASSUME IInv, Crash
  PROVE  IInv'
<1>1. /\ account' = account /\ social' = social /\ owner' = owner /\ revoked' = revoked
      /\ expired' = expired /\ root' = root /\ held' = held /\ numCalls' = numCalls
      /\ pc' = [h \in Handlers |-> "idle"] /\ job' = [h \in Handlers |-> NoJob]
      /\ given' = [h \in Handlers |-> 0]
  BY DEF Crash, accounts, tokens
<1>2. 0 \in Ids /\ numCalls \in Nat
  BY SessionAssumption DEF IInv, TypeOK, Ids, SessionAssumption
<1>3. TypeOK'
  BY <1>1, <1>2, NoJobType DEF IInv, TypeOK, Labels
<1>4. Numbered'
  <2>1. 0 <= numCalls
    BY <1>2
  <2> QED BY <1>1, <2>1, NoJobType DEF Numbered, Active
<1>5. NoOrphanTokens' /\ LateIsRefused'
  BY <1>1, NoJobType DEF IInv, NoOrphanTokens, Accounts, LateIsRefused
<1> QED BY <1>3, <1>4, <1>5 DEF IInv

\* A step in the tables alone, which brings no token to life.
LEMMA TablesPreserve ==
  ASSUME IInv, TablesOK', NoOrphanTokens',
         held' = held, pc' = pc, job' = job, given' = given, numCalls' = numCalls,
         \A t \in Ids : Live(t)' => Live(t)
  PROVE  IInv'
<1>1. TypeOK'
  BY DEF IInv, TypeOK, TablesOK
<1>2. Numbered'
  BY DEF IInv, Numbered, Active
<1>3. LateIsRefused'
  <2>1. \A g \in Handlers : job[g].token \in Ids
    BY DEF IInv, TypeOK, Job
  <2> QED BY <2>1 DEF IInv, LateIsRefused, Live
<1> QED BY <1>1, <1>2, <1>3 DEF IInv

----------------------------------------------------------------------------
(* The actions.                                                            *)

\* Going on at a label that decides nothing.
LEMMA ProceedContinues ==
  ASSUME IInv, NEW h \in Handlers, NEW a \in Ids, NEW l \in Labels \ {"idle", "reply"},
         pc[h] \notin {"idle", "reply"}, Proceed(h, a, l)
  PROVE  Continues(h) /\ pc'[h] = l /\ job'[h].acct = a /\ given'[h] = 0
<1>1. given[h] = 0
  BY DEF IInv, Numbered
<1> QED BY <1>1, ProceedStep DEF Continues

\* An error answer carries no token.
LEMMA RefuseContinues ==
  ASSUME IInv, NEW h \in Handlers, pc[h] \notin {"idle", "reply"}, Refuse(h)
  PROVE  Continues(h) /\ pc'[h] = "reply" /\ given'[h] = 0
<1>1. given[h] = 0
  BY DEF IInv, Numbered
<1> QED BY <1>1, RefuseStep DEF Continues, SameRequest

\* A step that leaves the tables alone.
LEMMA TablesKept ==
  ASSUME IInv, UNCHANGED <<accounts, tokens>>
  PROVE  /\ TablesOK' /\ NoOrphanTokens'
         /\ \A t \in Ids : Live(t)' => Live(t)
BY DEF accounts, tokens, IInv, TypeOK, TablesOK, NoOrphanTokens, Accounts, Live

\* A request ends in an error and leaves the tables alone.
LEMMA RefusalPreserves ==
  ASSUME IInv, NEW h \in Handlers, pc[h] \notin {"idle", "reply"},
         Refuse(h), UNCHANGED <<accounts, tokens>>
  PROVE  IInv'
<1>1. Continues(h) /\ pc'[h] = "reply" /\ given'[h] = 0
  BY RefuseContinues
<1>2. TablesOK' /\ NoOrphanTokens' /\ OnlyRevives(h)
  BY TablesKept DEF OnlyRevives
<1> QED BY <1>1, <1>2, ContinuesPreserves

\* A request goes on and leaves the tables alone.
LEMMA ProgressPreserves ==
  ASSUME IInv, NEW h \in Handlers, pc[h] \notin {"idle", "reply"},
         NEW a \in Ids, NEW l \in Labels \ {"idle", "reply"}, Proceed(h, a, l),
         l \in {"reuse", "user", "revoke", "issue"} => a # 0,
         job[h].late => l = "reuse",
         UNCHANGED <<accounts, tokens>>
  PROVE  IInv'
<1>1. Continues(h) /\ pc'[h] = l /\ job'[h].acct = a /\ given'[h] = 0
  BY ProceedContinues
<1>2. TablesOK' /\ NoOrphanTokens' /\ OnlyRevives(h)
  BY TablesKept DEF OnlyRevives
<1> QED BY <1>1, <1>2, ContinuesPreserves

\* A sign-in and a refresh arrive.
LEMMA ReceivesPreserve ==
  ASSUME IInv, NEW h \in Handlers, NEW d \in Devices,
         ReceiveSignIn(h, d) \/ ReceiveRefresh(h, d)
  PROVE  IInv'
<1>1. ASSUME numCalls < MaxCalls PROVE numCalls + 1 \in Ids
  BY <1>1, Types, IdsNat, SessionAssumption DEF SessionAssumption
<1>2. CASE ReceiveSignIn(h, d)
  <2>1. PICK o \in {"register", "login", "oauth"}, e \in Emails :
          Receive(h, d, SignIn(o, d, e), "find")
    BY <1>2 DEF ReceiveSignIn
  <2>2. numCalls + 1 \in Ids
    BY <1>1, <2>1 DEF Receive
  <2> DEFINE j == SignIn(o, d, e)
  <2>3. j \in Job /\ j.n = numCalls + 1 /\ j.token = 0 /\ j.late = FALSE
    BY <2>2, NoJobType DEF SignIn, Job
  <2> HIDE DEF j
  <2>4. Receive(h, d, j, "find")
    BY <2>1 DEF j
  <2> QED BY <2>3, <2>4, ReceivePreserves DEF Labels
<1>3. CASE ReceiveRefresh(h, d)
  <2> DEFINE j == [NoJob EXCEPT !.op = "refresh", !.n = numCalls + 1, !.dev = d,
                                !.token = held[d], !.late = ~Live(held[d])]
  <2>1. Receive(h, d, j, "lookup")
    BY <1>3 DEF ReceiveRefresh
  <2>2. numCalls + 1 \in Ids /\ held[d] \in Ids
    BY <1>1, <2>1, Types DEF Receive
  <2>3. /\ j.op = "refresh" /\ j.n = numCalls + 1 /\ j.dev = d /\ j.token = held[d]
        /\ j.late = ~Live(held[d])
    BY NoJobType DEF Job
  <2>4. (~Live(held[d])) \in BOOLEAN
    OBVIOUS
  <2>5. j \in Job
    BY <2>2, <2>4, NoJobType DEF Job
  <2> HIDE DEF j
  <2> QED BY <2>1, <2>3, <2>5, ReceivePreserves DEF Labels
<1> QED BY <1>2, <1>3

\* An account is created for an email that had none.
LEMMA NewAccount ==
  ASSUME IInv, NEW e \in Emails, account[e] = 0, NEW n \in Ids, n # 0,
         account' = [account EXCEPT ![e] = n],
         social' \in {social, social \union {n}}, UNCHANGED tokens
  PROVE  /\ TablesOK' /\ NoOrphanTokens'
         /\ \A t \in Ids : Live(t)' => Live(t)
<1>1. account \in [Emails -> Ids] /\ social \subseteq Ids \ {0}
  BY DEF IInv, TypeOK
<1>2. TablesOK'
  BY <1>1 DEF tokens, IInv, TypeOK, TablesOK
<1>3. \A x \in Accounts : x \in Accounts'
  BY <1>1 DEF Accounts
<1>4. NoOrphanTokens'
  BY <1>3 DEF tokens, IInv, NoOrphanTokens
<1> QED BY <1>2, <1>4 DEF tokens, Live

\* Register, Login and OAuthLogin find, refuse or create an account.
LEMMA FindPreserves ==
  ASSUME IInv, NEW h \in Handlers, Find(h)
  PROVE  IInv'
<1> DEFINE e == job[h].email
           n == job[h].n
<1>1. /\ pc[h] = "find" /\ job[h].late = FALSE /\ e \in Emails
      /\ n \in Ids /\ n # 0 /\ account[e] \in Ids
  <2>1. pc[h] = "find"
    BY DEF Find
  <2>2. ~job[h].late
    BY <2>1 DEF IInv, LateIsRefused
  <2>3. job[h].late \in BOOLEAN
    BY Types DEF Job
  <2> QED BY <2>1, <2>2, <2>3, Types DEF IInv, TypeOK, Numbered, Active
<1>2. CASE FindRegister(h)
  <2>1. UNCHANGED <<accounts, tokens>> /\ (Proceed(h, 0, "insert") \/ Refuse(h))
    BY <1>2 DEF FindRegister
  <2>2. "insert" \in Labels \ {"idle", "reply"} /\ 0 \in Ids
    BY IdsNat DEF Labels
  <2> QED BY <1>1, <2>1, <2>2, ProgressPreserves, RefusalPreserves
<1>3. CASE FindLogin(h)
  <2>1. /\ UNCHANGED <<accounts, tokens>>
        /\ (account[e] # 0 /\ Proceed(h, account[e], "issue")) \/ Refuse(h)
    BY <1>3 DEF FindLogin
  <2>2. "issue" \in Labels \ {"idle", "reply"}
    BY DEF Labels
  <2> QED BY <1>1, <2>1, <2>2, ProgressPreserves, RefusalPreserves
<1>4. CASE FindOAuth(h)
  <2>0. "issue" \in Labels \ {"idle", "reply"}
    BY DEF Labels
  <2>1. CASE account[e] # 0
    <3>1. /\ UNCHANGED <<accounts, tokens>>
          /\ Proceed(h, account[e], "issue") \/ Refuse(h)
      BY <1>4, <2>1 DEF FindOAuth
    <3> QED BY <1>1, <2>0, <2>1, <3>1, ProgressPreserves, RefusalPreserves
  <2>2. CASE account[e] = 0
    <3>1. /\ account' = [account EXCEPT ![e] = n]
          /\ social' = social \union {n}
          /\ Proceed(h, n, "issue") /\ UNCHANGED tokens
      BY <1>4, <2>2 DEF FindOAuth, IInv, TypeOK
    <3>2. Continues(h) /\ pc'[h] = "issue" /\ job'[h].acct = n /\ given'[h] = 0
      BY <1>1, <2>0, <3>1, ProceedContinues
    <3>3. TablesOK' /\ NoOrphanTokens' /\ OnlyRevives(h)
      BY <1>1, <2>2, <3>1, NewAccount DEF OnlyRevives
    <3> QED BY <1>1, <3>2, <3>3, ContinuesPreserves
  <2> QED BY <2>1, <2>2
<1> QED BY <1>2, <1>3, <1>4 DEF Find

\* Register inserts the account, unless another registration was faster.
LEMMA InsertPreserves ==
  ASSUME IInv, NEW h \in Handlers, Insert(h)
  PROVE  IInv'
<1> DEFINE e == job[h].email
           n == job[h].n
<1>1. /\ pc[h] = "insert" /\ e \in Emails /\ n \in Ids /\ account[e] \in Ids /\ n # 0
  BY Types DEF Insert, IInv, TypeOK, Numbered, Active
<1>2. /\ Refuse(h) /\ UNCHANGED <<social, tokens>>
      /\ account' = [account EXCEPT ![e] = IF account[e] = 0 THEN n ELSE account[e]]
  BY DEF Insert
<1>3. Continues(h) /\ pc'[h] = "reply" /\ given'[h] = 0
  BY <1>1, <1>2, RefuseContinues
<1>4. TablesOK' /\ NoOrphanTokens' /\ OnlyRevives(h)
  <2>1. CASE account[e] = 0
    BY <1>1, <1>2, <2>1, NewAccount DEF OnlyRevives
  <2>2. CASE account[e] # 0
    <3>1. account' = account
      BY <1>1, <1>2, <2>2 DEF IInv, TypeOK
    <3> QED BY <1>2, <3>1, TablesKept DEF OnlyRevives, accounts
  <2> QED BY <2>1, <2>2
<1> QED BY <1>3, <1>4, ContinuesPreserves

\* GetRefreshTokenByHash and the tests on its row.
LEMMA LookupPreserves ==
  ASSUME IInv, NEW h \in Handlers, Lookup(h)
  PROVE  IInv'
<1> DEFINE t == job[h].token
<1>1. /\ pc[h] = "lookup" /\ t \in Ids /\ owner[t] \in Ids
      /\ UNCHANGED <<accounts, tokens>>
  BY Types DEF Lookup, IInv, TypeOK
<1>2. \/ Refuse(h)
      \/ owner[t] # 0 /\ Proceed(h, owner[t], "reuse")
      \/ owner[t] # 0 /\ Live(t) /\ Proceed(h, owner[t], "user")
  BY DEF Lookup, Live
<1>3. Live(t) => ~job[h].late
  BY DEF IInv, LateIsRefused
<1>4. {"reuse", "user"} \subseteq Labels \ {"idle", "reply"}
  BY DEF Labels
<1>5. CASE Refuse(h)
  BY <1>1, <1>5, RefusalPreserves
<1>6. CASE owner[t] # 0 /\ Proceed(h, owner[t], "reuse")
  BY <1>1, <1>4, <1>6, ProgressPreserves
<1>7. CASE owner[t] # 0 /\ Live(t) /\ Proceed(h, owner[t], "user")
  <2>1. ~job[h].late
    BY <1>3, <1>7
  <2> QED BY <1>1, <1>4, <1>7, <2>1, ProgressPreserves
<1> QED BY <1>2, <1>5, <1>6, <1>7

\* GetByID.
LEMMA GetUserPreserves ==
  ASSUME IInv, NEW h \in Handlers, GetUser(h)
  PROVE  IInv'
<1>1. /\ pc[h] = "user" /\ job[h].acct \in Ids /\ job[h].acct # 0
      /\ UNCHANGED <<accounts, tokens>>
      /\ Proceed(h, job[h].acct, "revoke") \/ Refuse(h)
  BY Types DEF GetUser
<1>2. ~job[h].late
  BY <1>1 DEF IInv, LateIsRefused
<1>3. "revoke" \in Labels \ {"idle", "reply"}
  BY DEF Labels
<1> QED BY <1>1, <1>2, <1>3, ProgressPreserves, RefusalPreserves

\* The three statements that revoke.
LEMMA RevokesPreserve ==
  ASSUME IInv, NEW h \in Handlers, RevokeAll(h) \/ Revoke(h) \/ RevokeUnacknowledged(h)
  PROVE  IInv'
<1>1. /\ revoked \subseteq revoked' /\ revoked' \subseteq Ids
      /\ UNCHANGED <<accounts, owner, expired, root>>
  BY Types DEF RevokeAll, Revoke, RevokeUnacknowledged, MarkRevoked, IInv, TypeOK
<1>2. TablesOK' /\ NoOrphanTokens' /\ OnlyRevives(h)
  BY <1>1 DEF accounts, IInv, TypeOK, TablesOK, NoOrphanTokens, Accounts, OnlyRevives, Live
<1>3. CASE Refuse(h) /\ pc[h] \in {"reuse", "revoke"}
  BY <1>2, <1>3, RefuseContinues, ContinuesPreserves
<1>4. CASE Revoke(h)
  <2>1. /\ pc[h] = "revoke" /\ job[h].acct \in Ids /\ job[h].acct # 0
        /\ Proceed(h, job[h].acct, "issue")
    BY <1>4, Types DEF Revoke
  <2>2. ~job[h].late
    BY <2>1 DEF IInv, LateIsRefused
  <2>3. "issue" \in Labels \ {"idle", "reply"}
    BY DEF Labels
  <2> QED BY <1>2, <2>1, <2>2, <2>3, ProceedContinues, ContinuesPreserves
<1> QED BY <1>3, <1>4 DEF RevokeAll, RevokeUnacknowledged

\* The two outcomes of inserting the new token.
LEMMA IssuesPreserve ==
  ASSUME IInv, NEW h \in Handlers, Issue(h) \/ IssueUnacknowledged(h)
  PROVE  IInv'
<1> DEFINE n == job[h].n
           a == job[h].acct
<1>1. pc[h] = "issue" /\ InsertToken(h) /\ n \in Ids /\ job[h].token \in Ids /\ a \in Ids
  BY Types DEF Issue, IssueUnacknowledged
<1>2. ~job[h].late
  BY <1>1 DEF IInv, LateIsRefused
<1>3. /\ a \in Accounts
      /\ owner' = [owner EXCEPT ![n] = a]
      /\ UNCHANGED <<accounts, revoked, expired>>
  BY <1>1 DEF InsertToken
<1>4. root' \in [Ids -> Ids]
  BY <1>1 DEF InsertToken, IInv, TypeOK
<1>5. TablesOK' /\ NoOrphanTokens' /\ OnlyRevives(h)
  BY <1>1, <1>3, <1>4 DEF accounts, IInv, TypeOK, TablesOK, NoOrphanTokens, Accounts,
     OnlyRevives, Live
<1>6. CASE Issue(h)
  <2>1. /\ given' = [given EXCEPT ![h] = n] /\ pc' = [pc EXCEPT ![h] = "reply"]
        /\ held' = held /\ job' = job /\ numCalls' = numCalls
    BY <1>6 DEF Issue, Goto
  <2>2. Continues(h) /\ pc'[h] = "reply"
    BY <1>1, <2>1, Types DEF Continues, Only, SameRequest, Labels
  <2> QED BY <1>2, <1>5, <2>2, ContinuesPreserves
<1>7. CASE IssueUnacknowledged(h)
  BY <1>1, <1>2, <1>5, <1>7, RefuseContinues, ContinuesPreserves DEF IssueUnacknowledged
<1> QED BY <1>6, <1>7

\* Deleting an account deletes its tokens; a token expires.
LEMMA EnvironmentPreserves ==
  ASSUME IInv,
         (\E e \in Emails : DeleteAccount(e)) \/ (\E t \in Ids : Expire(t))
  PROVE  IInv'
<1>1. ASSUME NEW e \in Emails, DeleteAccount(e) PROVE IInv'
  <2>1. /\ account[e] # 0 /\ account' = [account EXCEPT ![e] = 0]
        /\ owner' = [t \in Ids |-> IF owner[t] = account[e] THEN 0 ELSE owner[t]]
        /\ UNCHANGED <<social, revoked, expired, root, held, pc, job, given, numCalls>>
    BY <1>1 DEF DeleteAccount
  <2>2. account \in [Emails -> Ids] /\ owner \in [Ids -> Ids]
    BY DEF IInv, TypeOK
  <2>3. TablesOK'
    BY <2>1, <2>2, IdsNat DEF IInv, TypeOK, TablesOK
  <2>4. NoOrphanTokens'
    <3> SUFFICES ASSUME NEW t \in Ids, owner'[t] # 0
                 PROVE  owner'[t] \in Accounts'
      BY DEF NoOrphanTokens
    <3>1. owner'[t] = owner[t] /\ owner[t] # 0 /\ owner[t] # account[e]
      BY <2>1
    <3>2. PICK f \in Emails : owner[t] = account[f]
      BY <3>1 DEF IInv, NoOrphanTokens, Accounts
    <3>3. f # e /\ account'[f] = account[f]
      BY <2>1, <2>2, <3>1, <3>2
    <3> QED BY <3>1, <3>2, <3>3 DEF Accounts
  <2>5. \A t \in Ids : Live(t)' => Live(t)
    BY <2>1, <2>2 DEF Live
  <2> QED BY <2>1, <2>3, <2>4, <2>5, TablesPreserve
<1>2. ASSUME NEW t \in Ids, Expire(t) PROVE IInv'
  <2>1. /\ expired' = expired \union {t}
        /\ UNCHANGED <<accounts, owner, revoked, root, held, pc, job, given, numCalls>>
    BY <1>2 DEF Expire
  <2>2. TablesOK' /\ NoOrphanTokens' /\ \A s \in Ids : Live(s)' => Live(s)
    BY <2>1 DEF accounts, IInv, TypeOK, TablesOK, NoOrphanTokens, Accounts, Live
  <2> QED BY <2>1, <2>2, TablesPreserve
<1> QED BY <1>1, <1>2

\* Every step keeps the invariant.
LEMMA StepPreserves == IInv /\ [Next]_vars => IInv'
<1> SUFFICES ASSUME IInv, [Next]_vars PROVE IInv'
  OBVIOUS
<1>1. ASSUME NEW h \in Handlers, NEW d \in Devices, ReceiveSignIn(h, d) \/ ReceiveRefresh(h, d)
      PROVE  IInv'
  BY <1>1, ReceivesPreserve
<1>2. ASSUME NEW h \in Handlers, Serve(h)
      PROVE  IInv'
  <2>1. CASE Find(h)
    BY <2>1, FindPreserves
  <2>2. CASE Insert(h)
    BY <2>2, InsertPreserves
  <2>3. CASE Lookup(h)
    BY <2>3, LookupPreserves
  <2>4. CASE GetUser(h)
    BY <2>4, GetUserPreserves
  <2>5. CASE RevokeAll(h) \/ Revoke(h) \/ RevokeUnacknowledged(h)
    BY <2>5, RevokesPreserve
  <2>6. CASE Issue(h) \/ IssueUnacknowledged(h)
    BY <2>6, IssuesPreserve
  <2>7. CASE IssueRefused(h) \/ StatementFails(h)
    BY <2>7, RefusalPreserves DEF IssueRefused, StatementFails
  <2>8. CASE Reply(h) \/ AnswerLost(h)
    <3>1. pc[h] = "reply" /\ Rest(h)
      BY <2>8 DEF Reply, AnswerLost
    <3>2. held' \in {held, [held EXCEPT ![job[h].dev] = given[h]]}
      <4>1. held \in [Devices -> Ids]
        BY Types
      <4>2. CASE Reply(h) /\ given[h] # 0
        BY <4>2 DEF Reply
      <4>3. CASE Reply(h) /\ given[h] = 0
        <5>1. held' = [held EXCEPT ![job[h].dev] = held[job[h].dev]]
          BY <4>3 DEF Reply
        <5> QED BY <4>1, <5>1
      <4>4. CASE AnswerLost(h)
        BY <4>4 DEF AnswerLost
      <4> QED BY <2>8, <4>2, <4>3, <4>4
    <3> QED BY <3>1, <3>2, RestPreserves
  <2> QED BY <1>2, <2>1, <2>2, <2>3, <2>4, <2>5, <2>6, <2>7, <2>8 DEF Serve
<1>3. CASE (\E e \in Emails : DeleteAccount(e)) \/ (\E t \in Ids : Expire(t))
  BY <1>3, EnvironmentPreserves
<1>4. CASE Crash
  BY <1>4, CrashPreserves
<1>5. CASE UNCHANGED vars
  BY <1>5 DEF vars, IInv, TypeOK, Numbered, Active, NoOrphanTokens, Accounts, LateIsRefused, Live
<1> QED BY <1>1, <1>2, <1>3, <1>4, <1>5 DEF Next

\* The invariant holds in every reachable state.
THEOREM InvariantHolds == Spec => []IInv
BY InitEstablishes, StepPreserves, PTL DEF Spec

----------------------------------------------------------------------------
\* Type correctness: no device keeps a token that was not issued, and past its
\* lookup a request is about an account.
THEOREM TypeCorrect == Spec => []TypeOK
<1>1. IInv => TypeOK
  BY DEF IInv
<1> QED BY <1>1, InvariantHolds, PTL

\* The cascade and the foreign key together: no refresh token outlives its
\* account, whatever was in flight when the account was deleted.
THEOREM TokensHaveAccounts == Spec => []NoOrphanTokens
<1>1. IInv => NoOrphanTokens
  BY DEF IInv
<1> QED BY <1>1, InvariantHolds, PTL

\* A refresh with a token that was dead on arrival never yields a pair.
THEOREM DeadTokensStayDead == Spec => []DeadOnArrivalIsRefused
<1>1. IInv => DeadOnArrivalIsRefused
  BY DEF IInv, LateIsRefused, DeadOnArrivalIsRefused
<1> QED BY <1>1, InvariantHolds, PTL

----------------------------------------------------------------------------
(* Patient devices, which wait for an answer before they send again: a     *)
(* login has at most one usable refresh token, whatever else fails.        *)
(* (Without patience it is not so: two overlapping refreshes with one token*)
(* both rotate it.)                                                        *)

OneJobPerDevice ==
  \A g, h \in Handlers : Active(g) /\ Active(h) /\ job[g].dev = job[h].dev => g = h

\* Which requests are at which label.
LabelsFit ==
  \A h \in Handlers :
    /\ pc[h] \in {"lookup", "reuse", "user", "revoke"} => job[h].op = "refresh"
    /\ pc[h] \in {"find", "insert"} => job[h].op # "refresh"

\* A refresh presents what its device still keeps, and the account it is about
\* is the owner of that token, unless the row is gone.
TokenIsHeld ==
  \A h \in Handlers : Active(h) /\ job[h].op = "refresh" =>
    /\ job[h].token = held[job[h].dev] /\ job[h].token # 0
    /\ pc[h] \in {"reuse", "user", "revoke", "issue"} => owner[job[h].token] \in {0, job[h].acct}

\* The login a token descends from: no other token has the number of a request
\* in progress as its root, two devices descend from different logins, and the
\* token about to be handed out descends from the one it replaces.
RootsFit ==
  /\ \A t \in Ids : root[t] <= numCalls
  /\ \A h \in Handlers : Active(h) => \A t \in Ids : root[t] = job[h].n => t = job[h].n
  /\ \A d, e \in Devices :
       held[d] # 0 /\ held[e] # 0 /\ root[held[d]] = root[held[e]] => d = e
  /\ \A h \in Handlers : given[h] # 0 =>
       root[given[h]] = IF job[h].op = "refresh" THEN root[job[h].token] ELSE job[h].n

\* During a rotation the presented token is the only usable one of its login,
\* and once it is revoked there is none.
RotationAlone ==
  \A h \in Handlers : job[h].op = "refresh" =>
    \A s \in Ids : Live(s) /\ root[s] = root[job[h].token] =>
      /\ pc[h] \in {"user", "revoke"} => s = job[h].token
      /\ pc[h] # "issue"

PInv ==
  /\ OneJobPerDevice
  /\ LabelsFit
  /\ TokenIsHeld
  /\ RootsFit
  /\ RotationAlone
  /\ OneLivePerLogin

\* No step but the insertion of a token touches roots or makes a token usable.
TablesShrink ==
  /\ root' = root
  /\ \A t \in Ids : owner'[t] \in {0, owner[t]} /\ (Live(t)' => Live(t))

----------------------------------------------------------------------------
\* Nothing has happened yet.
LEMMA PInit == Init => PInv
<1> SUFFICES ASSUME Init PROVE PInv
  OBVIOUS
<1>1. OneJobPerDevice /\ LabelsFit /\ TokenIsHeld
  BY NoJobType DEF Init, OneJobPerDevice, LabelsFit, TokenIsHeld, Active
<1>2. RootsFit
  BY NoJobType, IdsNat DEF Init, RootsFit, Active
<1>3. RotationAlone /\ OneLivePerLogin
  BY NoJobType DEF Init, RotationAlone, OneLivePerLogin, Live
<1> QED BY <1>1, <1>2, <1>3 DEF PInv

\* A request goes on and no token comes to life.
LEMMA PContinues ==
  ASSUME IInv, PInv, NEW h \in Handlers, Continues(h), TablesShrink, given'[h] = 0,
         pc'[h] \notin {"find", "lookup"},
         pc'[h] = "insert" => job[h].op # "refresh",
         pc'[h] \in {"reuse", "user", "revoke"} => job[h].op = "refresh",
         job[h].op = "refresh" =>
           /\ pc'[h] \in {"reuse", "user", "revoke", "issue"} =>
                owner[job[h].token] \in {0, job'[h].acct}
           /\ \A s \in Ids : Live(s)' /\ root[s] = root[job[h].token] =>
                /\ pc'[h] \in {"user", "revoke"} => s = job[h].token
                /\ pc'[h] # "issue"
  PROVE  PInv'
<1>1. /\ root' = root /\ held' = held /\ numCalls' = numCalls
      /\ \A t \in Ids : owner'[t] \in {0, owner[t]} /\ (Live(t)' => Live(t))
  BY DEF Continues, TablesShrink
<1>2. \A g \in Handlers :
        /\ job'[g].op = job[g].op /\ job'[g].n = job[g].n /\ job'[g].dev = job[g].dev
        /\ job'[g].token = job[g].token
        /\ Active(g)' = Active(g)
        /\ given'[g] \in {0, given[g]}
  BY DEF Continues, Only, SameRequest, Active
<1>3. \A g \in Handlers \ {h} : pc'[g] = pc[g] /\ job'[g] = job[g]
  BY DEF Continues, Only
<1>4. \A g \in Handlers : job[g].token \in Ids
  BY Types
<1>5. OneJobPerDevice'
  BY <1>2 DEF PInv, OneJobPerDevice
<1>6. LabelsFit'
  <2>1. job'[h].op = job[h].op
    BY <1>2
  <2> QED BY <1>3, <2>1 DEF PInv, LabelsFit
<1>7. TokenIsHeld'
  <2> SUFFICES ASSUME NEW g \in Handlers, Active(g)', job'[g].op = "refresh"
               PROVE  /\ job'[g].token = held'[job'[g].dev] /\ job'[g].token # 0
                      /\ pc'[g] \in {"reuse", "user", "revoke", "issue"} =>
                           owner'[job'[g].token] \in {0, job'[g].acct}
    BY DEF TokenIsHeld
  <2>1. /\ job[g].token = held[job[g].dev] /\ job[g].token # 0
        /\ pc[g] \in {"reuse", "user", "revoke", "issue"} =>
             owner[job[g].token] \in {0, job[g].acct}
    BY <1>2 DEF PInv, TokenIsHeld
  <2>2. owner'[job[g].token] \in {0, owner[job[g].token]}
    BY <1>1, <1>4
  <2>3. CASE g = h
    BY <1>1, <1>2, <2>1, <2>2, <2>3
  <2>4. CASE g # h
    BY <1>1, <1>2, <1>3, <2>1, <2>2, <2>4
  <2> QED BY <2>3, <2>4
<1>8. RootsFit'
  BY <1>1, <1>2 DEF PInv, RootsFit
<1>9. RotationAlone'
  <2> SUFFICES ASSUME NEW g \in Handlers, job'[g].op = "refresh",
                      NEW s \in Ids, Live(s)', root'[s] = root'[job'[g].token]
               PROVE  /\ pc'[g] \in {"user", "revoke"} => s = job'[g].token
                      /\ pc'[g] # "issue"
    BY DEF RotationAlone
  <2>1. Live(s) /\ root[s] = root[job[g].token] /\ job[g].op = "refresh"
    BY <1>1, <1>2
  <2>2. CASE g = h
    BY <1>2, <2>1, <2>2
  <2>3. CASE g # h
    BY <1>2, <1>3, <2>1, <2>3 DEF PInv, RotationAlone
  <2> QED BY <2>2, <2>3
<1>10. OneLivePerLogin'
  BY <1>1 DEF PInv, OneLivePerLogin
<1> QED BY <1>5, <1>6, <1>7, <1>8, <1>9, <1>10 DEF PInv

\* A patient device sends: no other request of it is in progress.
LEMMA PReceive ==
  ASSUME IInv, PInv, Patient, NEW h \in Handlers, NEW d \in Devices, NEW j \in Job,
         NEW l \in Labels, Receive(h, d, j, l),
         j.n = numCalls + 1, j.dev = d,
         \/ l = "find" /\ j.op # "refresh"
         \/ l = "lookup" /\ j.op = "refresh" /\ j.token = held[d] /\ held[d] # 0
  PROVE  PInv'
<1>1. /\ pc[h] = "idle" /\ numCalls' = numCalls + 1
      /\ job' = [job EXCEPT ![h] = j] /\ pc' = [pc EXCEPT ![h] = l]
      /\ \A g \in Handlers : Active(g) => job[g].dev # d
      /\ owner' = owner /\ revoked' = revoked /\ expired' = expired /\ root' = root
      /\ held' = held /\ given' = given
  BY DEF Receive, Goto, tokens, MaySend, Active
<1>2. /\ pc'[h] = l /\ job'[h] = j
      /\ \A g \in Handlers \ {h} : pc'[g] = pc[g] /\ job'[g] = job[g]
      /\ given[h] = 0
  <2>1. pc \in [Handlers -> Labels] /\ job \in [Handlers -> Job]
    BY Types
  <2>2. given[h] = 0
    BY <1>1 DEF IInv, Numbered
  <2> QED BY <1>1, <2>1, <2>2
<1>3. \A g \in Handlers : job[g].token \in Ids
  BY Types
<1>4. OneJobPerDevice'
  BY <1>1, <1>2 DEF PInv, OneJobPerDevice, Active
<1>5. LabelsFit'
  BY <1>2 DEF PInv, LabelsFit
<1>6. TokenIsHeld'
  BY <1>1, <1>2 DEF PInv, TokenIsHeld, Active
<1>7. RootsFit'
  <2>1. numCalls \in Nat /\ \A t \in Ids : root[t] \in Nat
    BY Types, IdsNat DEF TablesOK
  <2>2. \A t \in Ids : root[t] <= numCalls
    BY DEF PInv, RootsFit
  <2>3. \A t \in Ids : root'[t] <= numCalls' /\ root'[t] # j.n
    BY <1>1, <2>1, <2>2
  <2>4. \A g \in Handlers : Active(g)' => \A t \in Ids : root'[t] = job'[g].n => t = job'[g].n
    <3> SUFFICES ASSUME NEW g \in Handlers, Active(g)', NEW t \in Ids, root'[t] = job'[g].n
                 PROVE  t = job'[g].n
      OBVIOUS
    <3>1. g # h
      BY <1>2, <2>3
    <3> QED BY <1>1, <1>2, <3>1 DEF PInv, RootsFit, Active
  <2>5. \A g \in Handlers : given'[g] # 0 =>
          root'[given'[g]] = IF job'[g].op = "refresh" THEN root'[job'[g].token] ELSE job'[g].n
    BY <1>1, <1>2 DEF PInv, RootsFit
  <2>6. \A e, f \in Devices :
          held'[e] # 0 /\ held'[f] # 0 /\ root'[held'[e]] = root'[held'[f]] => e = f
    BY <1>1 DEF PInv, RootsFit
  <2> QED BY <2>3, <2>4, <2>5, <2>6 DEF RootsFit, Active
<1>8. RotationAlone'
  BY <1>1, <1>2 DEF PInv, RotationAlone, Live
<1>9. OneLivePerLogin'
  BY <1>1 DEF PInv, OneLivePerLogin, Live
<1> QED BY <1>4, <1>5, <1>6, <1>7, <1>8, <1>9 DEF PInv

\* The answer arrives or is lost.
LEMMA PRest ==
  ASSUME IInv, PInv, NEW h \in Handlers, pc[h] = "reply", Rest(h),
         \/ held' = held
         \/ held' = [held EXCEPT ![job[h].dev] = given[h]] /\ given[h] # 0
  PROVE  PInv'
<1>1. /\ pc' = [pc EXCEPT ![h] = "idle"] /\ job' = [job EXCEPT ![h] = NoJob]
      /\ given' = [given EXCEPT ![h] = 0] /\ numCalls' = numCalls
      /\ owner' = owner /\ revoked' = revoked /\ expired' = expired /\ root' = root
  BY DEF Rest, Goto, tokens
<1>2. /\ pc'[h] = "idle" /\ job'[h] = NoJob /\ given'[h] = 0
      /\ \A g \in Handlers \ {h} : pc'[g] = pc[g] /\ job'[g] = job[g] /\ given'[g] = given[g]
  <2>1. /\ pc \in [Handlers -> Labels] /\ job \in [Handlers -> Job]
        /\ given \in [Handlers -> Ids]
    BY Types
  <2> QED BY <1>1, <2>1
<1>3. \A d \in Devices : held'[d] # held[d] =>
        d = job[h].dev /\ held'[d] = given[h] /\ given[h] # 0
  BY Types
<1>4. Active(h)
  BY DEF Active
<1>5. OneJobPerDevice'
  BY <1>2 DEF PInv, OneJobPerDevice, Active
<1>6. LabelsFit'
  BY <1>2 DEF PInv, LabelsFit
<1>7. TokenIsHeld'
  <2> SUFFICES ASSUME NEW g \in Handlers, Active(g)', job'[g].op = "refresh"
               PROVE  /\ job'[g].token = held'[job'[g].dev] /\ job'[g].token # 0
                      /\ pc'[g] \in {"reuse", "user", "revoke", "issue"} =>
                           owner'[job'[g].token] \in {0, job'[g].acct}
    BY DEF TokenIsHeld
  <2>1. g # h /\ Active(g) /\ job'[g] = job[g] /\ pc'[g] = pc[g]
    BY <1>2 DEF Active
  <2>2. job[g].dev # job[h].dev /\ job[g].dev \in Devices
    BY <1>4, <2>1, Types DEF PInv, OneJobPerDevice
  <2>3. held'[job[g].dev] = held[job[g].dev]
    BY <1>3, <2>2
  <2> QED BY <1>1, <2>1, <2>3 DEF PInv, TokenIsHeld
<1>8. RootsFit'
  <2>1. \A t \in Ids : root'[t] <= numCalls'
    BY <1>1 DEF PInv, RootsFit
  <2>2. \A g \in Handlers : Active(g)' => \A t \in Ids : root'[t] = job'[g].n => t = job'[g].n
    BY <1>1, <1>2 DEF PInv, RootsFit, Active
  <2>3. \A g \in Handlers : given'[g] # 0 =>
          root'[given'[g]] = IF job'[g].op = "refresh" THEN root'[job'[g].token] ELSE job'[g].n
    BY <1>1, <1>2 DEF PInv, RootsFit
  <2>4. ASSUME NEW e \in Devices, held[e] # 0, e # job[h].dev, given[h] # 0
        PROVE  root[held[e]] # root[given[h]]
    <3>1. held[e] \in Ids /\ held[e] # job[h].n
      BY <1>4, Types DEF IInv, Numbered
    <3>2. CASE job[h].op = "refresh"
      <4>1. /\ root[given[h]] = root[job[h].token]
            /\ job[h].token = held[job[h].dev] /\ job[h].token # 0
        BY <1>4, <2>4, <3>2 DEF PInv, RootsFit, TokenIsHeld
      <4>2. job[h].dev \in Devices
        BY Types
      <4> QED BY <2>4, <4>1, <4>2 DEF PInv, RootsFit
    <3>3. CASE job[h].op # "refresh"
      <4>1. root[given[h]] = job[h].n
        BY <2>4, <3>3 DEF PInv, RootsFit
      <4> QED BY <1>4, <3>1, <4>1 DEF PInv, RootsFit
    <3> QED BY <3>2, <3>3
  <2>5. \A d, e \in Devices :
          held'[d] # 0 /\ held'[e] # 0 /\ root'[held'[d]] = root'[held'[e]] => d = e
    <3> SUFFICES ASSUME NEW d \in Devices, NEW e \in Devices,
                        held'[d] # 0, held'[e] # 0, root[held'[d]] = root[held'[e]]
                 PROVE  d = e
      BY <1>1
    <3>1. CASE held'[d] = held[d] /\ held'[e] = held[e]
      BY <3>1 DEF PInv, RootsFit
    <3>2. CASE held'[d] # held[d]
      BY <1>3, <2>4, <3>2
    <3>3. CASE held'[e] # held[e]
      BY <1>3, <2>4, <3>3
    <3> QED BY <3>1, <3>2, <3>3
  <2> QED BY <2>1, <2>2, <2>3, <2>5 DEF RootsFit, Active
<1>9. RotationAlone'
  BY <1>1, <1>2, NoJobType DEF PInv, RotationAlone, Live
<1>10. OneLivePerLogin'
  BY <1>1 DEF PInv, OneLivePerLogin, Live
<1> QED BY <1>5, <1>6, <1>7, <1>8, <1>9, <1>10 DEF PInv

\* A crash forgets the requests in progress.
LEMMA PCrash ==
  ASSUME IInv, PInv, Crash
  PROVE  PInv'
<1>1. /\ owner' = owner /\ revoked' = revoked /\ expired' = expired /\ root' = root
      /\ held' = held /\ numCalls' = numCalls
      /\ pc' = [h \in Handlers |-> "idle"] /\ job' = [h \in Handlers |-> NoJob]
      /\ given' = [h \in Handlers |-> 0]
  BY DEF Crash, tokens
<1>2. OneJobPerDevice' /\ LabelsFit' /\ TokenIsHeld'
  BY <1>1 DEF OneJobPerDevice, LabelsFit, TokenIsHeld, Active
<1>3. RootsFit'
  BY <1>1 DEF PInv, RootsFit, Active
<1>4. RotationAlone' /\ OneLivePerLogin'
  BY <1>1, NoJobType DEF PInv, RotationAlone, OneLivePerLogin, Live
<1> QED BY <1>2, <1>3, <1>4 DEF PInv

\* A step in the tables alone that brings no token to life.
LEMMA PTables ==
  ASSUME IInv, PInv, TablesShrink,
         held' = held, pc' = pc, job' = job, given' = given, numCalls' = numCalls
  PROVE  PInv'
<1>1. /\ root' = root
      /\ \A t \in Ids : owner'[t] \in {0, owner[t]} /\ (Live(t)' => Live(t))
  BY DEF TablesShrink
<1>2. \A g \in Handlers : job[g].token \in Ids
  BY Types
<1>3. OneJobPerDevice' /\ LabelsFit'
  BY DEF PInv, OneJobPerDevice, LabelsFit, Active
<1>4. TokenIsHeld'
  BY <1>1, <1>2 DEF PInv, TokenIsHeld, Active
<1>5. RootsFit'
  BY <1>1 DEF PInv, RootsFit, Active
<1>6. RotationAlone' /\ OneLivePerLogin'
  BY <1>1 DEF PInv, RotationAlone, OneLivePerLogin
<1> QED BY <1>3, <1>4, <1>5, <1>6 DEF PInv

\* The new token is the only usable one of its login.
LEMMA PIssue ==
  ASSUME IInv, PInv, NEW h \in Handlers, pc[h] = "issue", InsertToken(h),
         Continues(h), pc'[h] = "reply"
  PROVE  PInv'
<1> DEFINE n == job[h].n
           r == IF job[h].op = "refresh" THEN root[job[h].token] ELSE job[h].n
<1>1. /\ Active(h) /\ n \in Ids /\ n # 0 /\ n <= numCalls
      /\ \A g \in Handlers : job[g].token \in Ids /\ job[g].token # n
      /\ \A d \in Devices : held[d] \in Ids /\ held[d] # n
      /\ \A g \in Handlers \ {h} : Active(g) => job[g].n # n
  BY Types DEF IInv, Numbered, Active
<1>2. /\ owner' = [owner EXCEPT ![n] = job[h].acct] /\ root' = [root EXCEPT ![n] = r]
      /\ revoked' = revoked /\ expired' = expired
      /\ held' = held /\ numCalls' = numCalls
  BY DEF InsertToken, Continues
<1>3. /\ owner \in [Ids -> Ids] /\ root \in [Ids -> Ids]
      /\ root'[n] = r
      /\ \A t \in Ids \ {n} : owner'[t] = owner[t] /\ root'[t] = root[t] /\ Live(t)' = Live(t)
  <2>1. owner \in [Ids -> Ids] /\ root \in [Ids -> Ids]
    BY Types DEF TablesOK
  <2> QED BY <1>1, <1>2, <2>1 DEF Live
<1>4. \A g \in Handlers :
        /\ job'[g].op = job[g].op /\ job'[g].n = job[g].n /\ job'[g].dev = job[g].dev
        /\ job'[g].token = job[g].token
        /\ Active(g)' = Active(g)
  BY DEF Continues, Only, SameRequest, Active
<1>5. \A g \in Handlers \ {h} : pc'[g] = pc[g] /\ job'[g] = job[g] /\ given'[g] = given[g]
  BY DEF Continues, Only
<1>6. ASSUME NEW g \in Handlers, g # h, Active(g), job[g].op = "refresh"
      PROVE  root[job[g].token] # r
  <2>1. job[g].token = held[job[g].dev] /\ job[g].token # 0 /\ job[g].dev \in Devices
    BY <1>6, Types DEF PInv, TokenIsHeld
  <2>2. CASE job[h].op = "refresh"
    <3>1. job[h].token = held[job[h].dev] /\ job[h].token # 0 /\ job[h].dev \in Devices
      BY <1>1, <2>2, Types DEF PInv, TokenIsHeld
    <3>2. job[g].dev # job[h].dev
      BY <1>1, <1>6 DEF PInv, OneJobPerDevice
    <3> QED BY <2>1, <2>2, <3>1, <3>2 DEF PInv, RootsFit
  <2>3. CASE job[h].op # "refresh"
    BY <1>1, <2>3 DEF PInv, RootsFit
  <2> QED BY <2>2, <2>3
<1>7. \A s \in Ids \ {n} : Live(s) => root[s] # r
  <2>1. CASE job[h].op = "refresh"
    BY <2>1 DEF PInv, RotationAlone
  <2>2. CASE job[h].op # "refresh"
    BY <1>1, <2>2 DEF PInv, RootsFit
  <2> QED BY <2>1, <2>2
<1>8. OneJobPerDevice'
  BY <1>4 DEF PInv, OneJobPerDevice
<1>9. LabelsFit'
  BY <1>5 DEF PInv, LabelsFit
<1>10. TokenIsHeld'
  <2> SUFFICES ASSUME NEW g \in Handlers, Active(g)', job'[g].op = "refresh"
               PROVE  /\ job'[g].token = held'[job'[g].dev] /\ job'[g].token # 0
                      /\ pc'[g] \in {"reuse", "user", "revoke", "issue"} =>
                           owner'[job'[g].token] \in {0, job'[g].acct}
    BY DEF TokenIsHeld
  <2>1. owner'[job[g].token] = owner[job[g].token]
    BY <1>1, <1>3
  <2>2. CASE g = h
    BY <1>2, <1>4, <2>2 DEF PInv, TokenIsHeld
  <2>3. CASE g # h
    BY <1>2, <1>4, <1>5, <2>1, <2>3 DEF PInv, TokenIsHeld
  <2> QED BY <2>2, <2>3
<1>11. RootsFit'
  <2>1. \A t \in Ids : root'[t] <= numCalls'
    <3>1. r <= numCalls
      BY <1>1 DEF PInv, RootsFit
    <3> HIDE DEF r
    <3> QED BY <1>2, <1>3, <3>1 DEF PInv, RootsFit
  <2>2. \A g \in Handlers : Active(g)' => \A t \in Ids : root'[t] = job'[g].n => t = job'[g].n
    <3> SUFFICES ASSUME NEW g \in Handlers, Active(g), NEW t \in Ids, root'[t] = job[g].n
                 PROVE  t = job[g].n
      BY <1>4
    <3>1. CASE t # n
      BY <1>3, <3>1 DEF PInv, RootsFit
    <3>2. CASE t = n /\ g = h
      BY <3>2
    <3>3. CASE t = n /\ g # h
      <4>1. r = job[g].n /\ n # job[g].n
        BY <1>1, <1>3, <3>3
      <4>2. CASE job[h].op = "refresh"
        <5>1. root[job[h].token] = job[g].n
          BY <4>1, <4>2
        <5>2. job[h].token = job[g].n
          BY <1>1, <5>1 DEF PInv, RootsFit
        <5> QED BY <5>2 DEF IInv, Numbered
      <4>3. CASE job[h].op # "refresh"
        BY <4>1, <4>3
      <4> QED BY <4>2, <4>3
    <3> QED BY <3>1, <3>2, <3>3
  <2>3. \A d, e \in Devices :
          held'[d] # 0 /\ held'[e] # 0 /\ root'[held'[d]] = root'[held'[e]] => d = e
    BY <1>1, <1>2, <1>3 DEF PInv, RootsFit
  <2>4. \A g \in Handlers : given'[g] # 0 =>
          root'[given'[g]] = IF job'[g].op = "refresh" THEN root'[job'[g].token] ELSE job'[g].n
    <3> SUFFICES ASSUME NEW g \in Handlers, given'[g] # 0
                 PROVE  root'[given'[g]] =
                          IF job[g].op = "refresh" THEN root[job[g].token] ELSE job[g].n
      BY <1>1, <1>3, <1>4
    <3>1. CASE g = h
      <4>1. given'[h] = n
        BY <3>1 DEF Continues
      <4> QED BY <1>3, <3>1, <4>1
    <3>2. CASE g # h
      <4>1. given'[g] = given[g] /\ given[g] = job[g].n /\ Active(g) /\ given[g] \in Ids
        BY <1>5, <3>2, Types DEF IInv, Numbered, Active
      <4>2. root'[given[g]] = root[given[g]]
        BY <1>1, <1>3, <3>2, <4>1
      <4> QED BY <3>2, <4>1, <4>2 DEF PInv, RootsFit
    <3> QED BY <3>1, <3>2
  <2> QED BY <2>1, <2>2, <2>3, <2>4 DEF RootsFit, Active
<1>12. RotationAlone'
  <2> SUFFICES ASSUME NEW g \in Handlers, job'[g].op = "refresh",
                      NEW s \in Ids, Live(s)', root'[s] = root'[job'[g].token]
               PROVE  /\ pc'[g] \in {"user", "revoke"} => s = job'[g].token
                      /\ pc'[g] # "issue"
    BY DEF RotationAlone
  <2>1. CASE g = h
    BY <2>1
  <2>2. CASE g # h /\ pc[g] \notin {"user", "revoke", "issue"}
    BY <1>5, <2>2
  <2>3. CASE g # h /\ pc[g] \in {"user", "revoke", "issue"}
    <3>1. Active(g) /\ job[g].op = "refresh" /\ root'[s] = root[job[g].token]
      BY <1>1, <1>3, <1>4, <2>3 DEF Active
    <3>2. s # n
      BY <1>3, <1>6, <2>3, <3>1
    <3>3. Live(s) /\ root[s] = root[job[g].token]
      BY <1>3, <3>1, <3>2
    <3> QED BY <1>4, <1>5, <2>3, <3>1, <3>3 DEF PInv, RotationAlone
  <2> QED BY <2>1, <2>2, <2>3
<1>13. OneLivePerLogin'
  <2> SUFFICES ASSUME NEW s \in Ids, NEW t \in Ids, Live(s)', Live(t)', root'[s] = root'[t]
               PROVE  s = t
    BY DEF OneLivePerLogin
  <2>1. CASE s # n /\ t # n
    BY <1>3, <2>1 DEF PInv, OneLivePerLogin
  <2>2. CASE s = n /\ t # n
    BY <1>3, <1>7, <2>2
  <2>3. CASE s # n /\ t = n
    BY <1>3, <1>7, <2>3
  <2> QED BY <2>1, <2>2, <2>3
<1> QED BY <1>8, <1>9, <1>10, <1>11, <1>12, <1>13 DEF PInv

----------------------------------------------------------------------------
(* The actions.                                                            *)

\* A sign-in or a refresh arrives.
LEMMA PReceives ==
  ASSUME IInv, PInv, Patient, NEW h \in Handlers, NEW d \in Devices,
         ReceiveSignIn(h, d) \/ ReceiveRefresh(h, d)
  PROVE  PInv'
<1>1. ASSUME numCalls < MaxCalls PROVE numCalls + 1 \in Ids
  BY <1>1, Types, IdsNat, SessionAssumption DEF SessionAssumption
<1>2. CASE ReceiveSignIn(h, d)
  <2>1. PICK o \in {"register", "login", "oauth"}, e \in Emails :
          Receive(h, d, SignIn(o, d, e), "find")
    BY <1>2 DEF ReceiveSignIn
  <2>2. numCalls + 1 \in Ids
    BY <1>1, <2>1 DEF Receive
  <2> DEFINE j == SignIn(o, d, e)
  <2>3. j \in Job /\ j.n = numCalls + 1 /\ j.dev = d /\ j.op = o
    BY <2>2, NoJobType DEF SignIn, Job
  <2> HIDE DEF j
  <2>4. Receive(h, d, j, "find")
    BY <2>1 DEF j
  <2> QED BY <2>3, <2>4, PReceive DEF Labels
<1>3. CASE ReceiveRefresh(h, d)
  <2> DEFINE j == [NoJob EXCEPT !.op = "refresh", !.n = numCalls + 1, !.dev = d,
                                !.token = held[d], !.late = ~Live(held[d])]
  <2>1. Receive(h, d, j, "lookup") /\ held[d] # 0
    BY <1>3 DEF ReceiveRefresh
  <2>2. numCalls + 1 \in Ids /\ held[d] \in Ids
    BY <1>1, <2>1, Types DEF Receive
  <2>3. j.op = "refresh" /\ j.n = numCalls + 1 /\ j.dev = d /\ j.token = held[d]
    BY NoJobType DEF Job
  <2>4. (~Live(held[d])) \in BOOLEAN
    OBVIOUS
  <2>5. j \in Job
    BY <2>2, <2>4, NoJobType DEF Job
  <2> HIDE DEF j
  <2> QED BY <2>1, <2>3, <2>5, PReceive DEF Labels
<1> QED BY <1>2, <1>3

\* A refusal that at most revokes.
LEMMA PRefusal ==
  ASSUME IInv, PInv, NEW h \in Handlers, pc[h] \notin {"idle", "reply"},
         Refuse(h), TablesShrink
  PROVE  PInv'
<1>1. Continues(h) /\ pc'[h] = "reply" /\ given'[h] = 0
  BY RefuseContinues
<1> QED BY <1>1, PContinues

\* Tables that stay, tables in which only accounts or revocations are new.
LEMMA Shrinking ==
  ASSUME IInv, UNCHANGED <<owner, expired, root>>, revoked \subseteq revoked'
  PROVE  TablesShrink
BY Types DEF TablesShrink, Live

\* The steps of a sign-in up to its token.
LEMMA PSignIn ==
  ASSUME IInv, PInv, NEW h \in Handlers, Find(h) \/ Insert(h)
  PROVE  PInv'
<1>1. /\ pc[h] \in {"find", "insert"} /\ job[h].op # "refresh"
      /\ job[h].n \in Ids /\ account[job[h].email] \in Ids /\ 0 \in Ids
  BY Types, IdsNat DEF Find, Insert, PInv, LabelsFit, TablesOK
<1>2. UNCHANGED <<owner, revoked, expired, root>>
  BY DEF Find, Insert, FindRegister, FindLogin, FindOAuth, tokens
<1>3. TablesShrink
  BY <1>2, Shrinking
<1>4. \/ Refuse(h)
      \/ Proceed(h, 0, "insert")
      \/ Proceed(h, account[job[h].email], "issue")
      \/ Proceed(h, job[h].n, "issue")
  BY DEF Find, Insert, FindRegister, FindLogin, FindOAuth
<1>5. {"insert", "issue"} \subseteq Labels \ {"idle", "reply"}
  BY DEF Labels
<1>6. ASSUME NEW a \in Ids, NEW l \in {"insert", "issue"}, Proceed(h, a, l)
      PROVE  PInv'
  <2>1. Continues(h) /\ pc'[h] = l /\ given'[h] = 0
    BY <1>1, <1>5, <1>6, ProceedContinues
  <2> QED BY <1>1, <1>3, <2>1, PContinues
<1>7. CASE Refuse(h)
  BY <1>1, <1>3, <1>7, PRefusal
<1> QED BY <1>1, <1>4, <1>6, <1>7

\* The steps of a rotation up to its token.
LEMMA PRotate ==
  ASSUME IInv, PInv, NEW h \in Handlers, Lookup(h) \/ GetUser(h) \/ Revoke(h)
  PROVE  PInv'
<1> DEFINE t == job[h].token
           a == job[h].acct
<1>1. /\ pc[h] \in {"lookup", "user", "revoke"} /\ job[h].op = "refresh"
      /\ t \in Ids /\ a \in Ids /\ owner[t] \in Ids
      /\ pc[h] \in {"user", "revoke"} => owner[t] \in {0, a}
      /\ pc[h] \in {"user", "revoke"} =>
           \A s \in Ids : Live(s) /\ root[s] = root[t] => s = t
  BY Types DEF Lookup, GetUser, Revoke, PInv, LabelsFit, TokenIsHeld, RotationAlone,
     TablesOK, Active
<1>2. {"reuse", "user", "revoke", "issue"} \subseteq Labels \ {"idle", "reply"}
  BY DEF Labels
<1>3. CASE Lookup(h)
  <2>1. TablesShrink
    BY <1>3, Shrinking DEF Lookup, tokens
  <2>2. CASE Refuse(h)
    BY <1>1, <2>1, <2>2, PRefusal
  <2>3. CASE Proceed(h, owner[t], "reuse")
    <3>1. Continues(h) /\ pc'[h] = "reuse" /\ job'[h].acct = owner[t] /\ given'[h] = 0
      BY <1>1, <1>2, <2>3, ProceedContinues
    <3> QED BY <1>1, <2>1, <3>1, PContinues
  <2>4. CASE Live(t) /\ Proceed(h, owner[t], "user")
    <3>1. Continues(h) /\ pc'[h] = "user" /\ job'[h].acct = owner[t] /\ given'[h] = 0
      BY <1>1, <1>2, <2>4, ProceedContinues
    <3>2. \A s \in Ids : Live(s)' /\ root[s] = root[t] => s = t
      BY <1>1, <2>1, <2>4 DEF TablesShrink, PInv, OneLivePerLogin
    <3> QED BY <1>1, <2>1, <3>1, <3>2, PContinues
  <2> QED BY <1>3, <2>2, <2>3, <2>4 DEF Lookup
<1>4. CASE GetUser(h)
  <2>1. TablesShrink
    BY <1>4, Shrinking DEF GetUser, tokens
  <2>2. CASE Refuse(h)
    BY <1>1, <2>1, <2>2, PRefusal
  <2>3. CASE Proceed(h, a, "revoke")
    <3>1. Continues(h) /\ pc'[h] = "revoke" /\ job'[h].acct = a /\ given'[h] = 0
      BY <1>1, <1>2, <2>3, ProceedContinues
    <3>2. \A s \in Ids : Live(s)' /\ root[s] = root[t] => s = t
      BY <1>1, <1>4, <2>1 DEF TablesShrink, GetUser
    <3> QED BY <1>1, <1>4, <2>1, <3>1, <3>2, PContinues DEF GetUser
  <2> QED BY <1>4, <2>2, <2>3 DEF GetUser
<1>5. CASE Revoke(h)
  <2>1. /\ pc[h] = "revoke" /\ Proceed(h, a, "issue")
        /\ revoked' = revoked \union {x \in {t} : owner[x] = a}
        /\ UNCHANGED <<owner, expired, root>>
    BY <1>5 DEF Revoke, MarkRevoked
  <2>2. TablesShrink
    BY <2>1, Shrinking
  <2>3. Continues(h) /\ pc'[h] = "issue" /\ job'[h].acct = a /\ given'[h] = 0
    BY <1>1, <1>2, <2>1, ProceedContinues
  <2>4. ASSUME NEW s \in Ids, Live(s)', root[s] = root[t]
        PROVE  FALSE
    <3>1. Live(s)
      BY <2>2, <2>4 DEF TablesShrink
    <3>2. s = t
      BY <1>1, <2>1, <2>4, <3>1
    <3>3. owner[t] = a
      BY <1>1, <2>1, <3>1, <3>2 DEF Live
    <3>4. s \in revoked'
      BY <2>1, <3>2, <3>3
    <3> QED BY <2>4, <3>4 DEF Live
  <2> QED BY <1>1, <2>1, <2>2, <2>3, <2>4, PContinues
<1> QED BY <1>3, <1>4, <1>5

\* Every step keeps the invariant of patient devices.
LEMMA PStep ==
  ASSUME Patient PROVE IInv /\ PInv /\ [Next]_vars => PInv'
<1> SUFFICES ASSUME IInv, PInv, [Next]_vars PROVE PInv'
  OBVIOUS
<1>1. ASSUME NEW h \in Handlers, NEW d \in Devices, ReceiveSignIn(h, d) \/ ReceiveRefresh(h, d)
      PROVE  PInv'
  BY <1>1, PReceives
<1>2. ASSUME NEW h \in Handlers, Serve(h)
      PROVE  PInv'
  <2>1. CASE Find(h) \/ Insert(h)
    BY <2>1, PSignIn
  <2>2. CASE Lookup(h) \/ GetUser(h) \/ Revoke(h)
    BY <2>2, PRotate
  <2>3. CASE RevokeAll(h) \/ RevokeUnacknowledged(h) \/ IssueRefused(h) \/ StatementFails(h)
    <3>1. Refuse(h) /\ pc[h] \notin {"idle", "reply"}
      BY <2>3 DEF RevokeAll, RevokeUnacknowledged, IssueRefused, StatementFails
    <3>2. UNCHANGED <<owner, expired, root>> /\ revoked \subseteq revoked'
      BY <2>3 DEF RevokeAll, RevokeUnacknowledged, IssueRefused, StatementFails, MarkRevoked, tokens
    <3> QED BY <3>1, <3>2, Shrinking, PRefusal
  <2>4. CASE Issue(h)
    <3>1. /\ pc[h] = "issue" /\ InsertToken(h)
          /\ given' = [given EXCEPT ![h] = job[h].n] /\ pc' = [pc EXCEPT ![h] = "reply"]
          /\ held' = held /\ job' = job /\ numCalls' = numCalls
      BY <2>4 DEF Issue, Goto
    <3>2. Continues(h) /\ pc'[h] = "reply"
      BY <3>1, Types DEF Continues, Only, SameRequest, Labels
    <3> QED BY <3>1, <3>2, PIssue
  <2>5. CASE IssueUnacknowledged(h)
    BY <2>5, RefuseContinues, PIssue DEF IssueUnacknowledged
  <2>6. CASE Reply(h) \/ AnswerLost(h)
    <3>1. pc[h] = "reply" /\ Rest(h)
      BY <2>6 DEF Reply, AnswerLost
    <3>2. CASE given[h] = 0 /\ Reply(h)
      <4>1. held' = [held EXCEPT ![job[h].dev] = held[job[h].dev]]
        BY <3>2 DEF Reply
      <4>2. held' = held
        BY <4>1, Types
      <4> QED BY <3>1, <4>2, PRest
    <3>3. CASE given[h] # 0 /\ Reply(h)
      <4>1. held' = [held EXCEPT ![job[h].dev] = given[h]]
        BY <3>3 DEF Reply
      <4> QED BY <3>1, <3>3, <4>1, PRest
    <3>4. CASE AnswerLost(h)
      BY <3>1, <3>4, PRest DEF AnswerLost
    <3> QED BY <2>6, <3>2, <3>3, <3>4
  <2> QED BY <1>2, <2>1, <2>2, <2>3, <2>4, <2>5, <2>6 DEF Serve
<1>3. ASSUME NEW e \in Emails, DeleteAccount(e) PROVE PInv'
  <2>1. /\ owner' = [t \in Ids |-> IF owner[t] = account[e] THEN 0 ELSE owner[t]]
        /\ UNCHANGED <<revoked, expired, root, held, pc, job, given, numCalls>>
    BY <1>3 DEF DeleteAccount
  <2>2. TablesShrink
    BY <2>1 DEF TablesShrink, Live
  <2> QED BY <2>1, <2>2, PTables
<1>4. ASSUME NEW t \in Ids, Expire(t) PROVE PInv'
  <2>1. /\ expired' = expired \union {t}
        /\ UNCHANGED <<owner, revoked, root, held, pc, job, given, numCalls>>
    BY <1>4 DEF Expire
  <2>2. TablesShrink
    BY <2>1 DEF TablesShrink, Live
  <2> QED BY <2>1, <2>2, PTables
<1>5. CASE Crash
  BY <1>5, PCrash
<1>6. CASE UNCHANGED vars
  <2>1. TablesShrink
    BY <1>6 DEF vars, TablesShrink, Live
  <2> QED BY <1>6, <2>1, PTables DEF vars
<1> QED BY <1>1, <1>2, <1>3, <1>4, <1>5, <1>6 DEF Next

----------------------------------------------------------------------------
(* Without failures nobody is taken for a thief.                           *)

\* The request is between the revocation of the old token and the answer with
\* the new one.
Renewing(h, d) ==
  /\ job[h].dev = d /\ job[h].op = "refresh"
  /\ pc[h] = "issue" \/ (pc[h] = "reply" /\ given[h] # 0)

\* The token a device keeps is revoked only while it is being renewed.
RevokedIsRenewed ==
  \A d \in Devices :
    owner[held[d]] # 0 /\ held[d] \in revoked => \E h \in Handlers : Renewing(h, d)

\* No new token is born revoked.
RevokedIsKnown ==
  /\ \A t \in revoked : t <= numCalls
  /\ \A h \in Handlers : Active(h) => job[h].n \notin revoked

QInv ==
  /\ \A h \in Handlers : pc[h] # "reuse"
  /\ RevokedIsRenewed
  /\ RevokedIsKnown

\* Nothing is revoked yet.
LEMMA QInit == Init => QInv
BY DEF Init, QInv, RevokedIsRenewed, RevokedIsKnown, Active

\* A step that revokes nothing and ends no renewal.
LEMMA QCalm ==
  ASSUME IInv, QInv, revoked' = revoked, held' = held, numCalls' = numCalls,
         \A t \in Ids : owner'[t] # 0 /\ owner[t] = 0 =>
           \A d \in Devices : held[d] # t,
         \A g \in Handlers : pc'[g] # "reuse",
         \A g \in Handlers : Active(g)' => Active(g) /\ job'[g].n = job[g].n,
         \A g \in Handlers, d \in Devices :
           Renewing(g, d) => Renewing(g, d)' \/ owner'[held[d]] = 0
  PROVE  QInv'
<1>1. \A d \in Devices : held[d] \in Ids
  BY Types
<1>2. RevokedIsRenewed'
  <2> SUFFICES ASSUME NEW d \in Devices, owner'[held[d]] # 0, held[d] \in revoked
               PROVE  \E h \in Handlers : Renewing(h, d)'
    BY DEF RevokedIsRenewed
  <2>1. owner[held[d]] # 0
    BY <1>1
  <2>2. PICK h \in Handlers : Renewing(h, d)
    BY <2>1 DEF QInv, RevokedIsRenewed
  <2> QED BY <2>2
<1>3. RevokedIsKnown'
  BY DEF QInv, RevokedIsKnown, Active
<1> QED BY <1>2, <1>3 DEF QInv

\* A request goes on without revoking; it was not about to hand out a token,
\* or it does so now, or the token it replaces is gone.
LEMMA QContinues ==
  ASSUME IInv, QInv, NEW h \in Handlers, Continues(h), revoked' = revoked,
         \A t \in Ids : owner'[t] # 0 /\ owner[t] = 0 =>
           \A d \in Devices : held[d] # t,
         pc'[h] # "reuse",
         \/ pc[h] # "issue"
         \/ pc'[h] = "reply" /\ given'[h] # 0
         \/ \A d \in Devices : Renewing(h, d) => owner'[held[d]] = 0
  PROVE  QInv'
<1>1. /\ held' = held /\ numCalls' = numCalls /\ pc[h] \notin {"idle", "reply"}
      /\ \A g \in Handlers : job'[g].op = job[g].op /\ job'[g].dev = job[g].dev
                             /\ job'[g].n = job[g].n
      /\ \A g \in Handlers \ {h} : pc'[g] = pc[g] /\ given'[g] = given[g]
  BY DEF Continues, Only, SameRequest
<1>2. \A g \in Handlers : pc'[g] # "reuse"
  BY <1>1 DEF QInv
<1>3. \A g \in Handlers : Active(g)' => Active(g) /\ job'[g].n = job[g].n
  BY <1>1 DEF Active
<1>4. ASSUME NEW g \in Handlers, NEW d \in Devices, Renewing(g, d)
      PROVE  Renewing(g, d)' \/ owner'[held[d]] = 0
  <2>1. CASE g # h
    BY <1>1, <1>4, <2>1 DEF Renewing
  <2>2. CASE g = h
    BY <1>1, <1>4, <2>2 DEF Renewing
  <2> QED BY <2>1, <2>2
<1> QED BY <1>1, <1>2, <1>3, <1>4, QCalm

\* A new request has a number no revoked token has.
LEMMA QReceive ==
  ASSUME IInv, QInv, NEW h \in Handlers, NEW d \in Devices,
         ReceiveSignIn(h, d) \/ ReceiveRefresh(h, d)
  PROVE  QInv'
<1>1. PICK j, l : /\ Receive(h, d, j, l) /\ j.n = numCalls + 1 /\ l \in {"find", "lookup"}
  <2>1. ASSUME NEW o, NEW e PROVE SignIn(o, d, e).n = numCalls + 1
    BY NoJobType DEF SignIn, Job
  <2>2. [NoJob EXCEPT !.op = "refresh", !.n = numCalls + 1, !.dev = d,
                      !.token = held[d], !.late = ~Live(held[d])].n = numCalls + 1
    BY NoJobType DEF Job
  <2> QED BY <2>1, <2>2 DEF ReceiveSignIn, ReceiveRefresh
<1>2. /\ pc[h] = "idle" /\ numCalls' = numCalls + 1
      /\ job' = [job EXCEPT ![h] = j] /\ pc' = [pc EXCEPT ![h] = l]
      /\ owner' = owner /\ revoked' = revoked /\ held' = held /\ given' = given
  BY <1>1 DEF Receive, Goto, tokens
<1>3. /\ pc'[h] = l /\ job'[h] = j
      /\ \A g \in Handlers \ {h} : pc'[g] = pc[g] /\ job'[g] = job[g]
  BY <1>2, Types
<1>4. numCalls \in Nat /\ revoked \subseteq Ids
  BY Types DEF TablesOK
<1>5. RevokedIsKnown'
  <2>1. \A t \in revoked : t <= numCalls /\ t \in Nat
    BY <1>4, IdsNat DEF QInv, RevokedIsKnown
  <2>2. \A t \in revoked' : t <= numCalls' /\ t # j.n
    BY <1>1, <1>2, <1>4, <2>1
  <2>3. \A g \in Handlers : Active(g)' => job'[g].n \notin revoked'
    BY <1>2, <1>3, <2>2 DEF QInv, RevokedIsKnown, Active
  <2> QED BY <2>2, <2>3 DEF RevokedIsKnown, Active
<1>6. RevokedIsRenewed'
  <2> SUFFICES ASSUME NEW e \in Devices, owner[held[e]] # 0, held[e] \in revoked
               PROVE  \E g \in Handlers : Renewing(g, e)'
    BY <1>2 DEF RevokedIsRenewed
  <2>1. PICK g \in Handlers : Renewing(g, e)
    BY DEF QInv, RevokedIsRenewed
  <2>2. g # h
    BY <1>2, <2>1 DEF Renewing
  <2> QED BY <1>2, <1>3, <2>1, <2>2 DEF Renewing
<1>7. \A g \in Handlers : pc'[g] # "reuse"
  BY <1>1, <1>3 DEF QInv
<1> QED BY <1>5, <1>6, <1>7 DEF QInv

\* The revocation of a rotation hits the token of its own device alone.
LEMMA QRevoke ==
  ASSUME IInv, PInv, QInv, NEW h \in Handlers, Revoke(h)
  PROVE  QInv'
<1> DEFINE t == job[h].token
<1>1. /\ pc[h] = "revoke" /\ Proceed(h, job[h].acct, "issue")
      /\ revoked \subseteq revoked' /\ revoked' \subseteq revoked \union {t}
      /\ owner' = owner
  BY DEF Revoke, MarkRevoked
<1>2. /\ Only(h) /\ SameRequest(h) /\ pc'[h] = "issue" /\ held' = held /\ numCalls' = numCalls
  <2>1. job[h].acct \in Ids /\ "issue" \in Labels
    BY Types DEF Labels
  <2> QED BY <1>1, <2>1, ProceedStep
<1>3. /\ job[h].op = "refresh" /\ t = held[job[h].dev] /\ t # 0 /\ job[h].dev \in Devices
  BY <1>1, Types DEF PInv, LabelsFit, TokenIsHeld, Active
<1>4. \A g \in Handlers : job'[g].n = job[g].n /\ (Active(g)' => Active(g)) /\ job[g].token <= numCalls
  BY <1>1, <1>2 DEF Only, SameRequest, Active, IInv, Numbered
<1>5. RevokedIsKnown'
  <2>1. \A g \in Handlers : Active(g) => job[g].n # t
    BY DEF IInv, Numbered
  <2> QED BY <1>1, <1>2, <1>4, <2>1 DEF QInv, RevokedIsKnown, Active
<1>6. RevokedIsRenewed'
  <2> SUFFICES ASSUME NEW d \in Devices, owner[held[d]] # 0, held[d] \in revoked'
               PROVE  \E g \in Handlers : Renewing(g, d)'
    BY <1>1, <1>2 DEF RevokedIsRenewed
  <2>1. CASE held[d] \in revoked
    <3>1. PICK g \in Handlers : Renewing(g, d)
      BY <2>1 DEF QInv, RevokedIsRenewed
    <3>2. g # h
      BY <1>1, <3>1 DEF Renewing
    <3>3. pc'[g] = pc[g] /\ job'[g] = job[g] /\ given'[g] = given[g]
      BY <1>2, <3>2 DEF Only
    <3> QED BY <3>1, <3>3 DEF Renewing
  <2>2. CASE held[d] \notin revoked
    <3>1. held[d] = held[job[h].dev] /\ held[d] # 0
      BY <1>1, <1>3, <2>2
    <3>2. d = job[h].dev
      BY <1>3, <3>1 DEF PInv, RootsFit
    <3>3. Renewing(h, d)'
      BY <1>2, <1>3, <3>2 DEF SameRequest, Renewing
    <3> QED BY <3>3
  <2> QED BY <2>1, <2>2
<1>7. \A g \in Handlers : pc'[g] # "reuse"
  BY <1>2 DEF QInv, Only
<1> QED BY <1>5, <1>6, <1>7 DEF QInv

\* The device takes the new token, which is not revoked; an answer without a
\* token ends no renewal.
LEMMA QReply ==
  ASSUME IInv, PInv, QInv, NEW h \in Handlers, Reply(h)
  PROVE  QInv'
<1>1. /\ pc[h] = "reply" /\ pc' = [pc EXCEPT ![h] = "idle"] /\ job' = [job EXCEPT ![h] = NoJob]
      /\ given' = [given EXCEPT ![h] = 0] /\ numCalls' = numCalls
      /\ owner' = owner /\ revoked' = revoked
      /\ held' = [held EXCEPT ![job[h].dev] =
                    IF given[h] = 0 THEN held[job[h].dev] ELSE given[h]]
  BY DEF Reply, Rest, Goto, tokens
<1>2. /\ pc'[h] = "idle"
      /\ \A g \in Handlers \ {h} : pc'[g] = pc[g] /\ job'[g] = job[g] /\ given'[g] = given[g]
      /\ \A d \in Devices : d # job[h].dev => held'[d] = held[d]
      /\ held'[job[h].dev] = IF given[h] = 0 THEN held[job[h].dev] ELSE given[h]
  BY <1>1, Types
<1>3. RevokedIsKnown'
  BY <1>1, <1>2 DEF QInv, RevokedIsKnown, Active
<1>4. RevokedIsRenewed'
  <2> SUFFICES ASSUME NEW d \in Devices, owner[held'[d]] # 0, held'[d] \in revoked
               PROVE  \E g \in Handlers : Renewing(g, d)'
    BY <1>1 DEF RevokedIsRenewed
  <2>1. ~(d = job[h].dev /\ given[h] # 0)
    <3>1. given[h] # 0 => given[h] \notin revoked
      BY <1>1 DEF IInv, Numbered, QInv, RevokedIsKnown, Active
    <3> QED BY <1>2, <3>1
  <2>2. held'[d] = held[d]
    BY <1>2, <2>1
  <2>3. PICK g \in Handlers : Renewing(g, d)
    BY <2>2 DEF QInv, RevokedIsRenewed
  <2>4. g # h
    BY <1>1, <2>1, <2>3 DEF Renewing
  <2> QED BY <1>2, <2>3, <2>4 DEF Renewing
<1>5. \A g \in Handlers : pc'[g] # "reuse"
  BY <1>2 DEF QInv
<1> QED BY <1>3, <1>4, <1>5 DEF QInv

\* A device that waits presents a token that is not revoked: its lookup does
\* not end in the revocation of all sessions.
LEMMA QLookup ==
  ASSUME IInv, PInv, QInv, NEW h \in Handlers, Lookup(h)
  PROVE  QInv'
<1> DEFINE t == job[h].token
<1>1. pc[h] = "lookup" /\ UNCHANGED <<owner, revoked>> /\ owner[t] \in Ids
  BY Types DEF Lookup, tokens, TablesOK
<1>2. ~(owner[t] # 0 /\ t \in revoked)
  <2>1. t = held[job[h].dev] /\ job[h].dev \in Devices
    BY <1>1, Types DEF PInv, LabelsFit, TokenIsHeld, Active
  <2>2. ASSUME NEW g \in Handlers, Renewing(g, job[h].dev) PROVE FALSE
    <3>1. g = h
      BY <1>1, <2>2 DEF Renewing, PInv, OneJobPerDevice, Active
    <3> QED BY <1>1, <2>2, <3>1 DEF Renewing
  <2> QED BY <2>1, <2>2 DEF QInv, RevokedIsRenewed
<1>3. Refuse(h) \/ Proceed(h, owner[t], "user")
  BY <1>2 DEF Lookup, Live
<1>4. "user" \in Labels \ {"idle", "reply"}
  BY DEF Labels
<1>5. Continues(h) /\ pc'[h] # "reuse"
  BY <1>1, <1>3, <1>4, RefuseContinues, ProceedContinues
<1> QED BY <1>1, <1>5, QContinues

\* Every step keeps it.
LEMMA QStep ==
  ASSUME Patient, ~Faults PROVE IInv /\ PInv /\ QInv /\ [Next]_vars => QInv'
<1> SUFFICES ASSUME IInv, PInv, QInv, [Next]_vars PROVE QInv'
  OBVIOUS
<1>1. ASSUME NEW h \in Handlers, NEW d \in Devices, ReceiveSignIn(h, d) \/ ReceiveRefresh(h, d)
      PROVE  QInv'
  BY <1>1, QReceive
<1>2. ASSUME NEW h \in Handlers, Serve(h)
      PROVE  QInv'
  <2>1. CASE Find(h) \/ Insert(h)
    <3>1. pc[h] \in {"find", "insert"} /\ UNCHANGED <<owner, revoked>>
      BY <2>1 DEF Find, Insert, FindRegister, FindLogin, FindOAuth, tokens
    <3>2. \/ Refuse(h)
          \/ Proceed(h, 0, "insert")
          \/ Proceed(h, account[job[h].email], "issue")
          \/ Proceed(h, job[h].n, "issue")
      BY <2>1 DEF Find, Insert, FindRegister, FindLogin, FindOAuth
    <3>3. /\ {"insert", "issue"} \subseteq Labels \ {"idle", "reply"}
          /\ {0, account[job[h].email], job[h].n} \subseteq Ids
      BY Types, IdsNat DEF Labels, TablesOK
    <3>4. Continues(h) /\ pc'[h] # "reuse"
      BY <3>1, <3>2, <3>3, RefuseContinues, ProceedContinues
    <3> QED BY <3>1, <3>4, QContinues
  <2>2. CASE Lookup(h)
    BY <2>2, QLookup
  <2>3. CASE GetUser(h)
    <3>1. /\ pc[h] = "user" /\ UNCHANGED <<owner, revoked>>
          /\ job[h].acct \in Ids /\ "revoke" \in Labels \ {"idle", "reply"}
          /\ Refuse(h) \/ Proceed(h, job[h].acct, "revoke")
      BY <2>3, Types DEF GetUser, tokens, Labels
    <3>2. Continues(h) /\ pc'[h] # "reuse"
      BY <3>1, RefuseContinues, ProceedContinues
    <3> QED BY <3>1, <3>2, QContinues
  <2>4. CASE Revoke(h)
    BY <2>4, QRevoke
  <2>5. CASE Issue(h)
    <3>1. /\ pc[h] = "issue" /\ InsertToken(h)
          /\ given' = [given EXCEPT ![h] = job[h].n] /\ pc' = [pc EXCEPT ![h] = "reply"]
          /\ held' = held /\ job' = job /\ numCalls' = numCalls
      BY <2>5 DEF Issue, Goto
    <3>2. Continues(h) /\ pc'[h] = "reply" /\ given'[h] = job[h].n
      BY <3>1, Types DEF Continues, Only, SameRequest, Labels
    <3>3. job[h].n # 0 /\ \A d \in Devices : held[d] # job[h].n
      BY <3>1 DEF IInv, Numbered, Active
    <3>4. \A t \in Ids : t # job[h].n => owner'[t] = owner[t]
      BY <3>1, Types DEF InsertToken, TablesOK
    <3>5. revoked' = revoked
      BY <3>1 DEF InsertToken
    <3> QED BY <3>2, <3>3, <3>4, <3>5, QContinues
  <2>6. CASE IssueRefused(h)
    <3>1. /\ pc[h] = "issue" /\ job[h].acct \notin Accounts /\ Refuse(h)
          /\ UNCHANGED <<owner, revoked>>
      BY <2>6 DEF IssueRefused, tokens
    <3>2. Continues(h) /\ pc'[h] # "reuse"
      BY <3>1, RefuseContinues
    <3>3. ASSUME NEW d \in Devices, Renewing(h, d)
          PROVE  owner'[held[d]] = 0
      <4>1. owner[held[d]] \in {0, job[h].acct} /\ held[d] \in Ids
        BY <3>1, <3>3, Types DEF Renewing, PInv, TokenIsHeld, Active
      <4> QED BY <3>1, <4>1 DEF IInv, NoOrphanTokens
    <3> QED BY <3>1, <3>2, <3>3, QContinues
  <2>7. CASE Reply(h)
    BY <2>7, QReply
  <2>8. ~RevokeAll(h)
    BY DEF RevokeAll, QInv
  <2> QED BY <1>2, <2>1, <2>2, <2>3, <2>4, <2>5, <2>6, <2>7, <2>8
         DEF Serve, RevokeUnacknowledged, IssueUnacknowledged, AnswerLost, StatementFails
<1>3. ASSUME NEW e \in Emails, DeleteAccount(e) PROVE QInv'
  <2>1. /\ owner' = [t \in Ids |-> IF owner[t] = account[e] THEN 0 ELSE owner[t]]
        /\ UNCHANGED <<revoked, held, pc, job, given, numCalls>>
    BY <1>3 DEF DeleteAccount
  <2> QED BY <2>1, QCalm DEF QInv, Active, Renewing
<1>4. ASSUME NEW t \in Ids, Expire(t) PROVE QInv'
  BY <1>4, QCalm DEF Expire, QInv, Active, Renewing
<1>5. ~Crash
  BY DEF Crash
<1>6. CASE UNCHANGED vars
  BY <1>6, QCalm DEF vars, QInv, Active, Renewing
<1> QED BY <1>1, <1>2, <1>3, <1>4, <1>5, <1>6 DEF Next

----------------------------------------------------------------------------
\* A login of a device that waits for its answers has at most one usable
\* refresh token, through every renewal, failure, crash, lost answer and retry.
THEOREM OneLiveToken == ASSUME Patient PROVE Spec => []OneLivePerLogin
<1>1. PInv => OneLivePerLogin
  BY DEF PInv
<1>2. IInv /\ PInv /\ [Next]_vars => PInv'
  BY PStep
<1> QED BY <1>1, <1>2, PInit, InvariantHolds, PTL DEF Spec

\* A device that waits for its answers, and loses none, stays signed in
\* whatever other devices do, other devices of the same account included.
THEOREM DevicesStaySignedIn == ASSUME Patient, ~Faults PROVE Spec => []SessionsSurvive
<1>1. IInv /\ PInv /\ [Next]_vars => PInv'
  BY PStep
<1>2. IInv /\ PInv /\ QInv /\ [Next]_vars => QInv'
  BY QStep
<1>3. QInv => SessionsSurvive
  <2> SUFFICES ASSUME QInv, NEW d \in Devices, owner[held[d]] # 0, held[d] \in revoked,
                      \A h \in Handlers : pc[h] # "idle" => job[h].dev # d
               PROVE  FALSE
    BY DEF SessionsSurvive
  <2> QED BY DEF QInv, RevokedIsRenewed, Renewing
<1> QED BY <1>1, <1>2, <1>3, PInit, QInit, InvariantHolds, PTL DEF Spec
=============================================================================
