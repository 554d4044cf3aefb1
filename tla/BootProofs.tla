----------------------------- MODULE BootProofs -----------------------------
(***************************************************************************)
(* Overlapping starts of any number of processes over one database: who    *)
(* serves with a database serves over a complete schema, and the files     *)
(* that run at every start do not tear rows from their accounts.           *)
(***************************************************************************)
EXTENDS Boot, FiniteSetTheorems, TLAPS

\* What is left of the files that a process runs.
Todos == {<<>>, <<"rest">>, <<"uuid", "rest">>, <<"tables", "uuid", "rest">>,
          <<"reset", "tables", "uuid", "rest">>}

Stages == {"off", "ping", "guard", "migrate", "build", "serving", "drain",
           "close", "closed", "exited"}

\* The part of TypeOK the argument needs.
Types ==
  /\ schema \subseteq Steps
  /\ stage \in [Processes -> Stages] /\ todo \in [Processes -> Todos]
  /\ pool \in [Processes -> {"none", "open", "closed"}]

\* A file has run only after those before it.
Ordered == /\ "uuid" \in schema => "tables" \in schema
           /\ "rest" \in schema => "uuid" \in schema

\* The referring tables exist with the last files, and have no rows before.
TablesBeforeRows == /\ "rest" \in schema => fk # "absent"
                    /\ fk = "absent" => refs = {}

Complete == schema = Steps \/ wiped

\* A process that has run its files, or has a database and is past them.
Through(p) == \/ stage[p] = "migrate" /\ todo[p] = <<>>
              \/ stage[p] \in {"build", "serving"} /\ pool[p] = "open"

MigratedFirst == \A p \in Processes : Through(p) => Complete

DataInv == Ordered /\ TablesBeforeRows /\ ReferencesHold

IInv == Types /\ DataInv /\ MigratedFirst

----------------------------------------------------------------------------
LEMMA InitEstablishes ==
  ASSUME Init
  PROVE  IInv
<1>1. Types
  BY DEF Init, Types, Stages, Todos
<1>2. DataInv
  BY DEF Init, DataInv, Ordered, TablesBeforeRows, ReferencesHold
<1>3. MigratedFirst
  BY DEF Init, MigratedFirst, Through
<1> QED BY <1>1, <1>2, <1>3 DEF IInv

\* A step that leaves the tables alone.
LEMMA DataUntouched ==
  ASSUME DataInv, UNCHANGED data
  PROVE  DataInv' /\ Complete' = Complete /\ schema' = schema
BY DEF data, DataInv, Ordered, TablesBeforeRows, ReferencesHold, Complete

\* A file keeps the tables sound and does not undo a complete schema; the last one
\* completes it.
LEMMA FilePreserves ==
  ASSUME Types, DataInv, NEW s \in {"reset", "tables", "uuid", "rest"}, Run(s)
  PROVE  /\ schema' \subseteq Steps /\ DataInv'
         /\ Complete => Complete'
         /\ s = "rest" => Complete'
<1>1. CASE s = "reset"
  <2>1. Reset
    BY <1>1 DEF Run
  <2> QED BY <1>1, <2>1 DEF Reset, DataInv, Ordered, TablesBeforeRows, ReferencesHold, Complete
<1>2. CASE s = "tables"
  <2>1. Tables
    BY <1>2 DEF Run
  <2> QED BY <1>2, <2>1 DEF Tables, DataInv, Ordered, TablesBeforeRows, ReferencesHold,
                            Complete, Types, Steps
<1>3. CASE s = "uuid"
  <2>1. Uuid
    BY <1>3 DEF Run
  <2>2. /\ schema' = schema \union {"uuid"} /\ "tables" \in schema
        /\ UNCHANGED <<fk, refs, wiped>>
        /\ fk = "kept" => refs = {}
    BY <2>1 DEF Uuid, Blocked
  <2> QED BY <1>3, <2>2 DEF DataInv, Ordered, TablesBeforeRows, ReferencesHold, Complete,
                            Types, Steps
<1>4. CASE s = "rest"
  <2>1. Rest
    BY <1>4 DEF Run
  <2>2. schema' = Steps
    BY <2>1 DEF Rest, DataInv, Ordered, Types, Steps
  <2>3. DataInv'
    BY <2>1, <2>2 DEF Rest, DataInv, Ordered, TablesBeforeRows, ReferencesHold, Steps
  <2> QED BY <2>2, <2>3 DEF Complete
<1> QED BY <1>1, <1>2, <1>3, <1>4

----------------------------------------------------------------------------
\* A step of one process that leaves the tables alone and does not get through.
LEMMA ProcessPreserves ==
  ASSUME IInv, NEW p \in Processes, UNCHANGED data,
         NEW s \in Stages, stage' = [stage EXCEPT ![p] = s],
         NEW t \in Todos, todo' = [todo EXCEPT ![p] = t],
         NEW c \in {"none", "open", "closed"}, pool' = [pool EXCEPT ![p] = c],
         Through(p)' => Through(p)
  PROVE  IInv'
<1>1. Types'
  BY DEF data, IInv, Types
<1>2. DataInv' /\ Complete' = Complete
  BY DataUntouched DEF IInv
<1>3. ASSUME NEW q \in Processes, Through(q)' PROVE Through(q)
  BY <1>3 DEF Through, IInv, Types
<1>4. MigratedFirst'
  BY <1>2, <1>3 DEF IInv, MigratedFirst
<1> QED BY <1>1, <1>2, <1>4 DEF IInv

\* The value of an unchanged process is one of those it may have.
LEMMA Values ==
  ASSUME IInv, NEW p \in Processes
  PROVE  /\ stage[p] \in Stages /\ todo[p] \in Todos
         /\ pool[p] \in {"none", "open", "closed"}
         /\ stage = [stage EXCEPT ![p] = stage[p]]
         /\ todo = [todo EXCEPT ![p] = todo[p]]
         /\ pool = [pool EXCEPT ![p] = pool[p]]
BY DEF IInv, Types

LEMMA StartPreserves ==
  ASSUME IInv, NEW p \in Processes, Launch(p) \/ Ping(p) \/ Guard(p)
  PROVE  IInv'
<1> USE Values
<1>1. CASE Launch(p)
  BY <1>1, ProcessPreserves DEF Launch, Goto, Through, Stages, IInv, Types
<1>2. CASE Ping(p)
  <2>1. CASE Goto(p, "guard") /\ UNCHANGED <<pool, todo>>
    BY <1>2, <2>1, ProcessPreserves DEF Ping, Goto, Through, Stages, IInv, Types
  <2>2. CASE UNCHANGED <<stage, pool, todo>>
    BY <1>2, <2>2, ProcessPreserves DEF Ping, Through
  <2>3. CASE NoDatabase(p)
    BY <1>2, <2>3, ProcessPreserves DEF Ping, NoDatabase, Goto, Through, Stages, Todos, IInv, Types
  <2> QED BY <1>2, <2>1, <2>2, <2>3 DEF Ping
<1>3. CASE Guard(p)
  <2>1. CASE Forbidden(p)
    BY <1>3, <2>1, ProcessPreserves DEF Guard, Goto, Through, Stages, IInv, Types
  <2>2. CASE ~Forbidden(p)
    <3>1. PICK t \in Todos \ {<<>>} : todo' = [todo EXCEPT ![p] = t]
      BY <1>3, <2>2 DEF Guard, Todos
    <3> QED BY <1>3, <2>2, <3>1, ProcessPreserves DEF Guard, Goto, Through, Stages, IInv, Types
  <2> QED BY <2>1, <2>2
<1> QED BY <1>1, <1>2, <1>3

\* The rest of a list of files: it is empty only after the last one.
LEMMA RestOfFiles ==
  ASSUME NEW t \in Todos, t # <<>>
  PROVE  /\ Head(t) \in {"reset", "tables", "uuid", "rest"} /\ Tail(t) \in Todos
         /\ Tail(t) = <<>> => Head(t) = "rest"
<1>1. CASE t = <<"rest">>
  BY <1>1 DEF Todos
<1>2. CASE t = <<"uuid", "rest">>
  <2>1. Head(t) = "uuid" /\ Tail(t) = <<"rest">>
    BY <1>2
  <2> QED BY <2>1 DEF Todos
<1>3. CASE t = <<"tables", "uuid", "rest">>
  <2>1. Head(t) = "tables" /\ Tail(t) = <<"uuid", "rest">>
    BY <1>3
  <2> QED BY <2>1 DEF Todos
<1>4. CASE t = <<"reset", "tables", "uuid", "rest">>
  <2>1. Head(t) = "reset" /\ Tail(t) = <<"tables", "uuid", "rest">>
    BY <1>4
  <2> QED BY <2>1 DEF Todos
<1> QED BY <1>1, <1>2, <1>3, <1>4 DEF Todos

LEMMA MigratePreserves ==
  ASSUME IInv, NEW p \in Processes, Migrate(p)
  PROVE  IInv'
<1>1. stage[p] = "migrate" /\ todo[p] \in Todos
  BY Values DEF Migrate
<1>2. CASE todo[p] = <<>> /\ Goto(p, "build") /\ UNCHANGED <<data, todo, pool>>
  BY <1>1, <1>2, Values, ProcessPreserves DEF Goto, Through, Stages
<1>3. CASE todo[p] # <<>> /\ AfterFailure(p) /\ UNCHANGED data
  BY <1>1, <1>3, Values, ProcessPreserves
     DEF AfterFailure, NoDatabase, Goto, Through, Stages, Todos, IInv, Types
<1>4. CASE /\ todo[p] # <<>> /\ Run(Head(todo[p])) /\ todo' = [todo EXCEPT ![p] = Tail(@)]
           /\ UNCHANGED <<stage, pool>>
  <2>1. /\ Head(todo[p]) \in {"reset", "tables", "uuid", "rest"} /\ Tail(todo[p]) \in Todos
        /\ Tail(todo[p]) = <<>> => Head(todo[p]) = "rest"
    BY <1>1, <1>4, RestOfFiles
  <2>2. /\ schema' \subseteq Steps /\ DataInv'
        /\ Complete => Complete'
        /\ Head(todo[p]) = "rest" => Complete'
    BY <1>4, <2>1, FilePreserves DEF IInv
  <2>3. Types'
    BY <1>4, <2>1, <2>2 DEF IInv, Types
  <2>4. ASSUME NEW q \in Processes, Through(q)' PROVE Through(q) \/ Head(todo[p]) = "rest"
    BY <1>1, <1>4, <2>1, <2>4 DEF Through, IInv, Types
  <2>5. MigratedFirst'
    BY <2>2, <2>4 DEF IInv, MigratedFirst
  <2> QED BY <2>2, <2>3, <2>5 DEF IInv
<1> QED BY <1>2, <1>3, <1>4 DEF Migrate

\* What a request does to the tables.
LEMMA HandlePreserves ==
  ASSUME IInv, NEW p \in Processes, Handle(p)
  PROVE  IInv'
<1>1. UNCHANGED <<schema, fk, wiped, stage, todo, pool>>
  BY DEF Handle, data
<1>2. Types' /\ MigratedFirst'
  BY <1>1 DEF IInv, Types, MigratedFirst, Through, Complete
<1>3. Ordered'
  BY <1>1 DEF IInv, DataInv, Ordered
<1>4. ASSUME users \subseteq users', refs' = refs PROVE DataInv'
  <2>1. TablesBeforeRows'
    BY <1>1, <1>4 DEF IInv, DataInv, TablesBeforeRows
  <2>2. {u.id : u \in users} \subseteq {u.id : u \in users'}
    BY <1>4
  <2>3. ReferencesHold'
    BY <1>1, <1>4, <2>2 DEF IInv, DataInv, ReferencesHold
  <2> QED BY <1>3, <2>1, <2>3 DEF DataInv
<1>5. ASSUME Works(p), users' = users, \E u \in users : refs' = refs \union {u.id}
      PROVE  DataInv'
  <2>1. TablesBeforeRows'
    BY <1>1, <1>5 DEF Works, Steps, IInv, DataInv, TablesBeforeRows
  <2>2. ReferencesHold'
    BY <1>1, <1>5 DEF IInv, DataInv, ReferencesHold
  <2> QED BY <1>3, <2>1, <2>2 DEF DataInv
<1>6. \/ users \subseteq users' /\ refs' = refs
      \/ Works(p) /\ users' = users /\ \E u \in users : refs' = refs \union {u.id}
  BY DEF Handle, data
<1> QED BY <1>2, <1>4, <1>5, <1>6 DEF IInv

LEMMA OtherPreserves ==
  ASSUME IInv, NEW p \in Processes,
         Build(p) \/ Accept(p) \/ Signal(p) \/ Drain(p) \/ Close(p) \/ Exit(p)
  PROVE  IInv'
<1> USE Values
<1>1. CASE Build(p)
  BY <1>1, ProcessPreserves DEF Build, Goto, Through, Stages, IInv, Types
<1>2. CASE Accept(p)
  BY <1>2, ProcessPreserves DEF Accept, Through
<1>3. CASE Signal(p)
  BY <1>3, ProcessPreserves DEF Signal, Goto, Through, Stages, IInv, Types
<1>4. CASE Drain(p)
  BY <1>4, ProcessPreserves DEF Drain, Goto, Through, Stages, IInv, Types
<1>5. CASE Close(p)
  <2>1. PICK c \in {"none", "open", "closed"} : pool' = [pool EXCEPT ![p] = c]
    BY <1>5 DEF Close
  <2> QED BY <1>5, <2>1, ProcessPreserves DEF Close, Goto, Through, Stages, IInv, Types
<1>6. CASE Exit(p)
  BY <1>6, ProcessPreserves DEF Exit, Goto, Through, Stages, Todos, IInv, Types
<1> QED BY <1>1, <1>2, <1>3, <1>4, <1>5, <1>6

LEMMA StepPreserves ==
  ASSUME IInv, [Next]_bootVars
  PROVE  IInv'
<1>1. ASSUME NEW p \in Processes,
             \/ Launch(p) \/ Main(p) \/ Accept(p) \/ Handle(p) \/ Signal(p) \/ Stop(p) \/ Exit(p)
      PROVE  IInv'
  BY <1>1, StartPreserves, MigratePreserves, HandlePreserves, OtherPreserves DEF Main, Stop
<1>2. CASE UNCHANGED bootVars
  BY <1>2 DEF bootVars, data, process, IInv, Types, DataInv, Ordered, TablesBeforeRows,
              ReferencesHold, MigratedFirst, Through, Complete
<1> QED BY <1>1, <1>2 DEF Next

----------------------------------------------------------------------------
(* Types.  Ids stay within what was given out, as only finitely many rows  *)
(* are ever rewritten.                                                     *)

\* The tables, and the processes, as TypeOK has them.
DataTyped ==
  /\ policies \in BOOLEAN /\ wiped \in BOOLEAN
  /\ schema \subseteq Steps /\ fk \in {"absent", "kept", "lost"}
  /\ users \subseteq [key : Keys, id : 1 .. lastId] /\ IsFiniteSet(users)
  /\ given \subseteq [key : Keys, id : 1 .. lastId]
  /\ refs \subseteq 1 .. lastId /\ lastId \in Nat

ProcessTyped ==
  /\ stage \in [Processes -> Stages]
  /\ env \in [Processes -> Settings]
  /\ todo \in [Processes -> Todos]
  /\ pings \in [Processes -> 0 .. MaxPings]
  /\ pool \in [Processes -> {"none", "open", "closed"}]
  /\ inFlight \in [Processes -> BOOLEAN]

TInv == supabase \in BOOLEAN /\ DataTyped /\ ProcessTyped

LEMMA InitTyped ==
  ASSUME Init
  PROVE  TInv
<1>1. DataTyped
  BY FS_EmptySet DEF Init, DataTyped
<1>2. ProcessTyped
  <2>1. 0 \in 0 .. MaxPings
    BY BootAssumption DEF BootAssumption
  <2> QED BY <2>1 DEF Init, ProcessTyped, Stages, Todos, Settings
<1> QED BY <1>1, <1>2 DEF Init, TInv

\* The numbers from a on are not those up to a.
LEMMA IdsGrow ==
  ASSUME NEW a \in Nat, NEW b \in Nat
  PROVE  1 .. a \subseteq 1 .. a + b /\ a + 1 .. a + b \subseteq 1 .. a + b /\ a + b \in Nat
OBVIOUS

\* use_uuid_pk gives every account an id of the new range.
LEMMA UuidTyped ==
  ASSUME DataTyped, Uuid
  PROVE  /\ users' \subseteq [key : Keys, id : 1 .. lastId'] /\ IsFiniteSet(users')
         /\ given' \subseteq [key : Keys, id : 1 .. lastId'] /\ refs' \subseteq 1 .. lastId'
         /\ lastId' \in Nat
<1>1. Cardinality(users) \in Nat /\ lastId \in Nat
  BY FS_CardinalityType DEF DataTyped
<1>2. PICK f \in [users -> lastId + 1 .. lastId + Cardinality(users)] :
        users' = {[key |-> u.key, id |-> f[u]] : u \in users}
  BY DEF Uuid
<1>3. lastId' = lastId + Cardinality(users) /\ given' = given /\ refs' = refs
  BY DEF Uuid
<1>4. 1 .. lastId \subseteq 1 .. lastId' /\ lastId + 1 .. lastId' \subseteq 1 .. lastId'
      /\ lastId' \in Nat
  BY <1>1, <1>3, IdsGrow
<1>5. IsFiniteSet(users')
  <2> DEFINE g == [u \in users |-> [key |-> u.key, id |-> f[u]]]
  <2>1. g \in Surjection(users, users')
    BY <1>2 DEF Surjection
  <2> HIDE DEF g
  <2> QED BY <2>1, FS_Surjection DEF DataTyped
<1>6. users' \subseteq [key : Keys, id : 1 .. lastId']
  BY <1>2, <1>3, <1>4 DEF DataTyped
<1>7. given' \subseteq [key : Keys, id : 1 .. lastId'] /\ refs' \subseteq 1 .. lastId'
  BY <1>3, <1>4 DEF DataTyped
<1> QED BY <1>4, <1>5, <1>6, <1>7

\* A file of the migration.
LEMMA RunTyped ==
  ASSUME supabase \in BOOLEAN, DataTyped, NEW s \in {"reset", "tables", "uuid", "rest"}, Run(s)
  PROVE  DataTyped'
<1>0. IsFiniteSet({})
  BY FS_EmptySet
<1>1. CASE s = "reset"
  <2>1. Reset
    BY <1>1 DEF Run
  <2> QED BY <1>0, <2>1 DEF Reset, DataTyped
<1>2. CASE s = "tables"
  <2>1. Tables
    BY <1>2 DEF Run
  <2> QED BY <2>1 DEF Tables, DataTyped, Steps
<1>3. CASE s = "uuid"
  <2>1. Uuid
    BY <1>3 DEF Run
  <2>2. /\ schema' \subseteq Steps /\ policies' \in BOOLEAN /\ wiped' \in BOOLEAN
        /\ fk' \in {"absent", "kept", "lost"}
    BY <2>1 DEF Uuid, DataTyped, Steps
  <2> QED BY <2>1, <2>2, UuidTyped DEF DataTyped
<1>4. CASE s = "rest"
  <2>1. Rest
    BY <1>4 DEF Run
  <2> QED BY <2>1 DEF Rest, DataTyped, Steps
<1> QED BY <1>1, <1>2, <1>3, <1>4

\* A registration, or a login.
LEMMA HandleTyped ==
  ASSUME TInv, NEW p \in Processes, Handle(p)
  PROVE  TInv'
<1>1. ProcessTyped' /\ supabase' = supabase
  BY DEF Handle, TInv, ProcessTyped
<1>2. CASE UNCHANGED data
  BY <1>1, <1>2 DEF data, TInv, DataTyped
<1>3. ASSUME NEW u \in users, refs' = refs \union {u.id},
             UNCHANGED <<schema, policies, fk, users, lastId, given, wiped>>
      PROVE  TInv'
  BY <1>1, <1>3 DEF TInv, DataTyped
<1>4. ASSUME NEW k \in Keys, lastId' = lastId + 1,
             users' = users \union {[key |-> k, id |-> lastId + 1]},
             given' = given \union {[key |-> k, id |-> lastId + 1]},
             UNCHANGED <<schema, policies, fk, refs, wiped>>
      PROVE  TInv'
  <2>1. 1 .. lastId \subseteq 1 .. lastId + 1 /\ lastId + 1 \in 1 .. lastId + 1 /\ lastId + 1 \in Nat
    BY DEF TInv, DataTyped
  <2>2. IsFiniteSet(users')
    BY <1>4, FS_AddElement DEF TInv, DataTyped
  <2>3. DataTyped'
    BY <1>4, <2>1, <2>2 DEF TInv, DataTyped
  <2> QED BY <1>1, <2>3 DEF TInv
<1> QED BY <1>2, <1>3, <1>4 DEF Handle

\* A step that leaves the tables alone.
LEMMA ProcessStepTyped ==
  ASSUME TInv, UNCHANGED <<supabase, data>>, ProcessTyped'
  PROVE  TInv'
BY DEF data, TInv, DataTyped

LEMMA StartTyped ==
  ASSUME TInv, NEW p \in Processes, Launch(p) \/ Ping(p) \/ Guard(p)
  PROVE  TInv'
<1>1. CASE Launch(p)
  <2>1. ProcessTyped'
    BY <1>1 DEF Launch, Goto, TInv, ProcessTyped, Stages
  <2> QED BY <1>1, <2>1, ProcessStepTyped DEF Launch
<1>2. CASE Ping(p)
  <2>1. pings[p] \in 0 .. MaxPings /\ pings \in [Processes -> 0 .. MaxPings]
    BY DEF TInv, ProcessTyped
  <2>2. pings' \in [Processes -> 0 .. MaxPings]
    BY <1>2, <2>1, BootAssumption DEF BootAssumption, Ping
  <2>3. ProcessTyped'
    BY <1>2, <2>2 DEF Ping, NoDatabase, Goto, TInv, ProcessTyped, Stages, Todos
  <2> QED BY <1>2, <2>3, ProcessStepTyped DEF Ping
<1>3. CASE Guard(p)
  <2>1. ProcessTyped'
    BY <1>3 DEF Guard, Goto, TInv, ProcessTyped, Stages, Todos
  <2> QED BY <1>3, <2>1, ProcessStepTyped DEF Guard
<1> QED BY <1>1, <1>2, <1>3

LEMMA MigrateTyped ==
  ASSUME TInv, NEW p \in Processes, Migrate(p)
  PROVE  TInv'
<1>1. todo[p] \in Todos /\ todo \in [Processes -> Todos] /\ UNCHANGED <<supabase, env, pings, inFlight>>
  BY DEF Migrate, TInv, ProcessTyped
<1>2. CASE Goto(p, "build") /\ UNCHANGED <<data, todo, pool>>
  <2>1. ProcessTyped'
    BY <1>1, <1>2 DEF Goto, TInv, ProcessTyped, Stages
  <2> QED BY <1>1, <1>2, <2>1, ProcessStepTyped
<1>3. CASE AfterFailure(p) /\ UNCHANGED data
  <2>1. ProcessTyped'
    BY <1>1, <1>3 DEF AfterFailure, NoDatabase, Goto, TInv, ProcessTyped, Stages, Todos
  <2> QED BY <1>1, <1>3, <2>1, ProcessStepTyped
<1>4. CASE /\ todo[p] # <<>> /\ Run(Head(todo[p])) /\ todo' = [todo EXCEPT ![p] = Tail(@)]
           /\ UNCHANGED <<stage, pool>>
  <2>1. Head(todo[p]) \in {"reset", "tables", "uuid", "rest"} /\ Tail(todo[p]) \in Todos
    BY <1>1, <1>4, RestOfFiles
  <2>2. DataTyped'
    BY <1>4, <2>1, RunTyped DEF TInv
  <2>3. ProcessTyped'
    BY <1>1, <1>4, <2>1 DEF TInv, ProcessTyped
  <2> QED BY <1>1, <2>2, <2>3 DEF TInv
<1> QED BY <1>2, <1>3, <1>4 DEF Migrate

LEMMA OtherTyped ==
  ASSUME TInv, NEW p \in Processes,
         Build(p) \/ Accept(p) \/ Signal(p) \/ Drain(p) \/ Close(p) \/ Exit(p)
  PROVE  TInv'
<1>1. UNCHANGED <<supabase, data>>
  BY DEF Build, Accept, Signal, Drain, Close, Exit
<1>2. CASE Build(p) \/ Signal(p) \/ Drain(p) \/ Accept(p)
  BY <1>2 DEF Build, Signal, Drain, Accept, Goto, data, TInv, DataTyped, ProcessTyped, Stages
<1>3. CASE Close(p)
  <2>1. ProcessTyped'
    BY <1>3 DEF Close, Goto, TInv, ProcessTyped, Stages
  <2> QED BY <1>1, <2>1, ProcessStepTyped
<1>4. CASE Exit(p)
  <2>1. 0 \in 0 .. MaxPings
    BY BootAssumption DEF BootAssumption
  <2>2. ProcessTyped'
    BY <1>4, <2>1 DEF Exit, Goto, TInv, ProcessTyped, Stages, Todos, Settings
  <2> QED BY <1>1, <2>2, ProcessStepTyped
<1> QED BY <1>2, <1>3, <1>4

LEMMA StepTyped ==
  ASSUME TInv, [Next]_bootVars
  PROVE  TInv'
<1>1. ASSUME NEW p \in Processes,
             \/ Launch(p) \/ Main(p) \/ Accept(p) \/ Handle(p) \/ Signal(p) \/ Stop(p) \/ Exit(p)
      PROVE  TInv'
  BY <1>1, StartTyped, MigrateTyped, HandleTyped, OtherTyped DEF Main, Stop
<1>2. CASE UNCHANGED bootVars
  BY <1>2 DEF bootVars, data, process, TInv, DataTyped, ProcessTyped
<1> QED BY <1>1, <1>2 DEF Next

LEMMA TypesFollow ==
  ASSUME TInv
  PROVE  TypeOK
BY DEF TInv, DataTyped, ProcessTyped, TypeOK, Stages, Todos

----------------------------------------------------------------------------
\* A process that serves with a database does so over a complete schema, whatever
\* failed or overlapped while it started, unless a reset is on the way.
THEOREM NoServiceBeforeMigration == Spec => []ServesOnlyMigrated
<1>1. Init => IInv
  BY InitEstablishes
<1>2. IInv /\ [Next]_bootVars => IInv'
  BY StepPreserves
<1>3. IInv => ServesOnlyMigrated
  BY DEF IInv, MigratedFirst, Through, Complete, ServesOnlyMigrated
<1> QED BY <1>1, <1>2, <1>3, PTL DEF Spec

\* A row refers to an account that exists for as long as the foreign keys stand.
THEOREM RestartsKeepReferences == Spec => []ReferencesHold
<1>1. Init => IInv
  BY InitEstablishes
<1>2. IInv /\ [Next]_bootVars => IInv'
  BY StepPreserves
<1>3. IInv => ReferencesHold
  BY DEF IInv, DataInv
<1> QED BY <1>1, <1>2, <1>3, PTL DEF Spec
=============================================================================
