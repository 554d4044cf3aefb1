------------------------------- MODULE Listing -------------------------------
(***************************************************************************)
(* Lists read page by page, newest first.  GET /beers and GET /feed        *)
(* (GetPaginated): rel="next" in a Link header; the client may reuse a page*)
(* for 30 seconds and then revalidates it by its ETag.  The administrator's*)
(* reports and deletion requests (GetReports, GetDeletionRequests): the    *)
(* client goes on while offset + limit < total.                            *)
(*                                                                         *)
(* A page is two statements, outside of a transaction: the rows and their  *)
(* number, in this order for beers and in the other for reports.  Rows come*)
(* and go meanwhile: a beer is created or deleted, a report is filed or no *)
(* longer has the status asked for.  A row is its place in the order: two  *)
(* rows with one created_at, which reports may have, are not modelled.     *)
(***************************************************************************)
EXTENDS Integers, FiniteSets

CONSTANTS
  PageSize,
  MaxItem,      \* model bound: places in the order
  MaxChanges    \* model bound: rows that come or go

VARIABLES
  list,         \* "beers" or "reports"
  items,        \* the rows of the table that pass the filter; the highest is the newest
  version,      \* changes so far
  phase,        \* of the client: "off", "ask", between the two statements, or "done"
  page,
  half,         \* what the first statement answered, and at which version
  stored,       \* beers: the client's copy of each page
  seen,         \* rows the client has seen in this browse
  since,        \* the version of the oldest page it was shown (history)
  reused,       \* ... and whether a page of this browse came from a stored copy (history)
  added, removed   \* rows that came and went, with their versions (history)

listVars == <<list, items, version, phase, page, half, stored, seen, since, reused,
              added, removed>>

Items == 1 .. MaxItem
Pages == 1 .. MaxItem

Contents == [page : Pages, rows : SUBSET Items, total : 0 .. MaxItem,
             at : 0 .. MaxChanges, fresh : BOOLEAN]

Nothing == [rows |-> {}, total |-> 0, at |-> 0]

Init ==
  /\ list \in {"beers", "reports"}
  /\ items \in SUBSET Items
  /\ version = 0
  /\ phase = "off"
  /\ page = 1
  /\ half = Nothing
  /\ stored = [p \in Pages |-> {}]
  /\ seen = {}
  /\ since = 0 /\ reused = FALSE
  /\ added = {} /\ removed = {}

----------------------------------------------------------------------------
(* The table.                                                              *)

Changed ==
  /\ version < MaxChanges
  /\ version' = version + 1
  /\ UNCHANGED <<list, phase, page, half, stored, seen, since, reused>>

\* A row is inserted; created_at was set before, so it need not be the newest.
Add ==
  /\ Changed
  /\ \E i \in Items \ items :
       /\ \A r \in removed : r.item # i
       /\ items' = items \union {i}
       /\ added' = added \union {[item |-> i, at |-> version + 1]}
  /\ UNCHANGED removed

Remove ==
  /\ Changed
  /\ \E i \in items :
       /\ items' = items \ {i}
       /\ removed' = removed \union {[item |-> i, at |-> version + 1]}
  /\ UNCHANGED added

----------------------------------------------------------------------------
(* The client.                                                             *)

table == <<list, items, version, added, removed>>

Open ==
  /\ phase \in {"off", "done"}
  /\ phase' = "ask"
  /\ page' = 1
  /\ seen' = {}
  /\ since' = version /\ reused' = FALSE
  /\ UNCHANGED <<table, half, stored>>

\* ORDER BY created_at DESC LIMIT PageSize OFFSET (p - 1) * PageSize.
RowsOf(p) ==
  {i \in items : Cardinality({j \in items : j > i}) \in (p - 1) * PageSize .. p * PageSize - 1}

\* Mutant: the division that forgets the last, incomplete page.
LastPage_Floor(total) == total \div PageSize

LastPage(total) == (total + PageSize - 1) \div PageSize

\* rel="next".
HasNext(p, total) == total > 0 /\ p < LastPage(total)

\* A page is shown, and its link followed if it has one.
Show(c) ==
  /\ seen' = seen \union c.rows
  /\ IF HasNext(c.page, c.total)
     THEN phase' = "ask" /\ page' = page + 1
     ELSE phase' = "done" /\ UNCHANGED page

\* The first of the two statements.
First ==
  /\ phase = "ask"
  /\ half' = IF list = "beers"
             THEN [rows |-> RowsOf(page), total |-> 0, at |-> version]
             ELSE [rows |-> {}, total |-> Cardinality(items), at |-> version]
  /\ phase' = "between"
  /\ UNCHANGED <<table, page, stored, seen, since, reused>>

Content ==
  [page |-> page, at |-> half.at, fresh |-> TRUE,
   rows |-> IF list = "beers" THEN half.rows ELSE RowsOf(page),
   total |-> IF list = "beers" THEN Cardinality(items) ELSE half.total]

\* Mutant: the ETag is of the rows only.
ETag_RowsOnly(c) == c.rows

\* A hash of the whole answer: rows, page and total.
ETag(c) == <<c.page, c.rows, c.total>>

\* 304 carries max-age=0: the copy is right, and will be revalidated again.
Revalidated(c) == [c EXCEPT !.fresh = FALSE, !.at = half.at]

\* The second statement and the answer.  Of beers 304 if the client has a copy with
\* this ETag, otherwise 200 with a new copy.
Second ==
  /\ phase = "between"
  /\ LET same == {d \in stored[page] : list = "beers" /\ ETag(d) = ETag(Content)}
         given == IF same = {} THEN {Content} ELSE {Revalidated(d) : d \in same}
     IN /\ \E c \in given : Show(c)
        /\ stored' = IF list = "beers" THEN [stored EXCEPT ![page] = given] ELSE stored
  /\ half' = Nothing
  /\ UNCHANGED <<table, since, reused>>

\* Within max-age the client does not ask at all.
Reuse ==
  /\ phase = "ask"
  /\ \E c \in stored[page] :
       /\ c.fresh
       /\ Show(c)
       /\ reused' = TRUE
       /\ since' = IF c.at < since THEN c.at ELSE since
  /\ UNCHANGED <<table, half, stored>>

\* max-age is over.
Expire ==
  /\ \E p \in Pages : \E c \in stored[p] :
       c.fresh /\ stored' = [stored EXCEPT ![p] = {[c EXCEPT !.fresh = FALSE]}]
  /\ UNCHANGED <<table, phase, page, half, seen, since, reused>>

\* An error, or the client stops scrolling.
GiveUp ==
  /\ phase \in {"ask", "between"}
  /\ phase' = "off"
  /\ half' = Nothing
  /\ UNCHANGED <<table, page, stored, seen, since, reused>>

Next ==
  \/ Add \/ Remove
  \/ Open \/ First \/ Second \/ Reuse \/ Expire \/ GiveUp

Spec == Init /\ [][Next]_listVars

----------------------------------------------------------------------------
(* Properties.                                                             *)

TypeOK ==
  /\ list \in {"beers", "reports"} /\ items \subseteq Items /\ version \in 0 .. MaxChanges
  /\ phase \in {"off", "ask", "between", "done"} /\ page \in Pages
  /\ half \in [rows : SUBSET Items, total : 0 .. MaxItem, at : 0 .. MaxChanges]
  /\ stored \in [Pages -> SUBSET Contents] /\ \A p \in Pages : \A c, d \in stored[p] : c = d
  /\ seen \subseteq Items /\ since \in 0 .. MaxChanges /\ reused \in BOOLEAN
  /\ added \subseteq [item : Items, at : 1 .. MaxChanges]
  /\ removed \subseteq [item : Items, at : 1 .. MaxChanges]

\* A row newer than i is among the changes after version v.
Before(changes, i, v) == \E r \in changes : r.item > i /\ r.at > v

\* Why a client that has come to the end may have missed i: a newer row went, and i
\* moved to a page already shown; a newer row came after a stored page was fetched;
\* or, where the rows are counted first, after the count of the last page.
Shifted(i) ==
  \/ Before(removed, i, since')
  \/ reused' /\ Before(added, i, since')
  \/ list = "reports" /\ Before(added, i, half.at)

\* A client that scrolls to the end of GET /beers, GET /feed or an administrator's list
\* has been shown every row that was there all the time, whatever was inserted
\* meanwhile, unless the row was shifted away.
MissesOnlyShifted ==
  [][phase # "done" /\ phase' = "done"
       => \A i \in items : \/ i \in seen'
                           \/ \E r \in added : r.item = i /\ r.at > since'
                           \/ Shifted(i)]_listVars
=============================================================================
