----------------------------- MODULE BeerBoard -----------------------------
(***************************************************************************)
(* What the beer operations promise, without transactions, locks, handlers *)
(* or failures: each accepted request changes one beer at one instant, in  *)
(* the way its operation says and if its caller may, and the log of events *)
(* gains exactly the record of that change at the same instant.  BeerStore *)
(* implements it.                                                          *)
(***************************************************************************)
EXTENDS Integers

CONSTANTS Beers, Users, Admins, Names, CallIds, Types, Logging, NoBeer, NoUser

VARIABLES
  board,  \* the beers everyone sees
  log,    \* the events everyone sees
  last    \* the request of the last change, so that no change is anonymous

view == <<board, log, last>>

Init ==
  /\ board \in [Beers -> {NoBeer} \union
                         [owner : Users \union {NoUser}, name : Names, comments : {{}}]]
  /\ log = {}
  /\ last = {}

Request == [n : CallIds, beer : Beers, type : Types, by : Users]

\* One record of the change, under a number the log has not seen.
Record(c) ==
  /\ \A e \in log : e.n # c.n
  /\ log' = log \union (IF Logging THEN {[n |-> c.n, beer |-> c.beer, type |-> c.type]} ELSE {})

Show(b, r) == board' = [board EXCEPT ![b] = r]

Exists(b) == board[b] # NoBeer

WithComments(b, cs) == [board[b] EXCEPT !.comments = cs]

Create(c) ==
  /\ c.type = "create"
  /\ ~Exists(c.beer)
  /\ \E nm \in Names : Show(c.beer, [owner |-> c.by, name |-> nm, comments |-> {}])
  /\ Record(c)

\* An edit by the owner or an administrator replaces name and comments.
Update(c) ==
  /\ c.type = "update"
  /\ Exists(c.beer)
  /\ c.by \in Admins \/ c.by = board[c.beer].owner
  /\ \E nm \in Names, r \in {board'[c.beer]} :
       /\ r # NoBeer
       /\ Show(c.beer, [WithComments(c.beer, r.comments) EXCEPT !.name = nm])
  /\ Record(c)

\* A deletion, direct or by approval of a request, takes the beer's events.
Delete(c) ==
  /\ c.type \in {"delete", "approve"}
  /\ Exists(c.beer)
  /\ c.by \in Admins
  /\ Show(c.beer, NoBeer)
  /\ log' = {e \in log : e.beer # c.beer}

\* A new comment starts without likes, though the caller may list likers.
Comment(c) ==
  /\ c.type = "comment"
  /\ Exists(c.beer)
  /\ \A m \in board[c.beer].comments : m.id # c.n
  /\ \E likers \in SUBSET Users :
       LET new == [id |-> c.n, author |-> c.by, likes |-> 0, likedBy |-> likers]
       IN  Show(c.beer, WithComments(c.beer, board[c.beer].comments \union {new}))
  /\ Record(c)

Uncomment(c) ==
  /\ c.type = "uncomment"
  /\ c.by \in Admins
  /\ Exists(c.beer)
  /\ \E m \in board[c.beer].comments :
       Show(c.beer, WithComments(c.beer, board[c.beer].comments \ {m}))
  /\ Record(c)

\* A caller likes a comment at most once.
Like(c) ==
  /\ c.type = "like"
  /\ Exists(c.beer)
  /\ \E m \in board[c.beer].comments :
       LET liked == [m EXCEPT !.likes = @ + 1, !.likedBy = @ \union {c.by}]
       IN  /\ c.by \notin m.likedBy
           /\ Show(c.beer, WithComments(c.beer, (board[c.beer].comments \ {m}) \union {liked}))
  /\ Record(c)

Next ==
  \E c \in last' :
    /\ c \in Request
    /\ last' = {c}
    /\ Create(c) \/ Update(c) \/ Delete(c) \/ Comment(c) \/ Uncomment(c) \/ Like(c)

Spec == Init /\ [][Next]_view
=============================================================================
