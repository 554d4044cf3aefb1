---------------------------- MODULE MCBeerStore ----------------------------
(***************************************************************************)
(* TLC instances of BeerStore; each configuration selects the operations   *)
(* and the failures it is about.                                           *)
(***************************************************************************)
EXTENDS BeerStore, TLC

\* Handlers are interchangeable.
Symmetry == Permutations(Handlers)

CommentAndUpdate == {"comment", "update"}
CreateOnly == {"create"}

\* What the apps send; and one comment as a client may write it in a body of
\* its own: anonymous, with two likes and one liker.
AppsOnly == {}
OneOfItsOwn == {[author |-> NoUser, likes |-> 2, likedBy |-> {u}] : u \in Users \ Admins}
=============================================================================
