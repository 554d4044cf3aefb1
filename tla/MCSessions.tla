----------------------------- MODULE MCSessions -----------------------------
(***************************************************************************)
(* TLC instances of Sessions.                                              *)
(***************************************************************************)
EXTENDS Sessions, TLC

\* Handlers are interchangeable.  Devices and emails are not: NoJob names one
\* of each.
Symmetry == Permutations(Handlers)
=============================================================================
