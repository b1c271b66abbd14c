----------------------------- MODULE MCWSHandler -----------------------------
(***************************************************************************)
(* Model checking of WSHandler with the SessionManager it calls: sessions  *)
(* are interchangeable, and so are the connections inside the boundary.    *)
(***************************************************************************)
EXTENDS WSHandler, TLC

Symmetry == Permutations(LocalCallers) \union Permutations(Sessions)

=============================================================================
