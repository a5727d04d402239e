---------------------------- MODULE MCShelfSync -----------------------------
(***************************************************************************)
(* ShelfSync with two shelves: one that the list confirms and one that it  *)
(* does not, in either order.                                              *)
(***************************************************************************)
EXTENDS ShelfSync

CONSTANTS oak, pine, none
MCShelfInfo == {oak, pine}
=============================================================================
