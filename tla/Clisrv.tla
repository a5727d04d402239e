------------------------------- MODULE Clisrv -------------------------------
(***************************************************************************)
(* The definitions shared by client and server (clisrv.h, the same file in *)
(* bsdqclient/ and bsdqserver/).  The capacities are parameters: the       *)
(* program is built with MAX_BOOK_NUM = 10000, MAX_SHELF_NUM = 15 and      *)
(* DEFAULT_FINDS = 30, a model checker needs smaller ones and the theorems *)
(* hold for all of them.                                                   *)
(***************************************************************************)
EXTENDS Integers

CONSTANTS
  MAX_BOOK_NUM,    \* book numbers one user may have
  MAX_SHELF_NUM    \* shelf numbers one user may have

ASSUME CapacityAssumption ==
  /\ MAX_BOOK_NUM \in Nat \ {0}
  /\ MAX_SHELF_NUM \in Nat \ {0}

\* A field that carries no number.
NON_SENSE_INT == 0

\* The values of the column "cleaned" of both tables.
BOOK_AVL == 0
BOOK_DEL == 1
BOOK_UNSORTED == 2
SHELF_AVL == 0
SHELF_DEL == 1
=============================================================================
