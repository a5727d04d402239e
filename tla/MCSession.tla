----------------------------- MODULE MCSession ------------------------------
(***************************************************************************)
(* Session with two clients.  One of the two descriptors is below the      *)
(* listening socket's, as it is after a failed reconnection to MySQL has   *)
(* freed the one of its connection.                                        *)
(***************************************************************************)
EXTENDS Session, TLC

CONSTANTS c1, c2, none

MCFd == {3, 5}
MCFewFd == {5}
MCTwo == {c1, c2}
MCOne == {c1}
Clients == Permutations(Client)
=============================================================================
