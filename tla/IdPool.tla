------------------------------- MODULE IdPool -------------------------------
(***************************************************************************)
(* What the numbering of a table promises its users, without rows,         *)
(* statements or connections: a number is in use by at most one owner, a   *)
(* number that is handed out was free, and the number confirmed to the     *)
(* owner is the one that came into use.  The confirmation may get lost.    *)
(***************************************************************************)
CONSTANTS
  Number,     \* the numbers there are
  None        \* not a number: no number was confirmed

VARIABLES
  live,       \* the numbers in use
  grant       \* the number confirmed by the last step, or None

Init ==
  /\ live = {}
  /\ grant = None

Acquire(n) ==
  /\ n \in Number \ live
  /\ live' = live \cup {n}
  /\ grant' \in {n, None}

Release(n) ==
  /\ live' = live \ {n}
  /\ grant' = None

Refuse ==
  /\ grant' = None
  /\ UNCHANGED live

Next ==
  \/ \E n \in Number : Acquire(n) \/ Release(n)
  \/ Refuse

Spec == Init /\ [][Next]_<<live, grant>>
=============================================================================
