----------------------------- MODULE MCLibrary ------------------------------
(***************************************************************************)
(* Library with one number for books and one for shelves, so that numbers  *)
(* are reused at once.  States are compared without what no action looks   *)
(* at any more: the server's last answer (reply), the history once alone   *)
(* is FALSE, and copies that nothing is written from.  The invariants say  *)
(* nothing of these that they have not said of an earlier state.           *)
(***************************************************************************)
EXTENDS Library, TLC

CONSTANTS c1, c2, nobody, tag, s1
MCClient == {c1, c2}
MCOne == {c1}
MCLabel == {tag}
MCShelfInfo == {s1}
MCBookInfo == [on_reading : {"0", "1"}, borrowed : {"0", "1"}, label : {tag}]
Clients == Permutations({c1, c2})

\* Of a listing that is shown, or may be when it is opened again, the copies
\* that may still be written from; of another one what a search keeps.  That is
\* all that coming decides.
InUse(c) == page[c] = "books" \/ (listing[c].shelf # NON_SENSE_INT /\ c \notin coming)
Copies(rows) == [b \in DOMAIN rows |-> IF rows[b].mark = "kept" THEN rows[b] ELSE rows[b].mark]
Compared ==
  <<books, shelves, conn, page, known, at, alone, IF alone THEN history ELSE <<>>,
    [c \in Client |-> IF InUse(c) THEN [listing[c] EXCEPT !.rows = Copies(@)]
                      ELSE [NoListing EXCEPT !.bcollect = listing[c].bcollect]]>>
=============================================================================
