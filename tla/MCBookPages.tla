---------------------------- MODULE MCBookPages -----------------------------
(***************************************************************************)
(* BookPages with pages of three rows, of which the screen shows two: four *)
(* books make a full page and one that is not.                             *)
(***************************************************************************)
EXTENDS BookPages

StillAligned == aligned

\* What lies behind the end of the file is left out of the states: as long as
\* the listing is aligned no action looks at it (AtPage in BookPagesProofs).
InFront ==
  <<books, [i \in 0 .. cache.dbm_pos - 1 |-> cache.file[i]], cache.dbm_pos, cache.search_pos,
    statics, global_new_book_coming, screen, query, steady, aligned>>
=============================================================================
