------------------------------- MODULE Forms --------------------------------
(***************************************************************************)
(* The forms a user of the client fills in with the arrow keys (ncgui.c):  *)
(* the profile of a new shelf (set_shelf_parameter), the place of a book   *)
(* on a shelf (select_newbook_floor), the page for a new book              *)
(* (add_newbook_page) and the pages for logging in and registering.  Each  *)
(* form is a record of its function's local variables, and each operator   *)
(* says what one key makes of it; BookMan puts the forms into the program. *)
(***************************************************************************)
EXTENDS Integers

CONSTANTS
  MAX_FLOORS, MAX_DEPTH,
  Letter            \* the first bytes of titles and authors, as typed in UTF-8

ASSUME FormsAssumption ==
  /\ MAX_FLOORS \in Nat \ {0} /\ MAX_DEPTH \in Nat \ {0}
  /\ Letter \subseteq 1..255

Floor == 1..MAX_FLOORS
Depth == 0..MAX_DEPTH
Byte == 0..255
YesNo == {"yes", "no"}

\* Lines of the drawing of a shelf that the screen shows besides the first.
pad_show_hight == 7

-----------------------------------------------------------------------------
(* The height of a shelf, and its profile: floor 1 is at the bottom.       *)

FloorsUp(n) == IF n + 1 > MAX_FLOORS THEN 1 ELSE n + 1
FloorsDown(n) == IF n - 1 < 1 THEN MAX_FLOORS ELSE n - 1

profile_hight(n) == 2 * n + 2

\* The loop of set_shelf_parameter begins with the whole of a low shelf.
Shown(n, start) == IF profile_hight(n) <= pad_show_hight THEN 0 ELSE start

Profile(n, depths) ==
  [kind |-> "profile", nfloors |-> n, depths |-> depths, curs_floor |-> 1,
   start_hight |-> Shown(n, profile_hight(n) - pad_show_hight)]

\* Variant: the drawing is not scrolled back behind its first line.
ProfileUp_Past(f) ==
  [f EXCEPT !.start_hight = Shown(f.nfloors, @ - 2),
            !.curs_floor = IF @ + 1 > f.nfloors THEN f.nfloors ELSE @ + 1]
ProfileUp(f) ==
  [f EXCEPT !.start_hight = Shown(f.nfloors, IF @ - 2 <= 0 THEN 0 ELSE @ - 2),
            !.curs_floor = IF @ + 1 > f.nfloors THEN f.nfloors ELSE @ + 1]
ProfileDown(f) ==
  LET last == profile_hight(f.nfloors) - pad_show_hight
  IN  [f EXCEPT !.start_hight = Shown(f.nfloors, IF @ + 2 > last THEN last ELSE @ + 2),
                !.curs_floor = IF @ - 1 < 1 THEN 1 ELSE @ - 1]

\* A depth is an unsigned char: below 0 comes 255, which is put back to 0.
\* Variant: it is not.
DepthDown_Wraps(d) == (d + 255) % 256
DepthDown(d) == IF (d + 255) % 256 = 255 THEN 0 ELSE (d + 255) % 256
DepthUp(d) == IF (d + 1) % 256 > MAX_DEPTH THEN MAX_DEPTH ELSE (d + 1) % 256
ProfileLeft(f) == [f EXCEPT !.depths[f.curs_floor] = DepthDown(@)]
ProfileRight(f) == [f EXCEPT !.depths[f.curs_floor] = DepthUp(@)]

-----------------------------------------------------------------------------
(* The place of a book on shelf s: a floor and a row on it.                *)

FirstPlace == [kind |-> "place", floor |-> 1, depth |-> 1, cursor |-> "floor"]

PlaceUp(s, p) ==
  IF p.cursor = "floor"
  THEN [p EXCEPT !.floor = IF @ + 1 > s.nfloors THEN s.nfloors ELSE @ + 1]
  ELSE [p EXCEPT !.depth = IF @ + 1 > s.depths[p.floor] THEN s.depths[p.floor] ELSE @ + 1]
PlaceDown(s, p) ==
  IF p.cursor = "floor"
  THEN [p EXCEPT !.floor = IF @ - 1 < 1 THEN 1 ELSE @ - 1]
  ELSE [p EXCEPT !.depth = IF @ - 1 < 1 THEN 1 ELSE @ - 1]

\* Variant: the row chosen is kept when the cursor goes back to the floors.
PlaceOver_Keeps(p) ==
  [p EXCEPT !.cursor = IF @ = "floor" THEN "depth" ELSE "floor"]
PlaceOver(p) ==
  [p EXCEPT !.depth = 1, !.cursor = IF @ = "floor" THEN "depth" ELSE "floor"]

\* code[1] of the book.
PlaceCode(p) == p.floor * 16 + p.depth

-----------------------------------------------------------------------------
(* A new book.  Rows 0 to 4 are the title, the author, the place, the tags *)
(* and the end; flag 1 leads from row to row, flag 2 starts that again.    *)

NewBook == [kind |-> "newbook", row |-> 0, flag |-> 1, auto |-> "yes",
            name |-> 0, author |-> 0, place |-> 0]

\* Enter on a row.  KEY_ENTER, unlike the newline, is taken for typed again when
\* the row does not say what comes next.
Typed(f, key) == [f EXCEPT !.auto = IF key = "KEY_ENTER" THEN "yes" ELSE "no"]

\* What follows a row that was filled in.
NextRow(f) ==
  IF f.flag = 1 /\ f.row >= 3 THEN [f EXCEPT !.flag = 0, !.auto = "no"]
  ELSE IF f.flag = 1 THEN [f EXCEPT !.row = @ + 1, !.auto = "yes"]
  ELSE IF f.flag = 2 THEN [f EXCEPT !.flag = 1, !.row = 0, !.auto = "yes"]
  ELSE f

\* A bit of a byte.
Bits == {1, 2, 4, 8, 16, 32, 64, 128}
Has(x, bit) == (x \div bit) % 2 = 1

\* The test for a complete book in client_shelf_insert_book: the two first
\* bytes and the place, taken together bit by bit, are not 0.  A place is below
\* 256, so that a byte's sign does not matter.
Complete(f) ==
  \E bit \in Bits : Has(f.name, bit) /\ Has(f.author, bit) /\ Has(f.place, bit)

-----------------------------------------------------------------------------
(* The pages for logging in and for registering.  What is typed into a     *)
(* field is long enough, or the field is emptied (get_login_input).        *)

Login == [kind |-> "login", row |-> 0, auto |-> "no", bReg |-> 0,
          name |-> "no", password |-> "no"]
Register == [kind |-> "register", row |-> 0, name |-> "no", password |-> "no"]

RowUp(row, last) == IF row = 0 THEN last ELSE row - 1
RowDown(row, last) == IF row = last THEN 0 ELSE row + 1
=============================================================================
