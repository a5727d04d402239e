--------------------------- MODULE LibraryProofs ----------------------------
(***************************************************************************)
(* The clients and the server together, for any number of clients, every   *)
(* capacity, and a connection to MySQL that may be lost at any statement.  *)
(***************************************************************************)
EXTENDS Library, SrvDbProofs

\* A copy in a listing that is not for collecting was not collected, and in the
\* listing of a shelf it is of a book of the shelf.
Suits(l, e) ==
  /\ Browsing(l) => e.shelfno = l.shelf
  /\ l.bcollect = 0 => e.mark # "collected"

\* A client's listing: copies of books that have a row.
IsListing(l, numbers) ==
  /\ l = [shelf |-> l.shelf, bcollect |-> l.bcollect, rows |-> l.rows]
  /\ l.shelf \in 0..MAX_SHELF_NUM /\ l.bcollect \in 0..1
  /\ DOMAIN l.rows \subseteq numbers /\ l.rows \in [DOMAIN l.rows -> Copy]
  /\ \A b \in DOMAIN l.rows : Suits(l, l.rows[b])

\* What the clients send is of its type.
ClientInv ==
  /\ page \in [Client -> {"menu", "books", "searching", "removing"}]
  /\ known \in [Client -> SUBSET ShelfNo]
  /\ at \in [Client -> [shelf : 0..MAX_SHELF_NUM, some : {"yes", "no"}]]
  /\ listing = [c \in Client |-> listing[c]]
  /\ \A c \in Client : IsListing(listing[c], DOMAIN books)
  /\ \A c \in Client : page[c] = "removing" => at[c].shelf \in ShelfNo

SharedInv == Inv /\ ClientInv /\ NeverBoth

\* A book is not both read and lent.
Single(info) == ~(info.on_reading = "1" /\ info.borrowed = "1")

-----------------------------------------------------------------------------
(* What the requests do to the tables.                                     *)

LEMMA UpdateSettles ==
  ASSUME conn \in ConnState, NEW tbl, NEW new, NEW updated, NEW op, UpdateStatement(tbl, new, updated, op)
  PROVE  /\ new = tbl \/ new = updated
         /\ reply'.response = "r_success" => new = updated
<1>1. PICK st \in Statement(conn) :
        /\ new = IF Executed(st) THEN updated ELSE tbl
        /\ reply' = Answer(op, IF Ok(st) THEN "r_success" ELSE "r_failed", NON_SENSE_INT)
  BY DEF UpdateStatement
<1>2. reply'.response = "r_success" => Ok(st)
  BY <1>1 DEF Answer
<1>. QED
  BY <1>1, <1>2, StatementOutcome

\* The rows of the table after a request about books are the rows before it,
\* apart from the column cleaned, and the row that was sent.
Rewritten(row) ==
  /\ DOMAIN books \subseteq DOMAIN books'
  /\ \A b \in DOMAIN books' :
       \/ books'[b] = row
       \/ b \in DOMAIN books /\ books'[b].info = books[b].info

LEMMA InsertWrites ==
  ASSUME Inv, NEW row \in BookEntry, srvdb_book_insert(row)
  PROVE  /\ Next /\ UNCHANGED shelves /\ Rewritten(row)
         /\ \/ books' = books
            \/ \E n \in BookNo : n \notin Live(books) /\ books' = Put(books, n, row)
<1>1. row \in BookRow /\ "insert" \in Ops
  BY DEF BookEntry, Ops
<1>2. \/ books' = books
      \/ \E n \in BookNo : n \notin Live(books) /\ books' = Put(books, n, row)
  BY <1>1, InsertRowEffect, CapacityAssumption DEF srvdb_book_insert, Inv, BookNo
<1>3. Rewritten(row)
  BY <1>2, Zenon DEF Rewritten, Put
<1>. QED
  BY <1>2, <1>3 DEF Next, srvdb_book_insert

LEMMA SetCleanedRows ==
  ASSUME Inv, NEW S, NEW c, NEW tbl, tbl = SetCleaned(books, S, c)
  PROVE  /\ DOMAIN tbl = DOMAIN books
         /\ \A b \in DOMAIN books :
              /\ tbl[b].info = books[b].info /\ tbl[b].shelfno = books[b].shelfno
              /\ tbl[b].cleaned = IF b \in S THEN c ELSE books[b].cleaned
              /\ b \notin S => tbl[b] = books[b]
<1>1. \A b \in DOMAIN books : books[b] \in BookRow
  BY DEF Inv, IsTable
<1>. QED
  BY <1>1 DEF SetCleaned, BookRow

\* All the books of a shelf are unsorted or deleted, when the request succeeds.
Bulk(s, to) ==
  /\ Next /\ UNCHANGED shelves
  /\ DOMAIN books' = DOMAIN books /\ \A b \in DOMAIN books : books'[b].info = books[b].info
  /\ books' = books \/ books' = SetCleaned(books, RowsOn(s), to)
  /\ reply'.response = "r_success" => books' = SetCleaned(books, RowsOn(s), to)

LEMMA BulkWrites ==
  ASSUME Inv, NEW s \in ShelfNo, NEW to,
         \/ \E row \in BookEntry : srvdb_book_update(s, NON_SENSE_INT, row) /\ to = BOOK_UNSORTED
         \/ srvdb_book_delete(s, NON_SENSE_INT) /\ to = BOOK_DEL
  PROVE  Bulk(s, to)
<1>1. BulkRequest(s, NON_SENSE_INT)
  BY DEF BulkRequest, ShelfNo, NON_SENSE_INT
<1>2. \E op : UpdateStatement(books, books', SetCleaned(books, RowsOn(s), to), op)
  BY <1>1 DEF srvdb_book_update, srvdb_book_delete
<1>3. /\ books' = books \/ books' = SetCleaned(books, RowsOn(s), to)
      /\ reply'.response = "r_success" => books' = SetCleaned(books, RowsOn(s), to)
  BY <1>2, UpdateSettles DEF Inv
<1>4. DOMAIN books' = DOMAIN books /\ \A b \in DOMAIN books : books'[b].info = books[b].info
  BY <1>3, SetCleanedRows
<1>5. Next /\ UNCHANGED shelves
  BY Zenon DEF Next, srvdb_book_update, srvdb_book_delete
<1>. QED
  BY <1>3, <1>4, <1>5 DEF Bulk

\* The row of one book.
LEMMA UpdateWrites ==
  ASSUME Inv, NEW b \in BookNo, NEW row \in BookEntry, srvdb_book_update(row.shelfno, b, row)
  PROVE  /\ Next /\ UNCHANGED shelves /\ Rewritten(row)
         /\ DOMAIN books' = DOMAIN books
         /\ \A k \in DOMAIN books : k # b => books'[k] = books[k]
         /\ b \in DOMAIN books => books'[b] \in {books[b], row}
         /\ reply'.response = "r_success" /\ b \in DOMAIN books => books'[b] = row
<1>1. ~BulkRequest(row.shelfno, b)
  BY DEF BulkRequest, BookNo, NON_SENSE_INT
<1> DEFINE tbl == [k \in DOMAIN books |-> IF k = b THEN row ELSE books[k]]
<1>2. UpdateStatement(books, books', tbl, "update")
  BY <1>1 DEF srvdb_book_update
<1>3. (books' = books \/ books' = tbl) /\ (reply'.response = "r_success" => books' = tbl)
  BY <1>2, UpdateSettles DEF Inv
<1>4. /\ DOMAIN tbl = DOMAIN books /\ \A k \in DOMAIN books : k # b => tbl[k] = books[k]
      /\ b \in DOMAIN books => tbl[b] = row
  OBVIOUS
<1>5. Rewritten(row)
  BY <1>3, <1>4 DEF Rewritten
<1> HIDE DEF tbl
<1>. QED
  BY <1>3, <1>4, <1>5, Zenon DEF Next, srvdb_book_update

LEMMA DeleteWrites ==
  ASSUME Inv, NEW b \in BookNo, srvdb_book_delete(NON_SENSE_INT, b), NEW row
  PROVE  /\ Next /\ UNCHANGED shelves /\ Rewritten(row)
         /\ DOMAIN books' = DOMAIN books
         /\ \A k \in DOMAIN books : k # b => books'[k] = books[k]
         /\ b \in DOMAIN books => books'[b] = books[b] \/ books'[b].cleaned = BOOK_DEL
<1>1. ~BulkRequest(NON_SENSE_INT, b)
  BY DEF BulkRequest
<1>2. UpdateStatement(books, books', SetCleaned(books, {b}, BOOK_DEL), "delete")
  BY <1>1 DEF srvdb_book_delete
<1>3. books' = books \/ books' = SetCleaned(books, {b}, BOOK_DEL)
  BY <1>2, UpdateSettles DEF Inv
<1>4. Rewritten(row)
  BY <1>3, SetCleanedRows DEF Rewritten
<1>5. /\ DOMAIN books' = DOMAIN books
      /\ \A k \in DOMAIN books : k # b => books'[k] = books[k]
      /\ b \in DOMAIN books => books'[b] = books[b] \/ books'[b].cleaned = BOOK_DEL
  BY <1>3, SetCleanedRows
<1>. QED
  BY <1>4, <1>5 DEF Next, srvdb_book_delete

LEMMA BuildWrites ==
  ASSUME Inv, NEW row \in ShelfEntry, srvdb_shelf_build(row)
  PROVE  /\ Next /\ UNCHANGED books
         /\ Live(shelves) \subseteq Live(shelves')
         /\ reply'.response = "r_success" => reply'.no \in ShelfNo /\ reply'.no \in Live(shelves')
<1>1. UNCHANGED books /\ Next
  BY DEF srvdb_shelf_build, Next
<1>. QED
  BY <1>1, BuildEffect

LEMMA RemoveWrites ==
  ASSUME Inv, NEW s \in ShelfNo, srvdb_shelf_remove(s)
  PROVE  /\ Next /\ UNCHANGED books
         /\ Live(shelves) \ {s} \subseteq Live(shelves')
<1>1. UNCHANGED books /\ Next
  BY DEF srvdb_shelf_remove, Next
<1>2. UpdateStatement(shelves, shelves', SetCleaned(shelves, {s}, SHELF_DEL), "remove")
  BY DEF srvdb_shelf_remove
<1>3. shelves' = shelves \/ shelves' = SetCleaned(shelves, {s}, SHELF_DEL)
  BY <1>2, UpdateSettles DEF Inv
<1>4. Live(shelves) \ {s} \subseteq Live(shelves')
  BY <1>3 DEF Live, SetCleaned
<1>. QED
  BY <1>1, <1>4

-----------------------------------------------------------------------------
(* What the clients send, and keep.                                        *)

LEMMA ListingsKept ==
  ASSUME ClientInv, DOMAIN books \subseteq DOMAIN books', UNCHANGED listing
  PROVE  listing' = [c \in Client |-> listing'[c]] /\ \A c \in Client : IsListing(listing'[c], DOMAIN books')
  BY DEF ClientInv, IsListing

LEMMA ListingChanges ==
  ASSUME ClientInv, NEW c \in Client, NEW l, listing' = [listing EXCEPT ![c] = l],
         DOMAIN books \subseteq DOMAIN books', IsListing(l, DOMAIN books')
  PROVE  /\ listing' = [d \in Client |-> listing'[d]]
         /\ \A d \in Client : IsListing(listing'[d], DOMAIN books')
         /\ listing'[c] = l /\ \A d \in Client : d # c => listing'[d] = listing[d]
<1>1. /\ listing' = [d \in Client |-> listing'[d]]
      /\ listing'[c] = l /\ \A d \in Client : d # c => listing'[d] = listing[d]
  BY DEF ClientInv
<1>2. \A d \in Client : IsListing(listing[d], DOMAIN books')
  BY DEF ClientInv, IsListing
<1>. QED
  BY <1>1, <1>2

\* A copy is replaced, or stays because the client missed the answer.
LEMMA KeepEffect ==
  ASSUME ClientInv, NEW c \in Client, NEW b \in DOMAIN listing[c].rows, NEW e \in Copy, Keep(c, b, e),
         Suits(listing[c], e), DOMAIN books \subseteq DOMAIN books'
  PROVE  /\ listing' = [d \in Client |-> listing'[d]]
         /\ \A d \in Client : IsListing(listing'[d], DOMAIN books')
         /\ \A d \in Client : d # c => listing'[d] = listing[d]
         /\ listing'[c].bcollect = listing[c].bcollect /\ listing'[c].shelf = listing[c].shelf
         /\ DOMAIN listing'[c].rows = DOMAIN listing[c].rows
         /\ \A k \in DOMAIN listing[c].rows : k # b => listing'[c].rows[k] = listing[c].rows[k]
         /\ listing'[c].rows[b] \in {e, listing[c].rows[b]}
         /\ \E told \in Told : Wrote(c, told) /\ (told = "yes" => listing'[c].rows[b] = e)
         /\ UNCHANGED <<page, known, at, coming, left>>
<1>1. PICK told \in Told :
        /\ listing' = [listing EXCEPT ![c].rows[b] = IF told = "yes" THEN e ELSE @]
        /\ Wrote(c, told)
  BY Zenon DEF Keep
<1>2. UNCHANGED <<page, known, at, coming, left>>
  BY DEF Keep
<1> DEFINE x == IF told = "yes" THEN e ELSE listing[c].rows[b]
           rows == [listing[c].rows EXCEPT ![b] = x]
           l == [shelf |-> listing[c].shelf, bcollect |-> listing[c].bcollect, rows |-> rows]
<1>3. IsListing(listing[c], DOMAIN books) /\ listing = [d \in Client |-> listing[d]]
  BY DEF ClientInv
<1>4. listing' = [listing EXCEPT ![c] = l]
  <2>1. listing[c] = [shelf |-> listing[c].shelf, bcollect |-> listing[c].bcollect, rows |-> listing[c].rows]
    BY <1>3 DEF IsListing
  <2>2. [listing[c] EXCEPT !.rows = rows] = l
    BY <2>1
  <2>3. listing' = [listing EXCEPT ![c] = [listing[c] EXCEPT !.rows = rows]]
    BY <1>1, <1>3
  <2>. QED
    BY <2>2, <2>3, Zenon
<1>5. /\ DOMAIN rows = DOMAIN listing[c].rows /\ rows[b] = x
      /\ \A k \in DOMAIN rows : k # b => rows[k] = listing[c].rows[k]
  BY <1>3 DEF IsListing
<1>6. x \in Copy /\ x \in {e, listing[c].rows[b]} /\ (told = "yes" => x = e)
  BY <1>3 DEF IsListing
<1> HIDE DEF x
<1>7. rows \in [DOMAIN rows -> Copy]
  BY <1>3, <1>6 DEF IsListing
<1>8. l.bcollect = listing[c].bcollect /\ l.shelf = listing[c].shelf /\ l.rows = rows
  OBVIOUS
<1> HIDE DEF rows
<1>9. l = [shelf |-> l.shelf, bcollect |-> l.bcollect, rows |-> l.rows]
  OBVIOUS
<1> HIDE DEF l
<1>10. IsListing(l, DOMAIN books')
  <2>1. l.shelf \in 0..MAX_SHELF_NUM /\ l.bcollect \in 0..1 /\ DOMAIN l.rows \subseteq DOMAIN books'
    BY <1>3, <1>5, <1>8 DEF IsListing
  <2>2. ASSUME NEW k \in DOMAIN l.rows PROVE Suits(l, l.rows[k])
    BY <1>3, <1>5, <1>6, <1>8, <2>2 DEF IsListing, Suits, Browsing
  <2>. QED
    BY <1>7, <1>8, <1>9, <2>1, <2>2 DEF IsListing
<1>11. /\ listing' = [d \in Client |-> listing'[d]]
       /\ \A d \in Client : IsListing(listing'[d], DOMAIN books')
       /\ listing'[c] = l /\ \A d \in Client : d # c => listing'[d] = listing[d]
  BY <1>4, <1>10, ListingChanges, Zenon
<1>. QED
  BY <1>1, <1>2, <1>5, <1>6, <1>8, <1>11

\* Moving a book keeps its two flags apart.
LEMMA MovedSingle ==
  ASSUME NEW info \in BookInfo, Single(info), NEW action \in 0..1, action = 0 => ~Out(info)
  PROVE  Moved(info, action) \in BookInfo /\ Single(Moved(info, action))
<1>1. info \in [on_reading : {"0", "1"}, borrowed : {"0", "1"}, label : Label]
  BY LibraryAssumption
<1>2. Moved(info, action) \in [on_reading : {"0", "1"}, borrowed : {"0", "1"}, label : Label]
  BY <1>1 DEF Moved
<1>3. Single(Moved(info, action))
  BY <1>1 DEF Moved, Single, Out
<1>. QED
  BY <1>2, <1>3, LibraryAssumption

\* Both parts of NeverBoth.
LEMMA SingleParts ==
  NeverBoth <=> /\ \A b \in DOMAIN books : Single(books[b].info)
                /\ \A c \in Client : \A b \in DOMAIN listing[c].rows : Single(listing[c].rows[b].info)
  BY DEF NeverBoth, Single

LEMMA SingleKept ==
  ASSUME NeverBoth, NEW row, Single(row.info), Rewritten(row)
  PROVE  \A b \in DOMAIN books' : Single(books'[b].info)
  BY SingleParts DEF Rewritten

\* A step serves a request or none, and leaves everything of its type.
Sound == [Next]_vars /\ ClientInv' /\ NeverBoth'

LEMMA LookupReads == Lookup => Next /\ UNCHANGED <<books, shelves>>
  BY DEF Lookup, Next

LEMMA AwayType == ASSUME ClientInv, NEW c \in Client, Away(c)
                  PROVE  /\ at' \in [Client -> [shelf : 0..MAX_SHELF_NUM, some : {"yes", "no"}]]
                         /\ at'[c].shelf = NON_SENSE_INT /\ \A d \in Client : d # c => at'[d] = at[d]
<1>1. [shelf |-> NON_SENSE_INT, some |-> "no"] \in [shelf : 0..MAX_SHELF_NUM, some : {"yes", "no"}]
  BY CapacityAssumption DEF NON_SENSE_INT
<1>. QED
  BY <1>1 DEF Away, ClientInv

\* Requests that write nothing, and the ways between the pages.
LEMMA PointSound ==
  ASSUME Inv, ClientInv, NeverBoth, NEW c \in Client, NEW s \in ShelfNo, Point(c, s)
  PROVE  Sound
<1>1. Next /\ UNCHANGED <<books, shelves, page, known, listing>>
  BY LookupReads DEF Point
<1> DEFINE a == IF reply'.response = "r_success"
                THEN [shelf |-> s, some |-> IF HasBooks(s) THEN "yes" ELSE "no"]
                ELSE [shelf |-> NON_SENSE_INT, some |-> "no"]
<1>2. at' = [at EXCEPT ![c] = a] /\ page[c] = "menu"
  BY DEF Point
<1>3. a \in [shelf : 0..MAX_SHELF_NUM, some : {"yes", "no"}]
  BY CapacityAssumption DEF ShelfNo, NON_SENSE_INT
<1> HIDE DEF a
<1>4. /\ at' \in [Client -> [shelf : 0..MAX_SHELF_NUM, some : {"yes", "no"}]]
      /\ \A d \in Client : page'[d] = "removing" => at'[d].shelf \in ShelfNo
  BY <1>1, <1>2, <1>3 DEF ClientInv
<1>5. ClientInv'
  BY <1>1, <1>4 DEF ClientInv
<1>. QED
  BY <1>1, <1>5 DEF Sound, NeverBoth

LEMMA BuildSound ==
  ASSUME Inv, ClientInv, NeverBoth, NEW c \in Client, NEW row \in ShelfEntry, client_build_shelf(c, row)
  PROVE  Sound
<1>1. /\ Next /\ UNCHANGED books /\ UNCHANGED <<page, listing>> /\ page[c] = "menu" /\ Away(c)
      /\ reply'.response = "r_success" => reply'.no \in ShelfNo
  BY BuildWrites DEF client_build_shelf
<1>2. PICK told \in Told : known' = [known EXCEPT ![c] = IF told = "yes" THEN @ \cup {reply'.no} ELSE @]
  BY Zenon DEF client_build_shelf
<1>3. told = "yes" => reply'.response = "r_success"
  BY DEF Told
<1>4. known' \in [Client -> SUBSET ShelfNo]
  BY <1>1, <1>2, <1>3 DEF ClientInv
<1>5. ClientInv'
  BY <1>1, <1>4, AwayType, Zenon DEF ClientInv
<1>. QED
  BY <1>1, <1>5 DEF Sound, NeverBoth

LEMMA InsertSound ==
  ASSUME Inv, ClientInv, NeverBoth, NEW c \in Client, NEW info \in BookInfo, client_shelf_insert_book(c, info)
  PROVE  Sound
<1> DEFINE row == [cleaned |-> BOOK_AVL, shelfno |-> at[c].shelf, info |-> info]
<1>1. /\ UNCHANGED <<page, known, listing>> /\ page[c] = "menu" /\ Away(c) /\ srvdb_book_insert(row)
      /\ info.on_reading = "0"
  BY DEF client_shelf_insert_book
<1>2. row \in BookEntry /\ row.info = info
  BY DEF BookEntry, BookRow, ClientInv, BOOK_AVL
<1>3. Single(row.info)
  BY <1>1, <1>2 DEF Single
<1> HIDE DEF row
<1>4. Next /\ UNCHANGED shelves /\ Rewritten(row)
  BY <1>1, <1>2, InsertWrites
<1>5. listing' = [d \in Client |-> listing'[d]] /\ \A d \in Client : IsListing(listing'[d], DOMAIN books')
  BY <1>1, <1>4, ListingsKept DEF Rewritten
<1>6. ClientInv'
  BY <1>1, <1>5, AwayType DEF ClientInv
<1>7. NeverBoth'
  <2>1. \A b \in DOMAIN books' : Single(books'[b].info)
    BY <1>3, <1>4, SingleKept
  <2>2. \A d \in Client : \A b \in DOMAIN listing'[d].rows : Single(listing'[d].rows[b].info)
    BY <1>1, SingleParts
  <2>. QED
    BY <2>1, <2>2 DEF NeverBoth, Single
<1>. QED
  BY <1>4, <1>6, <1>7 DEF Sound

\* Copies of books as the server has them.
Copies(R) == DOMAIN R \subseteq DOMAIN books /\ R = [b \in DOMAIN R |-> CopyOf(b)]

\* A copy of a book on a shelf is as the server has it.
Exact(R) == \A b \in DOMAIN R : books[b] = Sent(R[b], R[b].info)

\* A listing begins with such copies.
LEMMA CopiesListing ==
  ASSUME Inv, NeverBoth, NEW s \in 0..MAX_SHELF_NUM, NEW collect \in 0..1, NEW R, Copies(R),
         s # NON_SENSE_INT /\ collect = 0 => \A b \in DOMAIN R : books[b].shelfno = s
  PROVE  /\ IsListing([shelf |-> s, bcollect |-> collect, rows |-> R], DOMAIN books)
         /\ \A b \in DOMAIN R : Single(R[b].info)
         /\ (\A b \in DOMAIN R : books[b].cleaned = BOOK_AVL) => Exact(R)
<1> DEFINE l == [shelf |-> s, bcollect |-> collect, rows |-> R]
<1>1. \A b \in DOMAIN books : books[b] \in BookRow /\ CopyOf(b) \in Copy
  BY DEF Inv, IsTable, BookRow, CopyOf, Copy
<1>2. DOMAIN R \subseteq DOMAIN books /\ \A b \in DOMAIN R : R[b] = CopyOf(b)
  BY Zenon DEF Copies
<1>3. R \in [DOMAIN R -> Copy]
  BY <1>1, <1>2 DEF Copies
<1>4. /\ l.shelf = s /\ l.bcollect = collect /\ l.rows = R
      /\ l = [shelf |-> l.shelf, bcollect |-> l.bcollect, rows |-> l.rows]
  OBVIOUS
<1> HIDE DEF l
<1>5. ASSUME NEW b \in DOMAIN R PROVE Suits(l, R[b])
  BY <1>2, <1>4 DEF Suits, Browsing, CopyOf
<1>6. IsListing(l, DOMAIN books)
  BY <1>2, <1>3, <1>4, <1>5 DEF IsListing
<1>7. ASSUME NEW b \in DOMAIN R PROVE Single(R[b].info)
  BY <1>2, SingleParts DEF CopyOf
<1>8. ASSUME NEW b \in DOMAIN R, books[b].cleaned = BOOK_AVL PROVE books[b] = Sent(R[b], R[b].info)
  <2>1. books[b] = [cleaned |-> books[b].cleaned, shelfno |-> books[b].shelfno, info |-> books[b].info]
    BY <1>1, <1>2 DEF BookRow
  <2>2. R[b].shelfno = books[b].shelfno /\ R[b].info = books[b].info
    BY <1>2 DEF CopyOf
  <2>. QED
    BY <1>8, <2>1, <2>2 DEF Sent
<1>. QED
  BY <1>6, <1>7, <1>8, Zenon DEF l, Exact

LEMMA NoCopies == Copies(<<>>) /\ DOMAIN <<>> = {}
<1>1. <<>> = [k \in {} |-> CopyOf(k)]
  OBVIOUS
<1>. QED
  BY <1>1 DEF Copies

LEMMA FoundCopies ==
  ASSUME NEW S \in SUBSET DOMAIN books
  PROVE  Copies([b \in S |-> CopyOf(b)]) /\ DOMAIN [b \in S |-> CopyOf(b)] = S
  BY Zenon DEF Copies

\* A new listing is shown.
LEMMA ShowSound ==
  ASSUME Inv, ClientInv, NeverBoth, NEW c \in Client, NEW l, Show(c, l), IsListing(l, DOMAIN books),
         \A b \in DOMAIN l.rows : Single(l.rows[b].info),
         [Next]_vars, UNCHANGED <<books, shelves, known>>,
         at' \in [Client -> [shelf : 0..MAX_SHELF_NUM, some : {"yes", "no"}]],
         \A d \in Client : d # c => at'[d] = at[d]
  PROVE  /\ Sound /\ listing'[c] = l /\ page'[c] \in {"books", "menu"}
         /\ \A d \in Client : d # c => listing'[d] = listing[d] /\ page'[d] = page[d]
<1>1. /\ listing' = [d \in Client |-> listing'[d]]
      /\ \A d \in Client : IsListing(listing'[d], DOMAIN books')
      /\ listing'[c] = l /\ \A d \in Client : d # c => listing'[d] = listing[d]
  BY ListingChanges, Zenon DEF Show
<1>2. page' = [page EXCEPT ![c] = IF l.rows # <<>> THEN "books" ELSE "menu"]
  BY DEF Show
<1>3. /\ page' \in [Client -> {"menu", "books", "searching", "removing"}]
      /\ page'[c] \in {"books", "menu"} /\ \A d \in Client : d # c => page'[d] = page[d]
  BY <1>2 DEF ClientInv
<1>4. \A d \in Client : page'[d] = "removing" => at'[d].shelf \in ShelfNo
  BY <1>3 DEF ClientInv
<1>5. ClientInv'
  BY <1>1, <1>3, <1>4 DEF ClientInv
<1>6. \A d \in Client : \A b \in DOMAIN listing'[d].rows : Single(listing'[d].rows[b].info)
  BY <1>1, SingleParts
<1>7. \A b \in DOMAIN books' : Single(books'[b].info)
  BY SingleParts
<1>8. NeverBoth'
  BY <1>6, <1>7, Zenon DEF NeverBoth, Single
<1>. QED
  BY <1>1, <1>3, <1>5, <1>8 DEF Sound

\* Old copies are shown again, or new ones are.
LEMMA DisplaySound ==
  ASSUME Inv, ClientInv, NeverBoth, NEW c \in Client, NEW collect \in 0..1, display_bookinfo_page(c, collect)
  PROVE  /\ Sound /\ UNCHANGED <<books, shelves>> /\ at[c].shelf \in ShelfNo
         /\ page'[c] \in {"books", "menu"}
         /\ \A d \in Client : d # c => listing'[d] = listing[d] /\ page'[d] = page[d]
         /\ listing'[c].bcollect = collect /\ listing'[c].shelf = at[c].shelf
         /\ \/ listing'[c] = listing[c] /\ c \notin coming
            \/ collect = 0 => Exact(listing'[c].rows)
<1>1. at[c].shelf \in ShelfNo /\ at[c].shelf # NON_SENSE_INT /\ at[c].shelf \in 0..MAX_SHELF_NUM
  BY DEF display_bookinfo_page, ClientInv, ShelfNo, NON_SENSE_INT
<1>2. /\ Away(c) /\ UNCHANGED known
      /\ at' \in [Client -> [shelf : 0..MAX_SHELF_NUM, some : {"yes", "no"}]]
      /\ \A d \in Client : d # c => at'[d] = at[d]
  BY AwayType DEF display_bookinfo_page
<1>3. CASE ~(Stale(c, collect, at[c].shelf) \/ listing[c].rows = <<>>)
  <2>1. /\ Show(c, listing[c]) /\ UNCHANGED tables
        /\ listing[c].bcollect = collect /\ listing[c].shelf = at[c].shelf /\ c \notin coming
    BY <1>3, Zenon DEF display_bookinfo_page, Stale
  <2>2. UNCHANGED vars /\ UNCHANGED <<books, shelves>>
    BY <2>1 DEF tables, vars
  <2>3. IsListing(listing[c], DOMAIN books) /\ \A b \in DOMAIN listing[c].rows : Single(listing[c].rows[b].info)
    BY SingleParts DEF ClientInv
  <2>4. /\ Sound /\ listing'[c] = listing[c] /\ page'[c] \in {"books", "menu"}
        /\ \A d \in Client : d # c => listing'[d] = listing[d] /\ page'[d] = page[d]
    BY <1>2, <2>1, <2>2, <2>3, ShowSound, Zenon
  <2>. QED
    BY <1>1, <2>1, <2>2, <2>4, Zenon
<1>4. CASE Stale(c, collect, at[c].shelf) \/ listing[c].rows = <<>>
  <2> DEFINE R == IF reply'.response = "r_success" THEN Fetch(collect, at[c].shelf) ELSE <<>>
             l == [shelf |-> at[c].shelf, bcollect |-> collect, rows |-> R]
  <2>1. Next /\ UNCHANGED <<books, shelves>> /\ Show(c, l)
    BY <1>4, LookupReads, Zenon DEF display_bookinfo_page
  <2>2. l.bcollect = collect /\ l.shelf = at[c].shelf /\ l.rows = R
    OBVIOUS
  <2>3. /\ Copies(R)
        /\ collect = 0 => \A b \in DOMAIN R : books[b].shelfno = at[c].shelf /\ books[b].cleaned = BOOK_AVL
    <3>1. CASE reply'.response = "r_success"
      <4> DEFINE S == IF collect = 1 THEN BooksIn(BOOK_UNSORTED, NON_SENSE_INT)
                                     ELSE BooksIn(BOOK_AVL, at[c].shelf)
      <4>1. S \in SUBSET DOMAIN books
        BY DEF BooksIn
      <4>2. collect = 0 => \A b \in S : books[b].shelfno = at[c].shelf /\ books[b].cleaned = BOOK_AVL
        BY <1>1 DEF BooksIn
      <4>3. R = [b \in S |-> CopyOf(b)]
        BY <3>1, Zenon DEF Fetch
      <4> HIDE DEF S, R
      <4>. QED
        BY <4>1, <4>2, <4>3, FoundCopies, Zenon
    <3>2. CASE reply'.response # "r_success"
      BY <3>2, NoCopies, Zenon
    <3>. QED
      BY <3>1, <3>2
  <2> HIDE DEF R
  <2>4. /\ IsListing(l, DOMAIN books) /\ \A b \in DOMAIN R : Single(R[b].info)
        /\ collect = 0 => Exact(R)
    BY <1>1, <2>3, CopiesListing, Zenon
  <2> HIDE DEF l
  <2>5. /\ Sound /\ listing'[c] = l /\ page'[c] \in {"books", "menu"}
        /\ \A d \in Client : d # c => listing'[d] = listing[d] /\ page'[d] = page[d]
    BY <1>2, <2>1, <2>2, <2>4, ShowSound, Zenon
  <2>. QED
    BY <1>1, <2>1, <2>2, <2>4, <2>5, Zenon
<1>. QED
  BY <1>3, <1>4

LEMMA SearchPageSound ==
  ASSUME Inv, ClientInv, NeverBoth, NEW c \in Client, ncgui_display_searchbook_page(c)
  PROVE  Sound
<1>1. /\ Next /\ UNCHANGED <<books, shelves, known, listing>> /\ Away(c)
      /\ page' = [page EXCEPT ![c] = "searching"]
  BY LookupReads DEF ncgui_display_searchbook_page
<1>2. /\ page' \in [Client -> {"menu", "books", "searching", "removing"}]
      /\ \A d \in Client : page'[d] = "removing" => at'[d].shelf \in ShelfNo
  BY <1>1, AwayType DEF ClientInv
<1>3. ClientInv'
  BY <1>1, <1>2, AwayType DEF ClientInv
<1>. QED
  BY <1>1, <1>3 DEF Sound, NeverBoth

\* A search begins a listing of books as the server has them.
LEMMA SearchSound ==
  ASSUME Inv, ClientInv, NeverBoth, NEW c \in Client, NEW s, client_searching_book(c, s)
  PROVE  /\ Sound /\ UNCHANGED <<books, shelves>> /\ page'[c] \in {"books", "menu"}
         /\ \A d \in Client : d # c => listing'[d] = listing[d] /\ page'[d] = page[d]
         /\ listing'[c].shelf = NON_SENSE_INT /\ Exact(listing'[c].rows)
<1>1. Next /\ UNCHANGED <<books, shelves, known, at>>
  BY LookupReads DEF client_searching_book
<1>2. PICK found \in SUBSET BooksIn(BOOK_AVL, s) :
        Show(c, [shelf |-> NON_SENSE_INT, bcollect |-> listing[c].bcollect,
                 rows |-> IF reply'.response = "r_success" THEN [b \in found |-> CopyOf(b)] ELSE <<>>])
  BY Zenon DEF client_searching_book
<1> DEFINE R == IF reply'.response = "r_success" THEN [b \in found |-> CopyOf(b)] ELSE <<>>
           l == [shelf |-> NON_SENSE_INT, bcollect |-> listing[c].bcollect, rows |-> R]
<1>3. Copies(R) /\ \A b \in DOMAIN R : books[b].cleaned = BOOK_AVL
  <2>1. found \in SUBSET DOMAIN books /\ \A b \in found : books[b].cleaned = BOOK_AVL
    BY DEF BooksIn
  <2>2. CASE reply'.response = "r_success"
    BY <2>1, <2>2, FoundCopies, Zenon
  <2>3. CASE reply'.response # "r_success"
    BY <2>3, NoCopies, Zenon
  <2>. QED
    BY <2>2, <2>3
<1>4. l.shelf = NON_SENSE_INT /\ l.rows = R
  OBVIOUS
<1>5. NON_SENSE_INT \in 0..MAX_SHELF_NUM /\ listing[c].bcollect \in 0..1
  BY CapacityAssumption DEF NON_SENSE_INT, ClientInv, IsListing
<1>6. Show(c, l)
  BY <1>2
<1> HIDE DEF R
<1>7. IsListing(l, DOMAIN books) /\ (\A b \in DOMAIN R : Single(R[b].info)) /\ Exact(R)
  BY <1>3, <1>5, CopiesListing, Zenon
<1> HIDE DEF l
<1>8. /\ Sound /\ listing'[c] = l /\ page'[c] \in {"books", "menu"}
      /\ \A d \in Client : d # c => listing'[d] = listing[d] /\ page'[d] = page[d]
  <2>1. at' \in [Client -> [shelf : 0..MAX_SHELF_NUM, some : {"yes", "no"}]] /\ at' = at
    BY <1>1 DEF ClientInv
  <2>. QED
    BY <1>1, <1>4, <1>6, <1>7, <2>1, ShowSound, Zenon
<1>. QED
  BY <1>1, <1>4, <1>7, <1>8, Zenon

\* The first part of taking down a shelf: nothing is written, or the books of
\* the shelf are.
LEMMA RemovingEffect ==
  ASSUME Inv, ClientInv, NEW c \in Client, delete_shelf_page(c)
  PROVE  /\ at[c].shelf \in ShelfNo
         /\ \/ /\ UNCHANGED <<tables, writer, alone>>
               /\ left \subseteq left' /\ (at[c].some = "yes" => at[c].shelf \in left')
            \/ /\ \E to \in {BOOK_UNSORTED, BOOK_DEL} : Bulk(at[c].shelf, to)
               /\ UNCHANGED left /\ \E told \in Told : Wrote(c, told)
<1>1. at[c].shelf \in ShelfNo
  BY DEF delete_shelf_page, ClientInv, ShelfNo, NON_SENSE_INT
<1>2. ASSUME NEW info \in BookInfo,
             srvdb_book_update(at[c].shelf, NON_SENSE_INT,
                               [cleaned |-> BOOK_AVL, shelfno |-> at[c].shelf, info |-> info])
      PROVE  Bulk(at[c].shelf, BOOK_UNSORTED)
  <2>1. [cleaned |-> BOOK_AVL, shelfno |-> at[c].shelf, info |-> info] \in BookEntry
    BY <1>1 DEF BookEntry, BookRow, ShelfNo, BOOK_AVL
  <2>. QED
    BY <1>1, <1>2, <2>1, BulkWrites
<1>3. ASSUME srvdb_book_delete(at[c].shelf, NON_SENSE_INT)
      PROVE  Bulk(at[c].shelf, BOOK_DEL)
  BY <1>1, <1>3, BulkWrites
<1>4. \/ /\ UNCHANGED <<tables, writer, alone>>
         /\ left' = IF at[c].some = "yes" THEN left \cup {at[c].shelf} ELSE left
      \/ /\ \/ \E info \in BookInfo :
                  srvdb_book_update(at[c].shelf, NON_SENSE_INT,
                                    [cleaned |-> BOOK_AVL, shelfno |-> at[c].shelf, info |-> info])
            \/ srvdb_book_delete(at[c].shelf, NON_SENSE_INT)
         /\ UNCHANGED left /\ \E told \in Told : Wrote(c, told)
  BY Zenon DEF delete_shelf_page
<1>5. ASSUME left' = IF at[c].some = "yes" THEN left \cup {at[c].shelf} ELSE left
      PROVE  left \subseteq left' /\ (at[c].some = "yes" => at[c].shelf \in left')
  BY <1>5
<1>. QED
  BY <1>1, <1>2, <1>3, <1>4, <1>5, Zenon

LEMMA RemovingSound ==
  ASSUME Inv, ClientInv, NeverBoth, NEW c \in Client, delete_shelf_page(c)
  PROVE  Sound
<1>1. /\ page' = [page EXCEPT ![c] = "removing"] /\ UNCHANGED <<known, at, listing>>
      /\ at[c].shelf \in ShelfNo
  BY RemovingEffect, Zenon DEF delete_shelf_page
<1>2. /\ [Next]_vars /\ DOMAIN books' = DOMAIN books
      /\ \A b \in DOMAIN books : books'[b].info = books[b].info
  BY RemovingEffect DEF Bulk, tables, vars
<1>3. listing' = [d \in Client |-> listing'[d]] /\ \A d \in Client : IsListing(listing'[d], DOMAIN books')
  BY <1>1, <1>2, ListingsKept
<1>4. ClientInv'
  BY <1>1, <1>3 DEF ClientInv
<1>5. NeverBoth'
  BY <1>1, <1>2 DEF NeverBoth
<1>. QED
  BY <1>2, <1>4, <1>5 DEF Sound

LEMMA RemoveSound ==
  ASSUME Inv, ClientInv, NeverBoth, NEW c \in Client, client_shelf_delete_itself(c)
  PROVE  Sound
<1>1. at[c].shelf \in ShelfNo /\ srvdb_shelf_remove(at[c].shelf)
  BY DEF client_shelf_delete_itself, ClientInv
<1>2. /\ Next /\ UNCHANGED books /\ UNCHANGED listing /\ Away(c)
      /\ page' = [page EXCEPT ![c] = "menu"]
  BY <1>1, RemoveWrites DEF client_shelf_delete_itself
<1>3. known' \in [Client -> SUBSET ShelfNo]
  BY DEF client_shelf_delete_itself, ClientInv
<1>4. /\ page' \in [Client -> {"menu", "books", "searching", "removing"}]
      /\ \A d \in Client : page'[d] = "removing" => at'[d].shelf \in ShelfNo
  BY <1>2, AwayType DEF ClientInv
<1>5. ClientInv'
  BY <1>2, <1>3, <1>4, AwayType DEF ClientInv
<1>. QED
  BY <1>2, <1>5 DEF Sound, NeverBoth

\* What follows a request about the book under the slider.
LEMMA HandleSound ==
  ASSUME Inv, ClientInv, NeverBoth, NEW c \in Client, NEW b \in DOMAIN listing[c].rows, NEW e \in Copy,
         Keep(c, b, e), Single(e.info),
         Suits(listing[c], e), Next, NEW row, Rewritten(row), Single(row.info)
  PROVE  Sound
<1>1. /\ listing' = [d \in Client |-> listing'[d]]
      /\ \A d \in Client : IsListing(listing'[d], DOMAIN books')
      /\ \A d \in Client : d # c => listing'[d] = listing[d]
      /\ DOMAIN listing'[c].rows = DOMAIN listing[c].rows
      /\ \A k \in DOMAIN listing[c].rows : k # b => listing'[c].rows[k] = listing[c].rows[k]
      /\ listing'[c].rows[b] \in {e, listing[c].rows[b]}
      /\ UNCHANGED <<page, known, at, coming>>
  BY KeepEffect DEF Rewritten
<1>2. ClientInv'
  BY <1>1 DEF ClientInv
<1>3. \A d \in Client : \A k \in DOMAIN listing'[d].rows : Single(listing'[d].rows[k].info)
  BY <1>1, SingleParts
<1>4. \A k \in DOMAIN books' : Single(books'[k].info)
  BY SingleKept, ZenonT(30)
<1>5. NeverBoth'
  BY <1>3, <1>4, ZenonT(30) DEF NeverBoth, Single
<1>. QED
  BY <1>2, <1>5 DEF Sound

\* The copy under the slider.
LEMMA ShownCopy ==
  ASSUME Inv, ClientInv, NeverBoth, NEW c \in Client, NEW b, Shown(c, b)
  PROVE  LET e == listing[c].rows[b]
         IN  /\ b \in DOMAIN listing[c].rows /\ b \in DOMAIN books /\ b \in BookNo
             /\ e \in Copy /\ Single(e.info) /\ e.info \in BookInfo
             /\ listing[c].shelf \in 0..MAX_SHELF_NUM
             /\ Suits(listing[c], e)
<1>1. b \in DOMAIN listing[c].rows /\ IsListing(listing[c], DOMAIN books)
  BY DEF Shown, ClientInv
<1>2. DOMAIN books \subseteq BookNo
  BY DEF Inv, IsTable, BookNo
<1>3. listing[c].rows[b] \in Copy
  BY <1>1 DEF IsListing
<1>4. listing[c].rows[b].info \in BookInfo
  BY <1>3 DEF Copy
<1>. QED
  BY <1>1, <1>2, <1>3, <1>4, SingleParts DEF IsListing

\* The row that is sent, and the copy that is kept, with other information.
LEMMA SentRow ==
  ASSUME NEW e \in Copy, NEW info \in BookInfo
  PROVE  /\ Sent(e, info) \in BookEntry /\ Sent(e, info).shelfno = e.shelfno
         /\ Sent(e, info).info = info /\ Sent(e, info).cleaned = BOOK_AVL
         /\ [e EXCEPT !.info = info] \in Copy /\ [e EXCEPT !.info = info].info = info
         /\ [e EXCEPT !.info = info].shelfno = e.shelfno /\ [e EXCEPT !.info = info].mark = e.mark
  BY DEF Sent, BookEntry, BookRow, Copy, BOOK_AVL

LEMMA MarkedCopy ==
  ASSUME NEW e \in Copy, NEW m \in {"kept", "deleted", "collected"}
  PROVE  /\ [e EXCEPT !.mark = m] \in Copy /\ [e EXCEPT !.mark = m].info = e.info
         /\ [e EXCEPT !.mark = m].shelfno = e.shelfno /\ [e EXCEPT !.mark = m].mark = m
  BY DEF Copy

\* Reading, lending, giving back and tagging: the copy with other information
\* is written.
Rewrite(c, b, info) ==
  LET e == listing[c].rows[b]
  IN  /\ Shown(c, b) /\ listing[c].bcollect = 0 /\ e.mark # "deleted"
      /\ info \in BookInfo /\ Single(info)
      /\ srvdb_book_update(e.shelfno, b, Sent(e, info))
      /\ Keep(c, b, [e EXCEPT !.info = info])

LEMMA MovingRewrites ==
  ASSUME Inv, ClientInv, NeverBoth, NEW c \in Client, NEW b, NEW action \in 0..1,
         client_shelf_moving_book(c, b, action)
  PROVE  \E info : Rewrite(c, b, info)
<1> DEFINE e == listing[c].rows[b]
<1>1. Shown(c, b) /\ (action = 0 => ~Out(e.info))
  BY Zenon DEF client_shelf_moving_book
<1>2. Moved(e.info, action) \in BookInfo /\ Single(Moved(e.info, action))
  BY <1>1, ShownCopy, MovedSingle
<1>3. Rewrite(c, b, Moved(e.info, action))
  BY <1>2, Zenon DEF client_shelf_moving_book, Rewrite
<1>. QED
  BY <1>3, Zenon

LEMMA TaggingRewrites ==
  ASSUME Inv, ClientInv, NeverBoth, NEW c \in Client, NEW b, NEW l \in Label,
         client_shelf_tagging_book(c, b, l)
  PROVE  \E info : Rewrite(c, b, info)
<1> DEFINE e == listing[c].rows[b]
           tagged == [e.info EXCEPT !.label = l]
<1>1. Shown(c, b)
  BY Zenon DEF client_shelf_tagging_book
<1>2. e.info \in [on_reading : {"0", "1"}, borrowed : {"0", "1"}, label : Label] /\ Single(e.info)
  BY <1>1, ShownCopy, LibraryAssumption
<1>3. tagged \in BookInfo /\ Single(tagged)
  BY <1>2, LibraryAssumption DEF Single
<1>4. Rewrite(c, b, tagged)
  BY <1>3, Zenon DEF client_shelf_tagging_book, Rewrite
<1>. QED
  BY <1>4, Zenon

LEMMA RewriteSound ==
  ASSUME Inv, ClientInv, NeverBoth, NEW c \in Client, NEW b, NEW info, Rewrite(c, b, info)
  PROVE  Sound
<1> DEFINE e == listing[c].rows[b]
           f == [e EXCEPT !.info = info]
           row == Sent(e, info)
<1>1. /\ Shown(c, b) /\ info \in BookInfo /\ Single(info)
      /\ srvdb_book_update(e.shelfno, b, row) /\ Keep(c, b, f)
  BY Zenon DEF Rewrite
<1>2. b \in DOMAIN listing[c].rows /\ b \in BookNo /\ e \in Copy /\ Suits(listing[c], e)
  BY <1>1, ShownCopy
<1>3. /\ row \in BookEntry /\ row.shelfno = e.shelfno /\ row.info = info
      /\ f \in Copy /\ f.info = info /\ Suits(listing[c], f)
  BY <1>1, <1>2, SentRow DEF Suits
<1> HIDE DEF e, f, row
<1>4. Next /\ Rewritten(row)
  BY <1>1, <1>2, <1>3, UpdateWrites
<1>. QED
  BY <1>1, <1>2, <1>3, <1>4, HandleSound

LEMMA DeleteSound ==
  ASSUME Inv, ClientInv, NeverBoth, NEW c \in Client, NEW b, client_shelf_delete_book(c, b)
  PROVE  Sound
<1> DEFINE e == listing[c].rows[b]
           f == [e EXCEPT !.mark = "deleted"]
<1>1. Shown(c, b) /\ srvdb_book_delete(NON_SENSE_INT, b) /\ Keep(c, b, f)
  BY Zenon DEF client_shelf_delete_book
<1>2. /\ b \in DOMAIN listing[c].rows /\ b \in BookNo /\ e \in Copy /\ Single(e.info)
      /\ Suits(listing[c], e)
  BY <1>1, ShownCopy
<1>3. f \in Copy /\ f.info = e.info /\ Suits(listing[c], f)
  BY <1>2, MarkedCopy, Zenon DEF Suits
<1> HIDE DEF e, f
<1>4. Next /\ Rewritten(e)
  BY <1>1, <1>2, DeleteWrites
<1>. QED
  BY <1>1, <1>2, <1>3, <1>4, HandleSound

LEMMA CollectSound ==
  ASSUME Inv, ClientInv, NeverBoth, NEW c \in Client, NEW b, client_shelf_collecting_book(c, b)
  PROVE  Sound
<1> DEFINE e == listing[c].rows[b]
           f == [e EXCEPT !.mark = "collected"]
           row == [cleaned |-> BOOK_AVL, shelfno |-> listing[c].shelf, info |-> e.info]
<1>1. /\ Shown(c, b) /\ listing[c].bcollect = 1
      /\ srvdb_book_update(listing[c].shelf, b, row) /\ Keep(c, b, f)
  BY Zenon DEF client_shelf_collecting_book
<1>2. /\ b \in DOMAIN listing[c].rows /\ b \in BookNo /\ e \in Copy /\ Single(e.info)
      /\ listing[c].shelf \in 0..MAX_SHELF_NUM /\ e.info \in BookInfo
  BY <1>1, ShownCopy
<1>3. f \in Copy /\ f.info = e.info
  BY <1>2, MarkedCopy, Zenon
<1>4. row \in BookEntry /\ row.shelfno = listing[c].shelf /\ row.info = e.info
  BY <1>2 DEF BookEntry, BookRow, BOOK_AVL
<1> HIDE DEF e, f, row
<1>5. Next /\ Rewritten(row)
  BY <1>1, <1>2, <1>4, UpdateWrites
<1>6. Suits(listing[c], f)
  BY <1>1 DEF Suits, Browsing
<1>. QED
  BY <1>1, <1>2, <1>3, <1>4, <1>5, <1>6, HandleSound

LEMMA RestSound ==
  ASSUME Inv, ClientInv, NeverBoth,
         \/ \E c \in Client : Leave(c) \/ Restart(c)
         \/ MySqlTimeout /\ UNCHANGED <<clients, history>>
  PROVE  Sound
<1>1. ASSUME NEW c \in Client, Leave(c) PROVE Sound
  <2>1. UNCHANGED vars /\ UNCHANGED <<known, at, listing>> /\ page' = [page EXCEPT ![c] = "menu"]
    BY <1>1 DEF Leave, tables, vars
  <2>2. ClientInv'
    BY <2>1 DEF ClientInv, vars
  <2>. QED
    BY <2>1, <2>2 DEF Sound, NeverBoth, vars
<1>2. ASSUME NEW c \in Client, Restart(c) PROVE Sound
  <2>1. /\ Next /\ UNCHANGED <<books, shelves, page>> /\ Away(c) /\ page[c] = "menu"
        /\ known' = [known EXCEPT ![c] = Live(shelves)] /\ listing' = [listing EXCEPT ![c] = NoListing]
    BY <1>2, LookupReads DEF Restart
  <2>2. known' \in [Client -> SUBSET ShelfNo]
    <3>1. Live(shelves) \subseteq ShelfNo
      BY DEF Live, Inv, IsTable, ShelfNo
    <3>. QED
      BY <2>1, <3>1 DEF ClientInv
  <2>3. DOMAIN NoListing.rows = {} /\ IsListing(NoListing, DOMAIN books)
    <3>1. NoListing.rows = [k \in {} |-> k]
      BY DEF NoListing
    <3>2. /\ NoListing = [shelf |-> NoListing.shelf, bcollect |-> NoListing.bcollect, rows |-> NoListing.rows]
          /\ NoListing.shelf \in 0..MAX_SHELF_NUM /\ NoListing.bcollect \in 0..1
      BY CapacityAssumption DEF NoListing, NON_SENSE_INT
    <3>. QED
      BY <3>1, <3>2 DEF IsListing
  <2>4. /\ listing' = [d \in Client |-> listing'[d]]
        /\ \A d \in Client : IsListing(listing'[d], DOMAIN books')
        /\ listing'[c] = NoListing /\ \A d \in Client : d # c => listing'[d] = listing[d]
    BY <2>1, <2>3, ListingChanges, Zenon
  <2>5. ClientInv'
    BY <2>1, <2>2, <2>4, AwayType DEF ClientInv
  <2>6. NeverBoth'
    BY <2>1, <2>3, <2>4 DEF NeverBoth
  <2>. QED
    BY <2>1, <2>5, <2>6 DEF Sound
<1>3. CASE MySqlTimeout /\ UNCHANGED <<clients, history>>
  <2>1. Next /\ UNCHANGED <<books, shelves, page, known, at, listing>>
    BY <1>3 DEF MySqlTimeout, Next, clients
  <2>. QED
    BY <2>1 DEF Sound, ClientInv, NeverBoth
<1>. QED
  BY <1>1, <1>2, <1>3

-----------------------------------------------------------------------------
LEMMA SharedInit == LibInit => SharedInv
<1> SUFFICES ASSUME LibInit PROVE SharedInv
  OBVIOUS
<1>1. Inv /\ books = <<>> /\ DOMAIN books = {}
  BY InitInv DEF LibInit, Init
<1>2. NoListing.rows = [k \in {} |-> k]
  BY DEF NoListing
<1>3. IsListing(NoListing, DOMAIN books)
  <2>1. /\ NoListing = [shelf |-> NoListing.shelf, bcollect |-> NoListing.bcollect, rows |-> NoListing.rows]
        /\ NoListing.shelf \in 0..MAX_SHELF_NUM /\ NoListing.bcollect \in 0..1
    BY CapacityAssumption DEF NoListing, NON_SENSE_INT
  <2>. QED
    BY <1>2, <2>1 DEF IsListing
<1>4. [shelf |-> NON_SENSE_INT, some |-> "no"] \in [shelf : 0..MAX_SHELF_NUM, some : {"yes", "no"}]
  BY CapacityAssumption DEF NON_SENSE_INT
<1>5. ClientInv
  BY <1>3, <1>4 DEF LibInit, ClientInv
<1>6. NeverBoth
  BY <1>1, <1>2 DEF LibInit, NeverBoth
<1>. QED
  BY <1>1, <1>5, <1>6 DEF SharedInv

LEMMA SharedStep == SharedInv /\ [LibNext]_libvars => Sound /\ SharedInv'
<1> SUFFICES ASSUME SharedInv, [LibNext]_libvars PROVE Sound /\ SharedInv'
  OBVIOUS
<1>1. Inv /\ ClientInv /\ NeverBoth
  BY DEF SharedInv
<1>2. ASSUME UNCHANGED libvars PROVE Sound
  <2>1. UNCHANGED vars /\ UNCHANGED <<page, known, at, listing>>
    BY <1>2 DEF libvars, tables, clients, vars
  <2>2. ClientInv'
    BY <1>1, <2>1, ZenonT(30) DEF ClientInv, vars
  <2>3. NeverBoth'
    BY <1>1, <2>1 DEF NeverBoth, vars
  <2>. QED
    BY <2>1, <2>2, <2>3, Zenon DEF Sound
<1>3. ASSUME LibNext PROVE Sound
  <2>1. ASSUME NEW c \in Client, Shelve(c) PROVE Sound
    BY <1>1, <2>1, PointSound, BuildSound, InsertSound, DisplaySound, SearchPageSound, SearchSound,
       RemovingSound, RemoveSound, Zenon DEF Shelve
  <2>2. ASSUME NEW c \in Client, Handle(c) PROVE Sound
    BY <1>1, <2>2, MovingRewrites, TaggingRewrites, RewriteSound, DeleteSound, CollectSound,
       RestSound DEF Handle
  <2>3. ASSUME MySqlTimeout /\ UNCHANGED <<clients, history>> PROVE Sound
    BY <1>1, <2>3, RestSound
  <2>. QED
    BY <1>3, <2>1, <2>2, <2>3 DEF LibNext
<1>4. Sound
  BY <1>2, <1>3
<1>. QED
  BY <1>1, <1>4, StepInv DEF SharedInv, Sound

\* SharedInv is inductive.
LEMMA SharedAlways == LibSpec => []SharedInv
  BY SharedInit, SharedStep, PTL DEF LibSpec

\* The composition implements the server's own specification: what the clients
\* send are requests that the server is specified for, whatever they remember
\* (socket_srv_process_request).
THEOREM ServedAlways == LibSpec => ServedByTables
<1>1. LibInit => Init
  BY DEF LibInit
<1>2. SharedInv /\ [LibNext]_libvars => [Next]_vars
  BY SharedStep DEF Sound
<1>. QED
  BY <1>1, <1>2, SharedAlways, PTL DEF LibSpec, ServedByTables

\* No book is both being read and lent, for any number of clients that write
\* whole rows from old copies (client_shelf_moving_book, srvdb_book_update).
THEOREM NeverBothAlways == LibSpec => []NeverBoth
<1>1. SharedInv => NeverBoth
  BY DEF SharedInv
<1>. QED
  BY <1>1, SharedAlways, PTL
=============================================================================
