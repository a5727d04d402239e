------------------------- MODULE LibraryAloneProofs --------------------------
(***************************************************************************)
(* What the counts of a shelf say, and what a client may rely on while it  *)
(* is the only one that wrote and got all its answers.                     *)
(***************************************************************************)
EXTENDS LibraryProofs, FiniteSetTheorems

\* The copies that were not deleted are as the server has them.
Fresh(c) ==
  \A b \in DOMAIN listing[c].rows :
    listing[c].rows[b].mark = "kept" => books[b] = Sent(listing[c].rows[b], listing[c].rows[b].info)

Empty(s) == BooksIn(BOOK_AVL, s) = {}

\* Where a book that is on a shelf may be, and that it is there.
Housed == Live(shelves) \cup left \cup {NON_SENSE_INT}
Placed == \A b \in DOMAIN books : books[b].cleaned = BOOK_AVL => books[b].shelfno \in Housed

\* What a client knows while it is the only one that wrote.  Old copies may be
\* out of date only in ways that keep them from being shown again: a book was
\* added, or the shelf has no books left to open it for.
Knows(c) ==
  /\ known[c] \subseteq Live(shelves)
  /\ page[c] = "menu" /\ at[c].shelf # NON_SENSE_INT =>
       at[c].shelf \in Live(shelves) /\ (at[c].some = "yes" <=> ~Empty(at[c].shelf))
  /\ page[c] = "removing" => Empty(at[c].shelf) \/ at[c].shelf \in left
  /\ page[c] \in {"books", "searching"} => at[c].shelf = NON_SENSE_INT
  /\ page[c] = "books" => listing[c].shelf \in Live(shelves) \cup {NON_SENSE_INT}
  /\ Browsing(listing[c]) => Fresh(c) \/ c \in coming \/ Empty(listing[c].shelf)
  /\ page[c] = "books" /\ ~Collecting(listing[c]) => Fresh(c)

\* While one client works alone it knows what it needs to.
AloneInv ==
  /\ \A c \in Client : alone /\ writer \in {c, NoClient} => Knows(c)
  /\ alone => Placed
  /\ writer \in Client \cup {NoClient}

LibInv == SharedInv /\ AloneInv

-----------------------------------------------------------------------------
(* The counts.                                                             *)

LEMMA FiniteBooks ==
  ASSUME Inv, NEW S \in SUBSET DOMAIN books
  PROVE  IsFiniteSet(S) /\ Cardinality(S) \in Nat /\ (Cardinality(S) = 0 <=> S = {})
<1>1. IsFiniteSet(1..MAX_BOOK_NUM)
  BY FS_Interval, CapacityAssumption
<1>2. IsFiniteSet(S)
  BY <1>1, FS_Subset, Zenon DEF Inv, IsTable
<1>. QED
  BY <1>2, FS_CardinalityType, FS_EmptySet

LEMMA CountedBooks ==
  ASSUME Inv, NEW s
  PROVE  srvdb_book_count(s).books_all - srvdb_book_count(s).books_unsorted = Cardinality(BooksIn(BOOK_AVL, s))
<1>1. BooksIn(BOOK_AVL, s) \in SUBSET DOMAIN books /\ BooksIn(BOOK_UNSORTED, s) \in SUBSET DOMAIN books
  BY DEF BooksIn
<1>2. Cardinality(BooksIn(BOOK_AVL, s)) \in Nat /\ Cardinality(BooksIn(BOOK_UNSORTED, s)) \in Nat
  BY <1>1, FiniteBooks
<1> DEFINE x == Cardinality(BooksIn(BOOK_AVL, s))
           y == Cardinality(BooksIn(BOOK_UNSORTED, s))
<1>3. srvdb_book_count(s).books_all = x + y /\ srvdb_book_count(s).books_unsorted = y
  BY DEF srvdb_book_count
<1>4. x \in Nat /\ y \in Nat
  BY <1>2
<1> HIDE DEF x, y
<1>5. srvdb_book_count(s).books_all - srvdb_book_count(s).books_unsorted = x
  BY <1>3, <1>4
<1>. QED
  BY <1>5 DEF x

\* A shelf is found to have books when it has some.
LEMMA HasBooksSome == ASSUME Inv, NEW s PROVE HasBooks(s) <=> ~Empty(s)
<1>1. BooksIn(BOOK_AVL, s) \in SUBSET DOMAIN books
  BY DEF BooksIn
<1>. QED
  BY <1>1, FiniteBooks, CountedBooks DEF HasBooks, Empty

LEMMA EmptyMeans ==
  ASSUME NEW s \in ShelfNo
  PROVE  Empty(s) <=> \A b \in DOMAIN books : ~(books[b].cleaned = BOOK_AVL /\ books[b].shelfno = s)
  BY DEF Empty, BooksIn, ShelfNo, NON_SENSE_INT

LEMMA EmptyMeansNext ==
  ASSUME NEW s \in ShelfNo
  PROVE  Empty(s)' <=> \A b \in DOMAIN books' : ~(books'[b].cleaned = BOOK_AVL /\ books'[b].shelfno = s)
  BY DEF Empty, BooksIn, ShelfNo, NON_SENSE_INT

\* The books read and the books lent are different books on the shelf.
LEMMA CountsHold == Inv /\ NeverBoth => CountsAddUp
<1> SUFFICES ASSUME Inv, NeverBoth, NEW s \in 0..MAX_SHELF_NUM
             PROVE  srvdb_book_count(s).books_on_reading + srvdb_book_count(s).books_borrowed
                      <= srvdb_book_count(s).books_all - srvdb_book_count(s).books_unsorted
  BY DEF CountsAddUp
<1> DEFINE A == BooksIn(BOOK_AVL, s)
           R == {b \in A : books[b].info.on_reading = "1"}
           L == {b \in A : books[b].info.borrowed = "1"}
<1>1. A \in SUBSET DOMAIN books /\ R \in SUBSET DOMAIN books /\ L \in SUBSET DOMAIN books
  BY DEF BooksIn
<1>2. R \cap L = {} /\ R \cup L \subseteq A
  BY <1>1 DEF NeverBoth
<1>3. srvdb_book_count(s).books_on_reading = Cardinality(R) /\ srvdb_book_count(s).books_borrowed = Cardinality(L)
  BY DEF srvdb_book_count
<1> HIDE DEF A, R, L
<1>4. IsFiniteSet(A) /\ IsFiniteSet(R) /\ IsFiniteSet(L)
      /\ Cardinality(R) \in Nat /\ Cardinality(L) \in Nat /\ Cardinality(A) \in Nat
  BY <1>1, FiniteBooks
<1>5. Cardinality(R \cup L) = Cardinality(R) + Cardinality(L) - Cardinality(R \cap L)
  BY <1>4, FS_Union
<1>6. Cardinality(R \cap L) = 0
  BY <1>2, FS_EmptySet
<1>7. Cardinality(R \cup L) <= Cardinality(A)
  BY <1>2, <1>4, FS_Subset
<1>8. srvdb_book_count(s).books_all - srvdb_book_count(s).books_unsorted = Cardinality(A)
  BY CountedBooks DEF A
<1>. QED
  BY <1>3, <1>4, <1>5, <1>6, <1>7, <1>8, SMTT(30)

-----------------------------------------------------------------------------
(* One client at work alone.                                               *)

LEMMA WroteAlone ==
  ASSUME NEW c, NEW told \in Told, Wrote(c, told)
  PROVE  /\ writer' = c
         /\ alone' => alone /\ writer \in {c, NoClient} /\ told = "yes"
         /\ told = "yes" => reply'.response = "r_success"
<1>1. writer' = c /\ (alone' => alone /\ writer \in {c, NoClient} /\ told = "yes")
  BY Zenon DEF Wrote
<1>2. told = "yes" => reply'.response = "r_success"
  BY DEF Told
<1>. QED
  BY <1>1, <1>2

OthersKept(c) ==
  \A d \in Client :
    d # c => /\ page'[d] = page[d] /\ known'[d] = known[d] /\ at'[d] = at[d]
             /\ listing'[d] = listing[d] /\ (d \in coming' <=> d \in coming)

\* What a client knows is about its own state and the tables.
LEMMA KnowsKept ==
  ASSUME NEW d, Knows(d), UNCHANGED <<books, shelves>>, left \subseteq left',
         page'[d] = page[d], known'[d] = known[d], at'[d] = at[d],
         listing'[d] = listing[d], d \in coming' <=> d \in coming
  PROVE  Knows(d)'
<1>1. Fresh(d)' <=> Fresh(d)
  BY DEF Fresh, Sent
<1>2. \A s : Empty(s)' <=> Empty(s)
  BY DEF Empty, BooksIn
<1>3. Live(shelves)' = Live(shelves)
  BY DEF Live
<1>. QED
  BY <1>1, <1>2, <1>3, Zenon DEF Knows, Browsing, Collecting

\* A step that writes nothing.
LEMMA QuietAlone ==
  ASSUME AloneInv, NEW c \in Client, UNCHANGED <<books, shelves, writer, alone>>, left \subseteq left',
         OthersKept(c), Knows(c) => Knows(c)'
  PROVE  AloneInv'
<1>1. ASSUME NEW d \in Client, Knows(d) PROVE Knows(d)'
  BY <1>1, KnowsKept DEF OthersKept
<1>2. ASSUME NEW d \in Client, alone', writer' \in {d, NoClient} PROVE Knows(d)'
  BY <1>1, <1>2 DEF AloneInv
<1>3. alone' => Placed'
  BY DEF AloneInv, Placed, Housed, Live
<1>. QED
  BY <1>2, <1>3 DEF AloneInv

\* A step that writes: the other clients are no longer alone.
LEMMA WriteAlone ==
  ASSUME AloneInv, NEW c \in Client, NEW told \in Told, Wrote(c, told),
         Knows(c) /\ told = "yes" => Knows(c)',
         Knows(c) /\ told = "yes" /\ Placed => Placed'
  PROVE  AloneInv'
<1>1. writer' = c /\ c # NoClient
      /\ (alone' => alone /\ writer \in {c, NoClient} /\ told = "yes")
  BY WroteAlone, LibraryAssumption
<1>2. alone' => Knows(c) /\ told = "yes"
  BY <1>1 DEF AloneInv
<1>3. ASSUME NEW d \in Client, alone', writer' \in {d, NoClient} PROVE Knows(d)'
  BY <1>1, <1>2, <1>3
<1>4. alone' => Placed'
  BY <1>1, <1>2 DEF AloneInv
<1>. QED
  BY <1>1, <1>3, <1>4 DEF AloneInv

LEMMA PointAlone ==
  ASSUME Inv, ClientInv, AloneInv, NEW c \in Client, NEW s \in ShelfNo, Point(c, s)
  PROVE  AloneInv'
<1>1. /\ UNCHANGED <<books, shelves, page, known, listing, coming, writer, alone, left>>
      /\ page[c] = "menu" /\ s \in known[c]
  BY LookupReads DEF Point, history
<1> DEFINE a == IF reply'.response = "r_success"
                THEN [shelf |-> s, some |-> IF HasBooks(s) THEN "yes" ELSE "no"]
                ELSE [shelf |-> NON_SENSE_INT, some |-> "no"]
<1>2. at' = [at EXCEPT ![c] = a]
  BY DEF Point
<1>3. /\ a.shelf # NON_SENSE_INT => a.shelf = s /\ (a.some = "yes" <=> HasBooks(s))
  OBVIOUS
<1> HIDE DEF a
<1>4. at'[c] = a /\ \A d \in Client : d # c => at'[d] = at[d]
  BY <1>2 DEF ClientInv
<1>5. OthersKept(c)
  BY <1>1, <1>4, SMTT(30) DEF OthersKept
<1>6. ASSUME Knows(c) PROVE Knows(c)'
  <2>1. (Fresh(c)' <=> Fresh(c)) /\ Live(shelves)' = Live(shelves)
    BY <1>1 DEF Fresh, Sent, Live
  <2>2. \A n : Empty(n)' <=> Empty(n)
    BY <1>1 DEF Empty, BooksIn
  <2>3. a.shelf # NON_SENSE_INT => a.shelf \in Live(shelves) /\ (a.some = "yes" <=> ~Empty(a.shelf))
    BY <1>1, <1>3, <1>6, HasBooksSome, ZenonT(30) DEF Knows
  <2>. QED
    BY <1>1, <1>4, <1>6, <2>1, <2>2, <2>3, ZenonT(30) DEF Knows, Browsing, Collecting
<1>. QED
  BY <1>1, <1>5, <1>6, QuietAlone

LEMMA BuildAlone ==
  ASSUME Inv, ClientInv, AloneInv, NEW c \in Client, NEW row \in ShelfEntry, client_build_shelf(c, row)
  PROVE  AloneInv'
<1>1. /\ UNCHANGED <<books, page, listing, coming>> /\ page[c] = "menu"
      /\ Live(shelves) \subseteq Live(shelves')
      /\ reply'.response = "r_success" => reply'.no \in Live(shelves')
      /\ at'[c].shelf = NON_SENSE_INT
      /\ left' = IF reply'.response = "r_success" THEN left \ {reply'.no} ELSE left
  BY BuildWrites, AwayType DEF client_build_shelf
<1>2. PICK told \in Told :
        /\ known' = [known EXCEPT ![c] = IF told = "yes" THEN @ \cup {reply'.no} ELSE @]
        /\ Wrote(c, told)
  BY Zenon DEF client_build_shelf
<1>3. told = "yes" => known'[c] = known[c] \cup {reply'.no} /\ reply'.response = "r_success"
  BY <1>2, WroteAlone DEF ClientInv
<1>4. Live(shelves)' = Live(shelves')
  BY DEF Live
<1>5. ASSUME Knows(c), told = "yes" PROVE Knows(c)'
  <2>1. (Fresh(c)' <=> Fresh(c)) /\ \A n : Empty(n)' <=> Empty(n)
    BY <1>1 DEF Fresh, Sent, Empty, BooksIn
  <2>. QED
    BY <1>1, <1>3, <1>4, <1>5, <2>1, ZenonT(30) DEF Knows, Browsing, Collecting
<1>6. Placed => Placed'
  <2>1. Housed \subseteq Housed'
    BY <1>1, <1>4 DEF Housed
  <2>. QED
    BY <1>1, <2>1 DEF Placed
<1>. QED
  BY <1>2, <1>5, <1>6, WriteAlone, ZenonT(30)

LEMMA InsertAlone ==
  ASSUME Inv, ClientInv, AloneInv, NEW c \in Client, NEW info \in BookInfo, client_shelf_insert_book(c, info)
  PROVE  AloneInv'
<1> DEFINE row == [cleaned |-> BOOK_AVL, shelfno |-> at[c].shelf, info |-> info]
<1>1. /\ UNCHANGED <<page, known, listing, left>> /\ page[c] = "menu" /\ srvdb_book_insert(row)
      /\ at[c].shelf # NON_SENSE_INT /\ at'[c].shelf = NON_SENSE_INT
  BY AwayType DEF client_shelf_insert_book
<1>2. row \in BookEntry /\ row.shelfno = at[c].shelf
  BY DEF BookEntry, BookRow, ClientInv, BOOK_AVL
<1> HIDE DEF row
<1>3. /\ UNCHANGED shelves
      /\ books' = books \/ \E n \in BookNo : n \notin Live(books) /\ books' = Put(books, n, row)
  BY <1>1, <1>2, InsertWrites, ZenonT(30)
<1>4. PICK told \in Told : /\ coming' = IF told = "yes" THEN coming \cup {c} ELSE coming
                           /\ Wrote(c, told)
  BY DEF client_shelf_insert_book
<1>5. Live(shelves)' = Live(shelves)
  BY <1>3, SMTT(30) DEF Live
<1>6. ASSUME Knows(c), told = "yes" PROVE Knows(c)'
  BY <1>1, <1>4, <1>5, <1>6, ZenonT(30) DEF Knows, Browsing, Collecting
<1>7. ASSUME Knows(c), Placed PROVE Placed'
  <2>1. at[c].shelf \in Live(shelves)
    BY <1>1, <1>7, Zenon DEF Knows
  <2>2. \A b \in DOMAIN books' : books'[b] = row \/ (b \in DOMAIN books /\ books'[b] = books[b])
    BY <1>3, Zenon DEF Put
  <2>. QED
    BY <1>1, <1>2, <1>5, <1>7, <2>1, <2>2, ZenonT(30) DEF Placed, Housed
<1>. QED
  BY <1>4, <1>6, <1>7, WriteAlone, ZenonT(30)

\* Old copies are shown again only when they are up to date.
LEMMA DisplayAlone ==
  ASSUME Inv, ClientInv, NeverBoth, AloneInv, NEW c \in Client, NEW collect \in 0..1,
         display_bookinfo_page(c, collect)
  PROVE  AloneInv'
<1>1. /\ UNCHANGED <<books, shelves>> /\ page'[c] \in {"books", "menu"}
      /\ \A d \in Client : d # c => listing'[d] = listing[d] /\ page'[d] = page[d]
      /\ listing'[c].bcollect = collect /\ listing'[c].shelf = at[c].shelf
      /\ \/ listing'[c] = listing[c] /\ c \notin coming
         \/ collect = 0 => Exact(listing'[c].rows)
  BY DisplaySound
<1>2. /\ Away(c) /\ UNCHANGED <<known, writer, alone, left>> /\ coming' = coming \ {c}
      /\ page[c] = "menu" /\ at[c].shelf # NON_SENSE_INT /\ (collect = 0 => at[c].some = "yes")
  BY DEF display_bookinfo_page, history
<1>3. at'[c].shelf = NON_SENSE_INT /\ \A d \in Client : d # c => at'[d] = at[d]
  BY <1>2, AwayType
<1>4. OthersKept(c)
  BY <1>1, <1>2, <1>3, SMTT(30) DEF OthersKept
<1>5. ASSUME Knows(c) PROVE Knows(c)'
  <2>1. at[c].shelf \in Live(shelves) /\ (at[c].some = "yes" <=> ~Empty(at[c].shelf))
    BY <1>2, <1>5, Zenon DEF Knows
  <2>2. Live(shelves)' = Live(shelves)
    BY <1>1 DEF Live
  <2>3. collect = 0 => Fresh(c)'
    <3>1. CASE listing'[c] = listing[c] /\ c \notin coming
      <4>1. collect = 0 => Fresh(c)
        BY <1>1, <1>2, <1>5, <2>1, <3>1, ZenonT(30) DEF Knows, Browsing
      <4>2. Fresh(c) => Fresh(c)'
        BY <1>1, <3>1, ZenonT(30) DEF Fresh, Sent
      <4>. QED
        BY <4>1, <4>2, SMTT(30)
    <3>2. CASE collect = 0 => Exact(listing'[c].rows)
      BY <1>1, <3>2 DEF Fresh, Exact, Sent
    <3>. QED
      BY <1>1, <3>1, <3>2
  <2>4. collect # 0 => ~Browsing(listing[c])' /\ (page[c] = "books" => Collecting(listing[c]))'
    BY <1>1, <1>2 DEF Browsing, Collecting
  <2>. QED
    BY <1>1, <1>2, <1>3, <1>5, <2>1, <2>2, <2>3, <2>4, ZenonT(30) DEF Knows
<1>. QED
  BY <1>1, <1>2, <1>4, <1>5, QuietAlone, Zenon

LEMMA SearchPageAlone ==
  ASSUME Inv, ClientInv, AloneInv, NEW c \in Client, ncgui_display_searchbook_page(c)
  PROVE  AloneInv'
<1>1. /\ UNCHANGED <<books, shelves, known, listing, coming, writer, alone, left>> /\ Away(c)
      /\ page' = [page EXCEPT ![c] = "searching"]
  BY LookupReads DEF ncgui_display_searchbook_page, history
<1>2. /\ page'[c] = "searching" /\ \A d \in Client : d # c => page'[d] = page[d]
      /\ at'[c].shelf = NON_SENSE_INT /\ \A d \in Client : d # c => at'[d] = at[d]
  BY <1>1, AwayType DEF ClientInv
<1>3. OthersKept(c)
  BY <1>1, <1>2, ZenonT(30) DEF OthersKept
<1>4. ASSUME Knows(c) PROVE Knows(c)'
  <2>1. (Fresh(c)' <=> Fresh(c)) /\ (\A n : Empty(n)' <=> Empty(n)) /\ Live(shelves)' = Live(shelves)
    BY <1>1, ZenonT(30) DEF Fresh, Sent, Empty, BooksIn, Live
  <2>. QED
    BY <1>1, <1>2, <1>4, <2>1, ZenonT(30) DEF Knows, Browsing
<1>. QED
  BY <1>1, <1>3, <1>4, QuietAlone, ZenonT(30)

LEMMA SearchAlone ==
  ASSUME Inv, ClientInv, NeverBoth, AloneInv, NEW c \in Client, NEW s, client_searching_book(c, s)
  PROVE  AloneInv'
<1>1. /\ UNCHANGED <<books, shelves>> /\ page'[c] \in {"books", "menu"}
      /\ \A d \in Client : d # c => listing'[d] = listing[d] /\ page'[d] = page[d]
      /\ listing'[c].shelf = NON_SENSE_INT /\ Exact(listing'[c].rows)
  BY SearchSound
<1>2. UNCHANGED <<known, at, coming, writer, alone, left>> /\ page[c] = "searching"
  BY DEF client_searching_book, history
<1>3. OthersKept(c)
  BY <1>1, <1>2, ZenonT(30) DEF OthersKept
<1>4. ASSUME Knows(c) PROVE Knows(c)'
  <2>1. Fresh(c)'
    BY <1>1 DEF Fresh, Exact, Sent
  <2>2. Live(shelves)' = Live(shelves)
    BY <1>1 DEF Live
  <2>. QED
    BY <1>1, <1>2, <1>4, <2>1, <2>2, ZenonT(30) DEF Knows
<1>. QED
  BY <1>1, <1>2, <1>3, <1>4, QuietAlone, ZenonT(30)

\* Either the shelf had no books when they were counted, or the user left the
\* question, or all of them are taken from it.
LEMMA RemovingAlone ==
  ASSUME Inv, ClientInv, AloneInv, NEW c \in Client, delete_shelf_page(c)
  PROVE  AloneInv'
<1>1. /\ page' = [page EXCEPT ![c] = "removing"] /\ UNCHANGED <<known, at, listing, coming>>
      /\ page[c] = "menu" /\ at[c].shelf # NON_SENSE_INT /\ at[c].shelf \in ShelfNo
  BY RemovingEffect, Zenon DEF delete_shelf_page
<1>2. page'[c] = "removing" /\ \A d \in Client : d # c => page'[d] = page[d]
  BY <1>1 DEF ClientInv
<1>3. CASE /\ UNCHANGED <<tables, writer, alone>> /\ left \subseteq left'
           /\ at[c].some = "yes" => at[c].shelf \in left'
  <2>1. OthersKept(c)
    BY <1>1, <1>2, ZenonT(30) DEF OthersKept
  <2>2. ASSUME Knows(c) PROVE Knows(c)'
    <3>1. (Fresh(c)' <=> Fresh(c)) /\ (\A n : Empty(n)' <=> Empty(n)) /\ Live(shelves)' = Live(shelves)
      BY <1>1, <1>3, SMTT(30) DEF Fresh, Sent, Empty, BooksIn, Live, tables
    <3>2. at[c].some # "yes" => Empty(at[c].shelf)
      BY <1>1, <2>2 DEF Knows
    <3>. QED
      BY <1>1, <1>2, <1>3, <2>2, <3>1, <3>2, ZenonT(30) DEF Knows, Browsing
  <2>. QED
    BY <1>3, <2>1, <2>2, QuietAlone DEF tables
<1>4. ASSUME NEW to \in {BOOK_UNSORTED, BOOK_DEL}, Bulk(at[c].shelf, to), UNCHANGED left,
             NEW told \in Told, Wrote(c, told)
      PROVE  AloneInv'
  <2> DEFINE s == at[c].shelf
  <2>1. UNCHANGED shelves /\ to # BOOK_AVL /\ (told = "yes" => books' = SetCleaned(books, RowsOn(s), to))
    BY <1>4, WroteAlone DEF Bulk, BOOK_UNSORTED, BOOK_DEL, BOOK_AVL
  <2>2. /\ told = "yes" => DOMAIN books' = DOMAIN books
        /\ told = "yes" => \A b \in DOMAIN books :
             /\ books'[b].shelfno = books[b].shelfno
             /\ books[b].shelfno = s => books'[b].cleaned = to
             /\ books[b].shelfno # s => books'[b] = books[b]
    BY <2>1, SetCleanedRows DEF RowsOn
  <2>3. Live(shelves)' = Live(shelves)
    BY <2>1, SMTT(30) DEF Live
  <2>4. ASSUME Knows(c), told = "yes" PROVE Knows(c)'
    <3>1. Empty(s)'
      <4>1. PICK n \in ShelfNo : n = s
        BY <1>1, SMTT(30)
      <4>2. \A b \in DOMAIN books' : books'[b].shelfno = n => books'[b].cleaned # BOOK_AVL
        BY <2>1, <2>2, <2>4, <4>1, ZenonT(30)
      <4>3. Empty(n)'
        BY <4>2, EmptyMeansNext
      <4>4. s' = n
        BY <1>1, <4>1, ZenonT(30)
      <4>. QED
        BY <4>3, <4>4
    <3>2. ASSUME Browsing(listing[c])
          PROVE  (Fresh(c) \/ c \in coming \/ Empty(listing[c].shelf))'
      <4>1. CASE listing[c].shelf = s
        BY <1>1, <3>1, <4>1
      <4>2. CASE listing[c].shelf # s /\ Fresh(c)
        <5>1. IsListing(listing[c], DOMAIN books)
          BY SMTT(30) DEF ClientInv
        <5>2. ASSUME NEW b \in DOMAIN listing[c].rows, listing[c].rows[b].mark = "kept"
              PROVE  books'[b] = Sent(listing[c].rows[b], listing[c].rows[b].info)
          <6>1. b \in DOMAIN books /\ listing[c].rows[b].shelfno = listing[c].shelf
            BY <3>2, <5>1 DEF IsListing, Suits
          <6>2. books[b] = Sent(listing[c].rows[b], listing[c].rows[b].info)
            BY <4>2, <5>2 DEF Fresh
          <6>3. books[b].shelfno = listing[c].shelf
            BY <6>1, <6>2 DEF Sent
          <6>. QED
            BY <2>2, <2>4, <4>2, <6>1, <6>2, <6>3, ZenonT(30)
        <5>3. Fresh(c)'
          BY <1>1, <5>2 DEF Fresh, Sent
        <5>. QED
          BY <5>3
      <4>3. CASE c \in coming
        BY <1>1, <4>3
      <4>4. CASE listing[c].shelf # s /\ Empty(listing[c].shelf)
        <5>1. Empty(listing[c].shelf)'
          BY <1>1, <2>1, <2>2, <2>4, <4>4, ZenonT(30) DEF Empty, BooksIn
        <5>. QED
          BY <5>1, ZenonT(30)
      <4>. QED
        BY <2>4, <3>2, <4>1, <4>2, <4>3, <4>4, ZenonT(30) DEF Knows
    <3>. QED
      BY <1>1, <1>2, <2>3, <2>4, <3>1, <3>2, ZenonT(30) DEF Knows, Browsing
  <2>5. ASSUME told = "yes", Placed PROVE Placed'
    BY <1>4, <2>1, <2>2, <2>3, <2>5 DEF Placed, Housed
  <2>. QED
    BY <1>4, <2>4, <2>5, WriteAlone, ZenonT(30)
<1>. QED
  BY <1>3, <1>4, RemovingEffect, SMTT(30)

LEMMA RemoveAlone ==
  ASSUME Inv, ClientInv, AloneInv, NEW c \in Client, client_shelf_delete_itself(c)
  PROVE  AloneInv'
<1>1. /\ at[c].shelf \in ShelfNo /\ srvdb_shelf_remove(at[c].shelf) /\ page[c] = "removing"
      /\ UNCHANGED <<listing, coming, left>> /\ page' = [page EXCEPT ![c] = "menu"]
      /\ at'[c].shelf = NON_SENSE_INT
  BY AwayType DEF client_shelf_delete_itself, ClientInv
<1>2. UNCHANGED books /\ Live(shelves) \ {at[c].shelf} \subseteq Live(shelves') /\ page'[c] = "menu"
  BY <1>1, RemoveWrites DEF ClientInv
<1>3. PICK told \in Told :
        /\ known' = [known EXCEPT ![c] = IF told = "yes" THEN @ \ {at[c].shelf} ELSE @]
        /\ Wrote(c, told)
  BY ZenonT(30) DEF client_shelf_delete_itself
<1>4. told = "yes" => known'[c] = known[c] \ {at[c].shelf}
  BY <1>3 DEF ClientInv
<1>5. Live(shelves)' = Live(shelves')
  BY DEF Live
<1>6. ASSUME Knows(c), told = "yes" PROVE Knows(c)'
  <2>1. (Fresh(c)' <=> Fresh(c)) /\ \A n : Empty(n)' <=> Empty(n)
    BY <1>1, <1>2 DEF Fresh, Sent, Empty, BooksIn
  <2>. QED
    BY <1>1, <1>2, <1>4, <1>5, <1>6, <2>1, ZenonT(30) DEF Knows, Browsing, Collecting
<1>7. ASSUME Knows(c), Placed PROVE Placed'
  <2>1. Empty(at[c].shelf) \/ at[c].shelf \in left
    BY <1>1, <1>7, Zenon DEF Knows
  <2>2. \A b \in DOMAIN books :
          books[b].cleaned = BOOK_AVL => books[b].shelfno # at[c].shelf \/ at[c].shelf \in left
    BY <1>1, <2>1, EmptyMeans, ZenonT(30)
  <2>3. Housed \ {at[c].shelf} \subseteq Housed' /\ left \subseteq Housed'
    BY <1>1, <1>2, <1>5 DEF Housed
  <2>. QED
    BY <1>2, <1>7, <2>2, <2>3, ZenonT(30) DEF Placed
<1>. QED
  BY <1>3, <1>6, <1>7, WriteAlone, ZenonT(30)

\* After a request about one book that the client knows to have succeeded, its
\* other copies are as they were.
LEMMA HandleAlone ==
  ASSUME ClientInv, AloneInv, NEW c \in Client, NEW b \in DOMAIN listing[c].rows, page[c] = "books",
         UNCHANGED <<shelves, page, known, at, coming, left>>, DOMAIN books' = DOMAIN books,
         \A k \in DOMAIN books : k # b => books'[k] = books[k],
         listing'[c].bcollect = listing[c].bcollect, listing'[c].shelf = listing[c].shelf,
         DOMAIN listing'[c].rows = DOMAIN listing[c].rows,
         \A k \in DOMAIN listing[c].rows : k # b => listing'[c].rows[k] = listing[c].rows[k],
         NEW told \in Told, Wrote(c, told),
         Knows(c) /\ told = "yes" /\ listing'[c].rows[b].mark = "kept" =>
           books'[b] = Sent(listing'[c].rows[b], listing'[c].rows[b].info),
         Knows(c) /\ Placed /\ b \in DOMAIN books /\ books'[b].cleaned = BOOK_AVL =>
           books'[b].shelfno \in Housed
  PROVE  AloneInv'
<1>1. Live(shelves)' = Live(shelves) /\ Housed' = Housed
  BY Zenon DEF Live, Housed
<1>2. ASSUME Knows(c), told = "yes" PROVE Knows(c)'
  <2>1. ASSUME ~Collecting(listing[c]) PROVE Fresh(c)'
    <3>1. Fresh(c)
      BY <1>2, <2>1, ZenonT(30) DEF Knows
    <3>2. DOMAIN listing[c].rows \subseteq DOMAIN books
      BY SMTT(30) DEF ClientInv, IsListing
    <3>3. ASSUME NEW k \in DOMAIN listing'[c].rows, listing'[c].rows[k].mark = "kept"
          PROVE  books'[k] = Sent(listing'[c].rows[k], listing'[c].rows[k].info)
      <4>1. CASE k = b
        BY <1>2, <2>1, <3>3, <4>1, ZenonT(30)
      <4>2. CASE k # b
        BY <3>1, <3>2, <3>3, <4>2, ZenonT(30) DEF Fresh
      <4>. QED
        BY <4>1, <4>2, ZenonT(30)
    <3>. QED
      BY <3>3, ZenonT(30) DEF Fresh, Sent
  <2>2. Browsing(listing[c]) => ~Collecting(listing[c])
    BY DEF Browsing, Collecting
  <2>3. /\ Browsing(listing[c])' <=> Browsing(listing[c])
        /\ Collecting(listing[c])' <=> Collecting(listing[c])
    BY DEF Browsing, Collecting
  <2>. QED
    BY <1>1, <1>2, <2>1, <2>2, <2>3, ZenonT(30) DEF Knows
<1>3. ASSUME Knows(c), Placed PROVE Placed'
  BY <1>1, <1>3, ZenonT(30) DEF Placed
<1>. QED
  BY <1>2, <1>3, WriteAlone, ZenonT(30)

LEMMA RewriteAlone ==
  ASSUME Inv, ClientInv, NeverBoth, AloneInv, NEW c \in Client, NEW b, NEW info, Rewrite(c, b, info)
  PROVE  AloneInv'
<1> DEFINE e == listing[c].rows[b]
           f == [e EXCEPT !.info = info]
           row == Sent(e, info)
<1>1. /\ Shown(c, b) /\ info \in BookInfo /\ listing[c].bcollect = 0 /\ e.mark # "deleted"
      /\ srvdb_book_update(e.shelfno, b, row) /\ Keep(c, b, f)
  BY Zenon DEF Rewrite
<1>2. /\ b \in DOMAIN listing[c].rows /\ b \in BookNo /\ b \in DOMAIN books /\ e \in Copy
      /\ Suits(listing[c], e) /\ e.mark # "collected" /\ page[c] = "books"
  BY <1>1, ShownCopy DEF Shown, Suits
<1>3. /\ row \in BookEntry /\ row.shelfno = e.shelfno /\ row.info = info
      /\ f \in Copy /\ f.info = info /\ f.shelfno = e.shelfno /\ Suits(listing[c], f)
  BY <1>1, <1>2, SentRow, ZenonT(30) DEF Suits
<1>4. Sent(f, f.info) = row
  BY <1>3 DEF Sent
<1>5. e.mark = "kept"
  BY <1>1, <1>2 DEF Copy
<1>6. Knows(c) => books[b] = Sent(e, e.info)
  <2>1. ~Collecting(listing[c])
    BY <1>1 DEF Collecting
  <2>. QED
    BY <1>2, <1>5, <2>1, ZenonT(30) DEF Knows, Fresh
<1>7. Knows(c) /\ Placed => e.shelfno \in Housed
  BY <1>2, <1>6 DEF Placed, Sent
<1> HIDE DEF e, f, row
<1>8. /\ UNCHANGED shelves /\ DOMAIN books' = DOMAIN books
      /\ \A k \in DOMAIN books : k # b => books'[k] = books[k]
      /\ books'[b] \in {books[b], row}
      /\ reply'.response = "r_success" => books'[b] = row
  BY <1>1, <1>2, <1>3, UpdateWrites, ZenonT(30)
<1>9. /\ listing'[c].bcollect = listing[c].bcollect /\ listing'[c].shelf = listing[c].shelf
      /\ DOMAIN listing'[c].rows = DOMAIN listing[c].rows
      /\ \A k \in DOMAIN listing[c].rows : k # b => listing'[c].rows[k] = listing[c].rows[k]
      /\ UNCHANGED <<page, known, at, coming, left>>
      /\ \E told \in Told : Wrote(c, told) /\ (told = "yes" => listing'[c].rows[b] = f)
  BY <1>1, <1>2, <1>3, <1>8, KeepEffect, SMTT(30)
<1>10. PICK told \in Told : Wrote(c, told) /\ (told = "yes" => listing'[c].rows[b] = f)
  BY <1>9, ZenonT(30)
<1>11. told = "yes" => books'[b] = Sent(listing'[c].rows[b], listing'[c].rows[b].info)
  BY <1>4, <1>8, <1>10, WroteAlone, ZenonT(30)
<1>12. Knows(c) /\ Placed /\ books'[b].cleaned = BOOK_AVL => books'[b].shelfno \in Housed
  BY <1>2, <1>3, <1>7, <1>8, ZenonT(30) DEF Placed
<1>. QED
  BY <1>2, <1>8, <1>9, <1>10, <1>11, <1>12, HandleAlone, Zenon

LEMMA DeleteAlone ==
  ASSUME Inv, ClientInv, NeverBoth, AloneInv, NEW c \in Client, NEW b, client_shelf_delete_book(c, b)
  PROVE  AloneInv'
<1> DEFINE e == listing[c].rows[b]
           f == [e EXCEPT !.mark = "deleted"]
<1>1. Shown(c, b) /\ srvdb_book_delete(NON_SENSE_INT, b) /\ Keep(c, b, f)
  BY Zenon DEF client_shelf_delete_book
<1>2. /\ b \in DOMAIN listing[c].rows /\ b \in BookNo /\ b \in DOMAIN books /\ e \in Copy
      /\ Suits(listing[c], e) /\ page[c] = "books"
  BY <1>1, ShownCopy DEF Shown
<1>3. f \in Copy /\ f.mark = "deleted" /\ Suits(listing[c], f)
  BY <1>2, MarkedCopy, ZenonT(30) DEF Suits
<1> HIDE DEF e, f
<1>4. /\ UNCHANGED shelves /\ DOMAIN books' = DOMAIN books
      /\ \A k \in DOMAIN books : k # b => books'[k] = books[k]
      /\ books'[b] = books[b] \/ books'[b].cleaned = BOOK_DEL
  BY <1>1, <1>2, DeleteWrites, ZenonT(30)
<1>5. /\ listing'[c].bcollect = listing[c].bcollect /\ listing'[c].shelf = listing[c].shelf
      /\ DOMAIN listing'[c].rows = DOMAIN listing[c].rows
      /\ \A k \in DOMAIN listing[c].rows : k # b => listing'[c].rows[k] = listing[c].rows[k]
      /\ UNCHANGED <<page, known, at, coming, left>>
      /\ \E told \in Told : Wrote(c, told) /\ (told = "yes" => listing'[c].rows[b] = f)
  BY <1>1, <1>2, <1>3, <1>4, KeepEffect, SMTT(30)
<1>6. PICK told \in Told : Wrote(c, told) /\ (told = "yes" => listing'[c].rows[b] = f)
  BY <1>5, Zenon
<1>7. Placed /\ books'[b].cleaned = BOOK_AVL => books'[b].shelfno \in Housed
  BY <1>2, <1>4, SMTT(30) DEF Placed, BOOK_DEL, BOOK_AVL
<1>. QED
  BY <1>2, <1>3, <1>4, <1>5, <1>6, <1>7, HandleAlone, Zenon

LEMMA CollectAlone ==
  ASSUME Inv, ClientInv, NeverBoth, AloneInv, NEW c \in Client, NEW b, client_shelf_collecting_book(c, b)
  PROVE  AloneInv'
<1> DEFINE e == listing[c].rows[b]
           f == [e EXCEPT !.mark = "collected"]
           row == [cleaned |-> BOOK_AVL, shelfno |-> listing[c].shelf, info |-> e.info]
<1>1. /\ Shown(c, b) /\ listing[c].bcollect = 1
      /\ srvdb_book_update(listing[c].shelf, b, row) /\ Keep(c, b, f)
  BY Zenon DEF client_shelf_collecting_book
<1>2. /\ b \in DOMAIN listing[c].rows /\ b \in BookNo /\ b \in DOMAIN books /\ e \in Copy
      /\ listing[c].shelf \in 0..MAX_SHELF_NUM /\ e.info \in BookInfo /\ page[c] = "books"
  BY <1>1, ShownCopy DEF Shown
<1>3. f \in Copy /\ f.mark = "collected"
  BY <1>2, MarkedCopy, ZenonT(30)
<1>4. row \in BookEntry /\ row.shelfno = listing[c].shelf
  BY <1>2, Zenon DEF BookEntry, BookRow, BOOK_AVL
<1> HIDE DEF e, f, row
<1>5. /\ UNCHANGED shelves /\ DOMAIN books' = DOMAIN books
      /\ \A k \in DOMAIN books : k # b => books'[k] = books[k]
      /\ books'[b] \in {books[b], row}
  BY <1>1, <1>2, <1>4, UpdateWrites, ZenonT(30)
<1>6. /\ listing'[c].bcollect = listing[c].bcollect /\ listing'[c].shelf = listing[c].shelf
      /\ DOMAIN listing'[c].rows = DOMAIN listing[c].rows
      /\ \A k \in DOMAIN listing[c].rows : k # b => listing'[c].rows[k] = listing[c].rows[k]
      /\ UNCHANGED <<page, known, at, coming, left>>
      /\ \E told \in Told : Wrote(c, told) /\ (told = "yes" => listing'[c].rows[b] = f)
  <2>1. Suits(listing[c], f)
    BY <1>1 DEF Suits, Browsing
  <2>. QED
    BY <1>1, <1>2, <1>3, <1>5, <2>1, KeepEffect, SMTT(30)
<1>7. PICK told \in Told : Wrote(c, told) /\ (told = "yes" => listing'[c].rows[b] = f)
  BY <1>6, Zenon
<1>8. Knows(c) /\ Placed /\ books'[b].cleaned = BOOK_AVL => books'[b].shelfno \in Housed
  BY <1>2, <1>4, <1>5, Zenon DEF Placed, Housed, Knows
<1>. QED
  BY <1>2, <1>3, <1>5, <1>6, <1>7, <1>8, HandleAlone, Zenon

LEMMA RestAlone ==
  ASSUME Inv, ClientInv, AloneInv,
         \/ \E c \in Client : Leave(c) \/ Restart(c)
         \/ MySqlTimeout /\ UNCHANGED <<clients, history>>
  PROVE  AloneInv'
<1>1. ASSUME NEW c \in Client, Leave(c) PROVE AloneInv'
  <2>1. /\ UNCHANGED <<books, shelves, known, at, listing, coming, writer, alone, left>>
        /\ page'[c] = "menu" /\ \A d \in Client : d # c => page'[d] = page[d]
    BY <1>1 DEF Leave, tables, ClientInv, history
  <2>2. OthersKept(c)
    BY <2>1, ZenonT(30) DEF OthersKept
  <2>3. ASSUME Knows(c) PROVE Knows(c)'
    <3>1. (Fresh(c)' <=> Fresh(c)) /\ (\A n : Empty(n)' <=> Empty(n)) /\ Live(shelves)' = Live(shelves)
      BY <2>1, ZenonT(30) DEF Fresh, Sent, Empty, BooksIn, Live
    <3>2. at[c].shelf = NON_SENSE_INT
      BY <1>1, <2>3 DEF Leave, Knows
    <3>. QED
      BY <2>1, <2>3, <3>1, <3>2, ZenonT(30) DEF Knows, Browsing
  <2>. QED
    BY <2>1, <2>2, <2>3, QuietAlone, ZenonT(30)
<1>2. ASSUME NEW c \in Client, Restart(c) PROVE AloneInv'
  <2>1. /\ UNCHANGED <<books, shelves, page, writer, alone, left>> /\ Away(c) /\ page[c] = "menu"
        /\ known' = [known EXCEPT ![c] = Live(shelves)] /\ listing' = [listing EXCEPT ![c] = NoListing]
        /\ coming' = coming \ {c}
    BY <1>2, LookupReads DEF Restart, history
  <2>2. /\ known'[c] = Live(shelves) /\ listing'[c] = NoListing /\ at'[c].shelf = NON_SENSE_INT
        /\ \A d \in Client :
             d # c => known'[d] = known[d] /\ listing'[d] = listing[d] /\ at'[d] = at[d]
    BY <2>1, AwayType DEF ClientInv
  <2>3. OthersKept(c)
    BY <2>1, <2>2 DEF OthersKept
  <2>4. ~Browsing(NoListing) /\ Live(shelves)' = Live(shelves)
    BY <2>1, SMTT(30) DEF NoListing, Live, Browsing
  <2>5. Knows(c)'
    BY <2>1, <2>2, <2>4, Zenon DEF Knows
  <2>. QED
    BY <2>1, <2>3, <2>5, QuietAlone, ZenonT(30)
<1>3. CASE MySqlTimeout /\ UNCHANGED <<clients, history>>
  <2>1. UNCHANGED <<books, shelves, page, known, at, listing, coming, writer, alone, left>>
    BY <1>3, SMTT(30) DEF MySqlTimeout, clients, history
  <2>2. ASSUME NEW d \in Client, Knows(d) PROVE Knows(d)'
    BY <2>1, <2>2, KnowsKept, ZenonT(30)
  <2>3. Placed => Placed'
    BY <2>1, Zenon DEF Placed, Housed, Live
  <2>. QED
    BY <2>1, <2>2, <2>3 DEF AloneInv
<1>. QED
  BY <1>1, <1>2, <1>3, ZenonT(30)

-----------------------------------------------------------------------------
LEMMA AloneInit == LibInit => AloneInv
<1> SUFFICES ASSUME LibInit PROVE AloneInv
  OBVIOUS
<1>1. books = <<>> /\ DOMAIN books = {}
  BY DEF LibInit, Init
<1>2. ~Browsing(NoListing)
  BY DEF NoListing, Browsing
<1>3. \A c \in Client : Knows(c)
  BY <1>2 DEF LibInit, Knows
<1>4. Placed /\ writer = NoClient
  BY <1>1 DEF LibInit, Placed
<1>. QED
  BY <1>3, <1>4 DEF AloneInv

LEMMA AloneStep == SharedInv /\ AloneInv /\ [LibNext]_libvars => AloneInv'
<1> SUFFICES ASSUME SharedInv, AloneInv, [LibNext]_libvars PROVE AloneInv'
  OBVIOUS
<1>1. Inv /\ ClientInv /\ NeverBoth
  BY DEF SharedInv
<1>2. CASE UNCHANGED libvars
  <2>1. UNCHANGED vars /\ UNCHANGED <<page, known, at, listing, coming, writer, alone, left>>
    BY <1>2 DEF libvars, tables, clients, history, vars
  <2>2. ASSUME NEW d \in Client, Knows(d) PROVE Knows(d)'
    BY <2>1, <2>2, KnowsKept DEF vars
  <2>3. Placed => Placed'
    BY <2>1 DEF Placed, Housed, Live, vars
  <2>. QED
    BY <2>1, <2>2, <2>3 DEF AloneInv
<1>3. CASE LibNext
  <2>1. ASSUME NEW c \in Client, Shelve(c) PROVE AloneInv'
    BY <1>1, <2>1, PointAlone, BuildAlone, InsertAlone, DisplayAlone, SearchPageAlone, SearchAlone,
       RemovingAlone, RemoveAlone, ZenonT(30) DEF Shelve
  <2>2. ASSUME NEW c \in Client, Handle(c) PROVE AloneInv'
    BY ZenonT(30), <1>1, <2>2, MovingRewrites, TaggingRewrites, RewriteAlone, DeleteAlone, CollectAlone,
       RestAlone DEF Handle
  <2>3. ASSUME MySqlTimeout /\ UNCHANGED <<clients, history>> PROVE AloneInv'
    BY <1>1, <2>3, RestAlone
  <2>. QED
    BY <1>3, <2>1, <2>2, <2>3 DEF LibNext
<1>. QED
  BY <1>2, <1>3

\* LibInv is inductive.
LEMMA LibAlways == LibSpec => []LibInv
<1>1. LibInit => LibInv
  BY SharedInit, AloneInit DEF LibInv
<1>2. LibInv /\ [LibNext]_libvars => LibInv'
  BY SharedStep, AloneStep DEF LibInv
<1>. QED
  BY <1>1, <1>2, PTL DEF LibSpec

\* The number of books on a shelf that the client computes is not negative
\* (srvdb_book_count).
THEOREM CountsAddUpAlways == LibSpec => []CountsAddUp
<1>1. LibInv => CountsAddUp
  BY CountsHold, ZenonT(30) DEF LibInv, SharedInv
<1>. QED
  BY <1>1, LibAlways, PTL

\* A client that works alone and gets its answers shows the books of a shelf or of
\* a search as the server has them, however often it shows old copies again
\* (display_bookinfo_page).
THEOREM AloneUpToDateAlways == LibSpec => []AloneUpToDate
<1>1. LibInv => AloneUpToDate
  BY DEF LibInv, AloneInv, Knows, Fresh, AloneUpToDate
<1>. QED
  BY <1>1, LibAlways, PTL

\* A client that works alone and gets its answers leaves a book on a shelf that
\* does not exist only when its user left the question about the books of the
\* shelf, or collected the book out of a search (delete_shelf_page,
\* client_shelf_collecting_book).
THEOREM AloneNoOrphansAlways == LibSpec => []AloneNoOrphans
<1>1. LibInv => AloneNoOrphans
  BY DEF LibInv, AloneInv, AloneNoOrphans, Placed, Housed
<1>. QED
  BY <1>1, LibAlways, PTL
=============================================================================
