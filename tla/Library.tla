------------------------------- MODULE Library -------------------------------
(***************************************************************************)
(* The clients of one user at work on the user's books and shelves.  A     *)
(* client keeps copies of the books it lists and of the numbers of the     *)
(* shelves; everything it writes about a book is written from its copy,    *)
(* the whole row at a time.  The server (SrvDb) executes one request after *)
(* the other, so a client's request is one action; between the requests of *)
(* one client, those of others are executed.                               *)
(*                                                                         *)
(* BookPages has the pages of a listing, this module their contents: a     *)
(* listing is a set of copies, with the rule that decides whether opening  *)
(* it again shows the old copies.                                          *)
(***************************************************************************)
EXTENDS SrvDb, FiniteSets

CONSTANTS
  Client,          \* the running clients of the user
  NoClient,
  Label,           \* what a tag may say
  Lossy            \* whether a client may miss the answer to its request

ASSUME LibraryAssumption ==
  /\ NoClient \notin Client
  /\ BookInfo = [on_reading : {"0", "1"}, borrowed : {"0", "1"}, label : Label]
  /\ Lossy \in BOOLEAN

VARIABLES
  page,        \* what a client shows: "menu" (the shelves), "books" (a listing),
               \* "searching", or "removing" (a shelf is being taken down)
  known,       \* the shelves in a client's copy
  at,          \* the shelf under a client's slider, and whether it had books
               \* when they were counted
  listing,     \* a client's copies of books and what they are a listing of: the
               \* statics local_shelfno and bcollect of display_bookinfo_page
  coming,      \* the clients with global_new_book_coming set
  writer, alone,  \* history: the client that wrote last, and whether it is the
                  \* only one that ever wrote and got all its answers
  left            \* history: the shelves taken down by a user who left the question
                  \* what is to become of their books

tables == <<books, shelves, conn, reply>>
clients == <<page, known, at, listing, coming>>
history == <<writer, alone, left>>
libvars == <<tables, clients, history>>

Copy == [shelfno : 0..MAX_SHELF_NUM, info : BookInfo, mark : {"kept", "deleted", "collected"}]
NoListing == [shelf |-> NON_SENSE_INT, bcollect |-> 0, rows |-> <<>>]

\* A listing is of the books of a shelf, of the unsorted books to collect onto
\* one, or, without a shelf, of what a search found; a search leaves bcollect
\* as it was.
Browsing(l) == l.shelf # NON_SENSE_INT /\ l.bcollect = 0
Collecting(l) == l.shelf # NON_SENSE_INT /\ l.bcollect = 1

-----------------------------------------------------------------------------
(* What the server finds and counts.                                       *)

\* The books on a shelf, or on any shelf, whose column cleaned is as given.
BooksIn(cleaned, shelfno) ==
  {b \in DOMAIN books :
     /\ books[b].cleaned = cleaned
     /\ IF shelfno = NON_SENSE_INT THEN books[b].shelfno > NON_SENSE_INT
        ELSE books[b].shelfno = shelfno}

\* Variant: books that are not on a shelf are counted as being read.
srvdb_book_count_Unsorted(s) ==
  [books_on_reading |-> Cardinality({b \in BooksIn(BOOK_AVL, s) \cup BooksIn(BOOK_UNSORTED, s) :
                                       books[b].info.on_reading = "1"}),
   books_borrowed |-> Cardinality({b \in BooksIn(BOOK_AVL, s) : books[b].info.borrowed = "1"}),
   books_unsorted |-> Cardinality(BooksIn(BOOK_UNSORTED, s)),
   books_all |-> Cardinality(BooksIn(BOOK_AVL, s)) + Cardinality(BooksIn(BOOK_UNSORTED, s))]

srvdb_book_count(s) ==
  [books_on_reading |-> Cardinality({b \in BooksIn(BOOK_AVL, s) : books[b].info.on_reading = "1"}),
   books_borrowed |-> Cardinality({b \in BooksIn(BOOK_AVL, s) : books[b].info.borrowed = "1"}),
   books_unsorted |-> Cardinality(BooksIn(BOOK_UNSORTED, s)),
   books_all |-> Cardinality(BooksIn(BOOK_AVL, s)) + Cardinality(BooksIn(BOOK_UNSORTED, s))]

\* Variant: a single book does not count.
HasBooks_Several(s) == srvdb_book_count(s).books_all - srvdb_book_count(s).books_unsorted > 1
HasBooks(s) == srvdb_book_count(s).books_all - srvdb_book_count(s).books_unsorted > 0

CopyOf(b) == [shelfno |-> books[b].shelfno, info |-> books[b].info, mark |-> "kept"]

\* The copies a listing begins with: the books on the shelf, or for collecting
\* all unsorted ones.
Fetch(collect, shelf) ==
  [b \in IF collect = 1 THEN BooksIn(BOOK_UNSORTED, NON_SENSE_INT)
                        ELSE BooksIn(BOOK_AVL, shelf) |-> CopyOf(b)]

\* Whether the client learns that its request succeeded.
Told == {t \in {"yes", "no"} : IF reply'.response = "r_success" THEN t = "yes" \/ Lossy ELSE t = "no"}

\* The history after a request of client c that writes.
Wrote(c, told) ==
  /\ writer' = c
  /\ alone' = (alone /\ writer \in {c, NoClient} /\ told = "yes")

-----------------------------------------------------------------------------
(* The page of shelves.                                                    *)

\* The slider comes to a shelf, and its books are counted.
Point(c, s) ==
  /\ page[c] = "menu" /\ s \in known[c]
  /\ Lookup
  /\ at' = [at EXCEPT ![c] = IF reply'.response = "r_success"
                             THEN [shelf |-> s, some |-> IF HasBooks(s) THEN "yes" ELSE "no"]
                             ELSE [shelf |-> NON_SENSE_INT, some |-> "no"]]
  /\ UNCHANGED <<page, known, listing, coming, history>>

\* On the way back to this page the books are counted again.
Away(c) == at' = [at EXCEPT ![c] = [shelf |-> NON_SENSE_INT, some |-> "no"]]

client_build_shelf(c, row) ==
  /\ page[c] = "menu"
  /\ srvdb_shelf_build(row)
  /\ \E told \in Told :
       /\ known' = [known EXCEPT ![c] = IF told = "yes" THEN @ \cup {reply'.no} ELSE @]
       /\ Wrote(c, told)
  /\ left' = IF reply'.response = "r_success" THEN left \ {reply'.no} ELSE left
  /\ Away(c)
  /\ UNCHANGED <<page, listing, coming>>

client_shelf_insert_book(c, info) ==
  /\ page[c] = "menu" /\ at[c].shelf # NON_SENSE_INT
  /\ info.on_reading = "0" /\ info.borrowed = "0"
  /\ srvdb_book_insert([cleaned |-> BOOK_AVL, shelfno |-> at[c].shelf, info |-> info])
  /\ \E told \in Told :
       /\ coming' = IF told = "yes" THEN coming \cup {c} ELSE coming
       /\ Wrote(c, told)
  /\ Away(c)
  /\ UNCHANGED <<page, known, listing, left>>

Stale(c, collect, shelf) ==
  listing[c].shelf # shelf \/ listing[c].bcollect # collect \/ c \in coming

\* A listing that has copies is shown; one without takes the client back.
Show(c, l) ==
  /\ listing' = [listing EXCEPT ![c] = l]
  /\ page' = [page EXCEPT ![c] = IF l.rows # <<>> THEN "books" ELSE "menu"]

\* A shelf without books is not opened; the copies of the listing shown last
\* are shown again unless something else is opened or a book was added.
display_bookinfo_page(c, collect) ==
  LET shelf == at[c].shelf
  IN  /\ page[c] = "menu" /\ shelf # NON_SENSE_INT
      /\ collect = 0 => at[c].some = "yes"
      /\ IF Stale(c, collect, shelf) \/ listing[c].rows = <<>>
         THEN /\ Lookup
              /\ Show(c, [shelf |-> shelf, bcollect |-> collect,
                          rows |-> IF reply'.response = "r_success" THEN Fetch(collect, shelf)
                                   ELSE <<>>])
         ELSE Show(c, listing[c]) /\ UNCHANGED tables
      /\ coming' = coming \ {c}
      /\ Away(c)
      /\ UNCHANGED <<known, history>>

\* A search begins with a request for the number of books it finds, whose answer
\* is only shown.
ncgui_display_searchbook_page(c) ==
  /\ page[c] = "menu"
  /\ Lookup
  /\ page' = [page EXCEPT ![c] = "searching"]
  /\ Away(c)
  /\ UNCHANGED <<known, listing, coming, history>>

\* The results are any of the books on one shelf or on all; every search begins
\* a new listing.
client_searching_book(c, shelf) ==
  /\ page[c] = "searching" /\ shelf \in known[c] \cup {NON_SENSE_INT}
  /\ Lookup
  /\ \E found \in SUBSET BooksIn(BOOK_AVL, shelf) :
       Show(c, [shelf |-> NON_SENSE_INT, bcollect |-> listing[c].bcollect,
                rows |-> IF reply'.response = "r_success" THEN [b \in found |-> CopyOf(b)]
                         ELSE <<>>])
  /\ UNCHANGED <<known, at, coming, history>>

\* What to do about the books of the shelf is asked only when there were some
\* when they were counted; leaving the question does not leave the removal, and
\* neither does a request that fails.
delete_shelf_page(c) ==
  /\ page[c] = "menu" /\ at[c].shelf # NON_SENSE_INT
  /\ page' = [page EXCEPT ![c] = "removing"]
  /\ \/ /\ left' = IF at[c].some = "yes" THEN left \cup {at[c].shelf} ELSE left
        /\ UNCHANGED <<tables, writer, alone>>
     \/ /\ at[c].some = "yes"
        /\ \/ \E info \in BookInfo :
                srvdb_book_update(at[c].shelf, NON_SENSE_INT,
                                  [cleaned |-> BOOK_AVL, shelfno |-> at[c].shelf, info |-> info])
           \/ srvdb_book_delete(at[c].shelf, NON_SENSE_INT)
        /\ \E told \in Told : Wrote(c, told)
        /\ UNCHANGED left
  /\ UNCHANGED <<known, at, listing, coming>>

client_shelf_delete_itself(c) ==
  /\ page[c] = "removing"
  /\ srvdb_shelf_remove(at[c].shelf)
  /\ \E told \in Told :
       /\ known' = [known EXCEPT ![c] = IF told = "yes" THEN @ \ {at[c].shelf} ELSE @]
       /\ Wrote(c, told)
  /\ page' = [page EXCEPT ![c] = "menu"]
  /\ Away(c)
  /\ UNCHANGED <<listing, coming, left>>
-----------------------------------------------------------------------------
(* The page of books: b is the book under the slider.                      *)

Shown(c, b) == page[c] = "books" /\ b \in DOMAIN listing[c].rows
Out(info) == info.on_reading = "1" \/ info.borrowed = "1"

\* Variant: the copy is not rewritten.
Keep_Forgotten(c, b, e) ==
  /\ \E told \in Told : Wrote(c, told)
  /\ UNCHANGED <<page, known, at, listing, coming, left>>

\* Keep e as the client's copy of book b if the client learns of the success.
Keep(c, b, e) ==
  /\ \E told \in Told :
       /\ listing' = [listing EXCEPT ![c].rows[b] = IF told = "yes" THEN e ELSE @]
       /\ Wrote(c, told)
  /\ UNCHANGED <<page, known, at, coming, left>>

\* The row that is sent: the copy with other information.
Sent(e, info) == [cleaned |-> BOOK_AVL, shelfno |-> e.shelfno, info |-> info]

\* What moving a book makes of its two flags: action 0 is to read it, action 1
\* to give it back if it is out and else to lend it.
\* Variant: a book that was borrowed is not given back but marked as read too.
Moved_Both(info, action) ==
  IF action = 0 THEN [info EXCEPT !.on_reading = "1"]
  ELSE IF info.on_reading = "1" THEN [info EXCEPT !.on_reading = "0"]
  ELSE [info EXCEPT !.borrowed = "1", !.on_reading = info.borrowed]
Moved(info, action) ==
  IF action = 0 THEN [info EXCEPT !.on_reading = "1"]
  ELSE IF info.on_reading = "1" THEN [info EXCEPT !.on_reading = "0"]
  ELSE IF info.borrowed = "1" THEN [info EXCEPT !.borrowed = "0"]
  ELSE [info EXCEPT !.borrowed = "1"]

\* The box of options offers to read or to lend only a book that is not out.
client_shelf_moving_book(c, b, action) ==
  LET e == listing[c].rows[b]
  IN  /\ Shown(c, b) /\ listing[c].bcollect = 0 /\ e.mark # "deleted"
      /\ action = 0 => ~Out(e.info)
      /\ srvdb_book_update(e.shelfno, b, Sent(e, Moved(e.info, action)))
      /\ Keep(c, b, [e EXCEPT !.info = Moved(e.info, action)])

client_shelf_tagging_book(c, b, l) ==
  LET e == listing[c].rows[b]
      tagged == [e.info EXCEPT !.label = l]
  IN  /\ Shown(c, b) /\ listing[c].bcollect = 0 /\ e.mark # "deleted"
      /\ srvdb_book_update(e.shelfno, b, Sent(e, tagged))
      /\ Keep(c, b, [e EXCEPT !.info = tagged])

client_shelf_delete_book(c, b) ==
  LET e == listing[c].rows[b]
  IN  /\ Shown(c, b) /\ listing[c].bcollect = 0 /\ e.mark # "deleted"
      /\ srvdb_book_delete(NON_SENSE_INT, b)
      /\ Keep(c, b, [e EXCEPT !.mark = "deleted"])

\* The book goes to the shelf of the listing, which the results of a search do
\* not have: a search that follows the collecting of books offers to collect
\* what it finds.
client_shelf_collecting_book(c, b) ==
  LET e == listing[c].rows[b]
  IN  /\ Shown(c, b) /\ listing[c].bcollect = 1 /\ e.mark # "collected"
      /\ srvdb_book_update(listing[c].shelf, b,
            [cleaned |-> BOOK_AVL, shelfno |-> listing[c].shelf, info |-> e.info])
      /\ Keep(c, b, [e EXCEPT !.mark = "collected"])

Leave(c) ==
  /\ page[c] = "books"
  /\ page' = [page EXCEPT ![c] = "menu"]
  /\ UNCHANGED <<tables, known, at, listing, coming, history>>

\* The client ends, and a new one synchronises its copy of the shelves.
Restart(c) ==
  /\ page[c] = "menu"
  /\ Lookup
  /\ reply'.response = "r_success"
  /\ known' = [known EXCEPT ![c] = Live(shelves)]
  /\ listing' = [listing EXCEPT ![c] = NoListing]
  /\ coming' = coming \ {c}
  /\ Away(c)
  /\ UNCHANGED <<page, history>>

-----------------------------------------------------------------------------
LibInit ==
  /\ Init
  /\ page = [c \in Client |-> "menu"]
  /\ known = [c \in Client |-> {}]
  /\ at = [c \in Client |-> [shelf |-> NON_SENSE_INT, some |-> "no"]]
  /\ listing = [c \in Client |-> NoListing]
  /\ coming = {}
  /\ writer = NoClient /\ alone = TRUE /\ left = {}

Shelve(c) ==
  \/ \E s \in ShelfNo : Point(c, s)
  \/ \E row \in ShelfEntry : client_build_shelf(c, row)
  \/ \E info \in BookInfo : client_shelf_insert_book(c, info)
  \/ \E collect \in 0..1 : display_bookinfo_page(c, collect)
  \/ ncgui_display_searchbook_page(c)
  \/ \E s \in ShelfNo \cup {NON_SENSE_INT} : client_searching_book(c, s)
  \/ delete_shelf_page(c) \/ client_shelf_delete_itself(c)

Handle(c) ==
  \/ \E b \in BookNo, action \in 0..1 : client_shelf_moving_book(c, b, action)
  \/ \E b \in BookNo, l \in Label : client_shelf_tagging_book(c, b, l)
  \/ \E b \in BookNo : client_shelf_delete_book(c, b) \/ client_shelf_collecting_book(c, b)
  \/ Leave(c) \/ Restart(c)

LibNext ==
  \/ \E c \in Client : Shelve(c) \/ Handle(c)
  \/ MySqlTimeout /\ UNCHANGED <<clients, history>>

LibSpec == LibInit /\ [][LibNext]_libvars

-----------------------------------------------------------------------------
\* No book is both being read and lent, in the server's table or in a client's
\* copy, although clients write whole rows from copies that may be out of date
\* (client_shelf_moving_book, srvdb_book_update).
NeverBoth ==
  /\ \A b \in DOMAIN books : ~(books[b].info.on_reading = "1" /\ books[b].info.borrowed = "1")
  /\ \A c \in Client : \A b \in DOMAIN listing[c].rows :
       LET info == listing[c].rows[b].info
       IN  ~(info.on_reading = "1" /\ info.borrowed = "1")

\* The number of books on the shelf that the client computes from the four
\* counts ("在架: %d") is not negative.
CountsAddUp ==
  \A s \in 0..MAX_SHELF_NUM :
    LET bc == srvdb_book_count(s)
    IN  bc.books_on_reading + bc.books_borrowed <= bc.books_all - bc.books_unsorted

\* As long as one client works alone and gets its answers, the books of a shelf
\* or of a search that it shows are as the server has them, even when it shows
\* old copies again.  (The unsorted books it shows again need not be: taking
\* down a shelf deletes those that were on it before.)
AloneUpToDate ==
  \A c \in Client : alone /\ c = writer /\ page[c] = "books" /\ ~Collecting(listing[c]) =>
    \A b \in DOMAIN listing[c].rows :
      LET e == listing[c].rows[b]
      IN  e.mark = "kept" => books[b] = Sent(e, e.info)

\* Whatever the clients' pages do, the server's tables change only as one request
\* after the other changes them: the composition implements the server's own
\* specification, and inherits what holds of it (socket_srv_process_request).
ServedByTables == Init /\ [][Next]_vars

\* The books of a shelf that is taken down are reset with it ("重置图书"): a book on
\* a shelf is on a shelf that exists.
NoOrphans ==
  \A b \in DOMAIN books : books[b].cleaned = BOOK_AVL => books[b].shelfno \in Live(shelves)

\* As long as one client works alone and gets its answers, a book is on a shelf
\* that does not exist in two cases only: the user left the question what is to
\* become of the books of the shelf (delete_shelf_page), or collected the book
\* out of the results of a search and so put it on shelf 0 (display_bookinfo_page).
AloneNoOrphans ==
  alone => \A b \in DOMAIN books : books[b].cleaned = BOOK_AVL =>
             books[b].shelfno \in Live(shelves) \cup left \cup {NON_SENSE_INT}
=============================================================================
