----------------------------- MODULE BookPages ------------------------------
(***************************************************************************)
(* The pages of books a client shows: the books of a shelf, the unsorted   *)
(* books that can be collected, and the results of a search                *)
(* (display_bookinfo_page and next_page_bookinfo in ncgui.c).  The books   *)
(* come from the server DEFAULT_FINDS at a time and are kept in a dbm file *)
(* under consecutive positions (clidb.c).  The page on the screen, the     *)
(* position in the file and the last number asked for are kept separately: *)
(* static variables that outlive the page, and that are reset only when    *)
(* the page is opened for something else.                                  *)
(*                                                                         *)
(* The user points at a title on the screen, and the client looks up what  *)
(* it acts on in the file, at the position it computes from the number of  *)
(* the page and the row.  The server appears as the state of its books;    *)
(* another client may change them at any time.                             *)
(***************************************************************************)
EXTENDS Clisrv, Sequences

CONSTANTS
  DEFAULT_FINDS,     \* books in one answer, and rows of a page (PAD_HIGHT)
  PAD_BOXED_HIGHT,   \* rows of a page that the screen shows at a time
  MaxCache,          \* bound: entries a listing may have
  Faults,            \* whether requests fail
  Others             \* the numbers of the books another client changes

ASSUME PagesAssumption ==
  /\ DEFAULT_FINDS \in Nat \ {0} /\ PAD_BOXED_HIGHT \in Nat \ {0}
  /\ MaxCache \in Nat
  /\ Faults \in BOOLEAN /\ Others \subseteq 1..MAX_BOOK_NUM

VARIABLES
  books,                   \* the server's rows: cleaned and shelfno
  cache,                   \* the dbm file and the positions in it
  local_shelfno, local_bookno, book_page_cnt, bcollect,
  no_next_page_flag,       \* static variables of display_bookinfo_page
  global_new_book_coming,
  screen,                  \* the page shown, or Closed
  query, steady,           \* history: what the listing is of, and the books it
                           \* could have shown ever since it began
  aligned                  \* history: no request of the listing failed half-way,
                           \* and no book joined it behind a page not full

statics == <<local_shelfno, local_bookno, book_page_cnt, bcollect,
             no_next_page_flag>>
vars == <<books, cache, statics, global_new_book_coming, screen,
          query, steady, aligned>>

PAD_HIGHT == DEFAULT_FINDS
ShelfNo == 1..MAX_SHELF_NUM
BookNo == 1..MAX_BOOK_NUM

Row == [cleaned : {BOOK_AVL, BOOK_DEL, BOOK_UNSORTED}, shelfno : 0..MAX_SHELF_NUM]

\* A copy of a book in the file; the first and the twelfth character of
\* encoding_time are overwritten when it is deleted or collected.
Entry == [code : BookNo, shelfno : 0..MAX_SHELF_NUM, mark : {"kept", "deleted", "collected"}]

\* What the server is asked for: unsorted books or books on shelves, of one
\* shelf or (NON_SENSE_INT) of all.
Query == [cleaned : {BOOK_AVL, BOOK_UNSORTED}, shelfno : 0..MAX_SHELF_NUM]

Closed == [mode |-> "closed"]

-----------------------------------------------------------------------------
(* The cache of books (clidb.c).                                           *)

clidb_book_reset(c) == [c EXCEPT !.dbm_pos = 0, !.search_pos = 0]

StoreAt(c, pos, e) ==
  [c EXCEPT !.file = [k \in DOMAIN c.file \cup {pos} |-> IF k = pos THEN e ELSE c.file[k]]]

\* clidb_book_insert with position -1, for each of a sequence of books: what
\* lies behind the new end stays in the file.
InsertAll(c, es) ==
  [c EXCEPT !.file = [k \in DOMAIN c.file \cup (c.dbm_pos .. c.dbm_pos + Len(es) - 1) |->
                        IF k >= c.dbm_pos /\ k < c.dbm_pos + Len(es)
                        THEN es[k - c.dbm_pos + 1] ELSE c.file[k]],
            !.dbm_pos = @ + Len(es)]

\* Back to the start of the page that ends at the position.
clidb_book_backward_mode(c) ==
  LET pos == c.search_pos
      factor == IF pos > 0 /\ pos % PAD_HIGHT = 0
                THEN pos \div PAD_HIGHT - 1 ELSE pos \div PAD_HIGHT
  IN  [c EXCEPT !.search_pos = factor * PAD_HIGHT]

\* The books clidb_book_get returns until it answers -1: at most a page, and
\* none behind the end.
PageLength(c) ==
  IF c.search_pos >= c.dbm_pos THEN 0
  ELSE IF c.dbm_pos - c.search_pos > PAD_HIGHT THEN PAD_HIGHT
  ELSE c.dbm_pos - c.search_pos
PageRows(c) == [i \in 1..PageLength(c) |-> c.file[c.search_pos + i - 1]]
AfterPage(c) == [c EXCEPT !.search_pos = @ + PageLength(c)]

-----------------------------------------------------------------------------
(* Asking the server.                                                      *)

Selects(q, row) ==
  /\ row.cleaned = q.cleaned
  /\ IF q.shelfno = NON_SENSE_INT THEN row.shelfno > NON_SENSE_INT
     ELSE row.shelfno = q.shelfno
Matches(q, table) == {b \in BookNo : Selects(q, table[b])}

Following(S, b) == {n \in S : n > b}

\* Lists of members of S that fit a page.
ListsOf(S) == UNION {[1..n -> S] : n \in 0..DEFAULT_FINDS}

\* Variant: the rows come in no order.
FirstOf_Unordered(S) ==
  {s \in ListsOf(S) :
     /\ \A i, j \in 1..Len(s) : i # j => s[i] # s[j]
     /\ Len(s) < DEFAULT_FINDS => S = {s[i] : i \in 1..Len(s)}}
\* The first books of S in the order of their numbers, a page at most.
FirstOf(S) ==
  {s \in ListsOf(S) :
     /\ \A i, j \in 1..Len(s) : i < j => s[i] < s[j]
     /\ \A b \in S : \/ \E i \in 1..Len(s) : s[i] = b
                     \/ Len(s) = DEFAULT_FINDS /\ s[DEFAULT_FINDS] < b}

EntryOf(b) == [code |-> b, shelfno |-> books[b].shelfno, mark |-> "kept"]

\* The entries srvdb_book_find yields behind number start.
Found(q, start) ==
  {[i \in 1..Len(s) |-> EntryOf(s[i])] : s \in FirstOf(Following(Matches(q, books), start))}

\* client_shelf_loading_book or client_searching_book: all of the answer arrives,
\* or a part of it until the request fails.
Answers(q, start) ==
  {[ok |-> "yes", rows |-> f] : f \in Found(q, start)}
    \cup (IF Faults
          THEN UNION {{[ok |-> "no", rows |-> SubSeq(f, 1, k)] : k \in 0..Len(f)} :
                      f \in Found(q, start)}
          ELSE {})

\* Variant: the number recorded is that of the first book of the page.
LastNumber_First(rows) == rows[1].code
LastNumber(rows) == rows[Len(rows)].code

\* next_page_bookinfo: the page at the position in the file, or else one from
\* the server.  res is -1 for an error, otherwise the length of the page.
next_page_bookinfo(c, bookno, q) ==
  IF PageLength(c) > 0
  THEN {[res |-> PageLength(c), rows |-> PageRows(c), cache |-> AfterPage(c),
         bookno |-> bookno]}
  ELSE {LET more == InsertAll(c, a.rows)
        IN  IF a.ok = "no" THEN [res |-> -1, rows |-> <<>>, cache |-> more, bookno |-> bookno]
            ELSE IF a.rows = <<>> THEN [res |-> 0, rows |-> <<>>, cache |-> more, bookno |-> bookno]
            ELSE [res |-> PageLength(more), rows |-> PageRows(more), cache |-> AfterPage(more),
                  bookno |-> LastNumber(PageRows(more))]
        : a \in Answers(q, bookno)}

\* Whether a page read at the end of the file begins where pages begin.
Whole(c, out) ==
  /\ out.res = -1 => out.cache.dbm_pos = c.dbm_pos
  /\ out.cache.dbm_pos > c.dbm_pos => c.dbm_pos % PAD_HIGHT = 0
-----------------------------------------------------------------------------
(* The page on the screen.                                                 *)

\* The pad shows the titles of the books; the number stands for the title.
Titles(rows) == [i \in 1..Len(rows) |-> rows[i].code]

\* The slider cannot go below the last row that the screen shows.
MaxRow(titles) == IF Len(titles) > PAD_BOXED_HIGHT - 1 THEN PAD_BOXED_HIGHT - 1 ELSE Len(titles) - 1
LogicRow(titles) == Len(titles) - 1

\* Variant: from the last row down to the first the text is not scrolled.
scroll_pad_NoWrap(current_row, last_row, max_row, logic_row, nline) ==
  IF current_row > max_row /\ last_row = 0 THEN logic_row - max_row
  ELSE IF current_row > max_row /\ last_row < current_row THEN nline + 1
  ELSE IF current_row >= max_row /\ last_row > current_row THEN nline - 1
  ELSE nline

\* The first line of the text on the screen after the slider moved from
\* last_row to current_row.
scroll_pad(current_row, last_row, max_row, logic_row, nline) ==
  IF current_row > max_row /\ last_row = 0 THEN logic_row - max_row
  ELSE IF current_row = 0 THEN 0
  ELSE IF current_row > max_row /\ last_row < current_row THEN nline + 1
  ELSE IF current_row >= max_row /\ last_row > current_row THEN nline - 1
  ELSE nline

\* Variant: the position is computed without the number of the page.
cur_dbm_pos_NoPage(page_cnt, row) == row
cur_dbm_pos(page_cnt, row) == page_cnt * PAD_HIGHT + row

\* What clidb_book_peek leaves in local_book, which holds old (any value at all
\* before the first peek of a page): a position without an entry is not an error.
Peek(c, pos, old) == IF pos \in DOMAIN c.file THEN {c.file[pos]} ELSE old

\* What the client asks the server for.
QueryOf(mode, shelf, collect, shelfno) ==
  IF mode = "search" THEN [cleaned |-> BOOK_AVL, shelfno |-> shelf]
  ELSE IF collect = 1 THEN [cleaned |-> BOOK_UNSORTED, shelfno |-> NON_SENSE_INT]
  ELSE [cleaned |-> BOOK_AVL, shelfno |-> shelfno]

\* display_bookinfo_page from "初始化书籍信息" on, with the file c, page number
\* cnt and static variables as given: a page with a row is shown, and without one
\* the function returns.  whole tells whether the listing is still aligned.
Display(mode, shelf, c, cnt, bookno, shelfno, collect, whole) ==
  \E out \in next_page_bookinfo(c, bookno, QueryOf(mode, shelf, collect, shelfno)) :
    /\ out.cache.dbm_pos <= MaxCache
    /\ cache' = out.cache
    /\ local_bookno' = out.bookno
    /\ book_page_cnt' = cnt
    /\ aligned' = (whole /\ Whole(c, out))
    /\ IF out.res > 0
       THEN \E e \in Peek(out.cache, cur_dbm_pos(cnt, 0), Entry) :
              screen' = [mode |-> mode, shelf |-> shelf, titles |-> Titles(out.rows), row |-> 0,
                         first_line |-> 0, local_book |-> e]
       ELSE screen' = Closed

\* The page is opened for another shelf, for another purpose, after a new book
\* or for a new search.  Variant: another shelf is no reason to begin again.
Changed_AnyShelf(shelf, collect) == bcollect # collect \/ global_new_book_coming
Changed(shelf, collect) ==
  local_shelfno # shelf \/ bcollect # collect \/ global_new_book_coming

\* A listing begins: the positions are reset and nothing of it was asked for.
Begin(mode, shelf, collect, shelfno) ==
  /\ no_next_page_flag' = 0
  /\ query' = QueryOf(mode, shelf, collect, shelfno)
  /\ steady' = Matches(query', books)
  /\ Display(mode, shelf, clidb_book_reset(cache), 0, NON_SENSE_INT, shelfno, collect, TRUE)

Continue(mode, shelf, collect, shelfno) ==
  /\ UNCHANGED <<no_next_page_flag, query, steady>>
  /\ Display(mode, shelf, cache, book_page_cnt, local_bookno, shelfno, collect, aligned)

\* A shelf without books is not offered for opening.
Offered(shelf, collect) ==
  collect = 1 \/ Others # {} \/ Matches([cleaned |-> BOOK_AVL, shelfno |-> shelf], books) # {}

OpenShelf(shelf, collect) ==
  /\ screen = Closed
  /\ Offered(shelf, collect)
  /\ local_shelfno' = shelf
  /\ bcollect' = collect
  /\ global_new_book_coming' = FALSE
  /\ LET mode == IF collect = 1 THEN "collect" ELSE "browse"
     IN  IF Changed(shelf, collect) THEN Begin(mode, shelf, collect, shelf)
                                    ELSE Continue(mode, shelf, collect, shelf)
  /\ UNCHANGED books

\* A search on one shelf or on all.  client_searching_book, called first for the
\* number of the results, inverts a mark each time, and a page opened with
\* another mark begins anew.
OpenSearch(shelf) ==
  /\ screen = Closed
  /\ local_shelfno' = NON_SENSE_INT
  /\ Begin("search", shelf, bcollect, NON_SENSE_INT)
  /\ UNCHANGED <<books, bcollect, global_new_book_coming>>

-----------------------------------------------------------------------------
(* The keys.                                                               *)

Open == screen # Closed
CurPos(row) == cur_dbm_pos(book_page_cnt, row)
Paging == <<books, local_shelfno, bcollect, global_new_book_coming,
            query, steady>>

\* The slider moves, with wrap-around at both ends of the page.
Move(row) ==
  /\ \E e \in Peek(cache, CurPos(row), {screen.local_book}) :
       screen' = [screen EXCEPT !.row = row, !.local_book = e,
                    !.first_line = scroll_pad(row, screen.row, MaxRow(screen.titles),
                                              LogicRow(screen.titles), screen.first_line)]
  /\ UNCHANGED <<Paging, cache, local_bookno, book_page_cnt, no_next_page_flag, aligned>>

KeyUp ==
  Open /\ Move(IF screen.row = 0 THEN LogicRow(screen.titles) ELSE screen.row - 1)
KeyDown ==
  Open /\ Move(IF screen.row = LogicRow(screen.titles) THEN 0 ELSE screen.row + 1)

\* The function returns after the page was turned and is called again.
TurnTo(c, cnt, bookno, whole) ==
  Display(screen.mode, screen.shelf, clidb_book_backward_mode(c), cnt, bookno,
          local_shelfno, bcollect, whole)

KeyRight ==
  /\ Open
  /\ \/ /\ no_next_page_flag = 1
        /\ UNCHANGED <<cache, local_bookno, book_page_cnt, no_next_page_flag, screen, aligned>>
     \/ /\ no_next_page_flag = 0
        /\ \E out \in next_page_bookinfo(cache, local_bookno,
                         QueryOf(screen.mode, screen.shelf, bcollect, local_shelfno)) :
             \/ /\ out.res = -1
                /\ out.cache.dbm_pos <= MaxCache
                /\ cache' = out.cache
                /\ screen' = Closed
                /\ aligned' = FALSE
                /\ UNCHANGED <<local_bookno, book_page_cnt, no_next_page_flag>>
             \/ /\ out.res = 0
                /\ no_next_page_flag' = 1
                /\ UNCHANGED <<cache, local_bookno, book_page_cnt, screen, aligned>>
             \/ /\ out.res > 0
                /\ TurnTo(out.cache, book_page_cnt + 1, out.bookno, aligned /\ Whole(cache, out))
                /\ UNCHANGED no_next_page_flag
  /\ UNCHANGED Paging

\* The number of the page before, or of the first one.
PageBefore(cnt) == IF cnt > 0 THEN cnt - 1 ELSE 0

\* Back to the start of this page, and on leaving to the start of the one before.
KeyLeft ==
  /\ Open
  /\ no_next_page_flag' = IF book_page_cnt > 0 THEN 0 ELSE no_next_page_flag
  /\ TurnTo(clidb_book_backward_mode(cache), PageBefore(book_page_cnt), local_bookno, aligned)
  /\ UNCHANGED Paging

KeyBackspace ==
  /\ Open
  /\ cache' = clidb_book_backward_mode(cache)
  /\ screen' = Closed
  /\ UNCHANGED <<Paging, local_bookno, book_page_cnt, no_next_page_flag, aligned>>
-----------------------------------------------------------------------------
(* What is done with the book under the slider, and with the books at large. *)

\* The server's rows become table; the listing loses the books that no longer
\* match.
Become(table) ==
  /\ books' = table
  /\ steady' = steady \cap Matches(query, table)

\* One request that turns the server's rows into table.  When it fails it may
\* have been executed, and the client keeps its copy.
Request(table, done) ==
  \/ /\ Become(table)
     /\ cache' = done.cache
     /\ screen' = [screen EXCEPT !.local_book = done.local_book]
  \/ /\ Faults
     /\ \E t \in {table, books} : Become(t)
     /\ UNCHANGED <<cache, screen>>

Kept == <<statics, global_new_book_coming, query, aligned>>

\* Enter on the page for collecting; it is told from the others by bcollect alone.
client_shelf_collecting_book ==
  /\ Open /\ bcollect = 1
  /\ LET e == screen.local_book
         taken == [e EXCEPT !.mark = "collected"]
     IN  /\ e.mark # "collected"
         /\ Request([books EXCEPT ![e.code] = [cleaned |-> BOOK_AVL, shelfno |-> local_shelfno]],
                    [cache |-> StoreAt(cache, CurPos(screen.row), taken), local_book |-> taken])
  /\ UNCHANGED Kept

\* client_shelf_moving_book and client_shelf_tagging_book: the whole row is
\* written back from the copy.
client_shelf_moving_book ==
  /\ Open /\ bcollect = 0
  /\ LET e == screen.local_book
     IN  /\ e.mark # "deleted"
         /\ Request([books EXCEPT ![e.code] = [cleaned |-> BOOK_AVL, shelfno |-> e.shelfno]],
                    [cache |-> StoreAt(cache, CurPos(screen.row), e), local_book |-> e])
  /\ UNCHANGED Kept

client_shelf_delete_book ==
  /\ Open /\ bcollect = 0
  /\ LET e == screen.local_book
         gone == [e EXCEPT !.mark = "deleted"]
     IN  /\ e.mark # "deleted"
         /\ Request([books EXCEPT ![e.code].cleaned = BOOK_DEL],
                    [cache |-> IF CurPos(screen.row) \in DOMAIN cache.file
                               THEN StoreAt(cache, CurPos(screen.row), gone) ELSE cache,
                     local_book |-> gone])
  /\ UNCHANGED Kept

\* A new book gets the smallest number free.  When the answer is lost the book
\* may be there all the same, and the flag is not set.
add_newbook_page(shelf) ==
  /\ screen = Closed
  /\ \E b \in BookNo :
       /\ books[b].cleaned = BOOK_DEL
       /\ \A d \in 1 .. b - 1 : books[d].cleaned # BOOK_DEL
       /\ Become([books EXCEPT ![b] = [cleaned |-> BOOK_AVL, shelfno |-> shelf]])
  /\ \/ global_new_book_coming' = TRUE
     \/ Faults /\ UNCHANGED global_new_book_coming
  /\ UNCHANGED <<cache, statics, screen, query, aligned>>

\* The books of a shelf that is taken down are unsorted or deleted with it, all
\* rows with its number alike; the shelf is built again under the same number.
delete_shelf_page(shelf) ==
  /\ screen = Closed
  /\ \E to \in {BOOK_UNSORTED, BOOK_DEL} :
       Become([b \in BookNo |-> IF books[b].shelfno = shelf
                                THEN [books[b] EXCEPT !.cleaned = to] ELSE books[b]])
  /\ UNCHANGED <<cache, statics, global_new_book_coming, screen, query, aligned>>

\* Another client of the user changes a row.
OtherClient ==
  /\ \E b \in Others, row \in Row :
       /\ row.shelfno # NON_SENSE_INT
       /\ Become([books EXCEPT ![b] = row])
  /\ UNCHANGED <<cache, statics, global_new_book_coming, screen, query, aligned>>

-----------------------------------------------------------------------------
Init ==
  /\ books \in [BookNo -> [cleaned : {BOOK_AVL, BOOK_DEL}, shelfno : ShelfNo]]
  /\ cache = [file |-> <<>>, dbm_pos |-> 0, search_pos |-> 0]
  /\ local_shelfno = NON_SENSE_INT /\ local_bookno = NON_SENSE_INT
  /\ book_page_cnt = 0 /\ bcollect = 0 /\ no_next_page_flag = 0
  /\ global_new_book_coming = FALSE
  /\ screen = Closed
  /\ query = [cleaned |-> BOOK_AVL, shelfno |-> NON_SENSE_INT]
  /\ steady = {}
  /\ aligned = TRUE

Key == KeyUp \/ KeyDown \/ KeyLeft \/ KeyRight \/ KeyBackspace

Next ==
  \/ \E s \in ShelfNo, collect \in 0..1 : OpenShelf(s, collect)
  \/ \E s \in ShelfNo \cup {NON_SENSE_INT} : OpenSearch(s)
  \/ Key
  \/ client_shelf_collecting_book \/ client_shelf_moving_book \/ client_shelf_delete_book
  \/ \E s \in ShelfNo : add_newbook_page(s) \/ delete_shelf_page(s)
  \/ OtherClient

Spec == Init /\ [][Next]_vars

-----------------------------------------------------------------------------
\* The variables have their types.
TypeOK ==
  /\ books \in [BookNo -> Row]
  /\ DOMAIN cache.file \subseteq 0 .. MaxCache + DEFAULT_FINDS
  /\ \A k \in DOMAIN cache.file : cache.file[k] \in Entry
  /\ cache.dbm_pos \in Nat /\ cache.search_pos \in Nat
  /\ local_shelfno \in 0..MAX_SHELF_NUM /\ local_bookno \in 0..MAX_BOOK_NUM
  /\ book_page_cnt \in Nat /\ bcollect \in 0..1 /\ no_next_page_flag \in 0..1
  /\ query \in Query /\ steady \subseteq BookNo

\* The book the client acts on is the one whose title the slider points at, as
\* long as the listing is aligned.
RowIsBook ==
  Open => screen.local_book.code = screen.titles[screen.row + 1]
AlignedRowIsBook == aligned => RowIsBook

\* The slider on the screen points at the current row: the first line scrolled
\* to and the slider's own row add up (scroll_pad, move_slider).
SliderOnRow ==
  Open => screen.first_line +
            (IF screen.row > MaxRow(screen.titles) THEN MaxRow(screen.titles) ELSE screen.row)
          = screen.row

\* No book is listed twice, and the numbers ascend over all pages.
Ascending ==
  aligned =>
    \A i, j \in 0 .. cache.dbm_pos - 1 : i < j => cache.file[i].code < cache.file[j].code

\* When the client says that this is the last page ("已是最后一页"), every book that
\* belonged to the listing ever since it began has been listed.
AllListed ==
  aligned /\ Open /\ no_next_page_flag = 1 =>
    steady \subseteq {cache.file[i].code : i \in 0 .. cache.dbm_pos - 1}

\* The pages shown are of what the user asked for: a listing that is continued
\* is of the same shelf, the same purpose or the same search.
ListingOfQuery ==
  Open => query = QueryOf(screen.mode, screen.shelf, bcollect, local_shelfno)

\* A book is collected onto the shelf whose page is open (不支持此类参数).
CollectsOntoShelf == \A b \in BookNo : books[b].cleaned = BOOK_AVL => books[b].shelfno # NON_SENSE_INT
=============================================================================
