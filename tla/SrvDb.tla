------------------------------- MODULE SrvDb --------------------------------
(***************************************************************************)
(* The server's tables of one user, <user>_books and <user>_shelves, and   *)
(* the wrappers of srvdb.c that change them.  The server is one process    *)
(* that serves one request at a time, so a wrapper is one action however   *)
(* many statements it issues; what may go wrong between its statements is  *)
(* the connection to MySQL.                                                *)
(*                                                                         *)
(* A table is a function from the numbers of its rows to the rows.  A row  *)
(* is never removed: its column "cleaned" says whether it is in use, and   *)
(* the number of a deleted row is given out again.  The columns that the   *)
(* wrappers only copy (name, author, label, floor, borrowed, on_reading    *)
(* and time of a book; name, floors and time of a shelf) are one value of  *)
(* BookInfo or ShelfInfo.                                                  *)
(***************************************************************************)
EXTENDS Clisrv, MySql

CONSTANTS BookInfo, ShelfInfo      \* what is written down about a book, a shelf

VARIABLES books, shelves,
          reply      \* the answer of the wrapper that ran last, "none" while idle

vars == <<books, shelves, conn, reply>>

BookRow == [cleaned : {BOOK_AVL, BOOK_DEL, BOOK_UNSORTED},
            shelfno : 0..MAX_SHELF_NUM, info : BookInfo]

ShelfRow == [cleaned : {SHELF_AVL, SHELF_DEL}, info : ShelfInfo]

\* The columns of a book that a client sends with an insert or an update.
BookEntry == {r \in BookRow : r.cleaned = BOOK_AVL}
ShelfEntry == {r \in ShelfRow : r.cleaned = SHELF_AVL}

Ops == {"none", "insert", "delete", "update", "find", "build", "remove"}

\* no is the number in the answer, error_text tells an answer that says that
\* the capacity is reached from one that does not.  cause is not sent: it keeps
\* the error, if any, after which a refused request looked for the largest number.
Reply == [op : Ops, response : {"r_success", "r_failed"}, no : Nat,
          error_text : {"", "full"}, cause : Nat]

Answer(op, response, no) ==
  [op |-> op, response |-> response, no |-> no, error_text |-> "", cause |-> 0]
Refusal(op, cause) ==
  [op |-> op, response |-> "r_failed", no |-> NON_SENSE_INT, error_text |-> "full",
   cause |-> cause]

\* Variant: the numbers searched for reuse are those of unsorted rows.
Deleted_WrongState(tbl) == {n \in DOMAIN tbl : tbl[n].cleaned = BOOK_UNSORTED}
Deleted(tbl) == {n \in DOMAIN tbl : tbl[n].cleaned = BOOK_DEL}
Live(tbl) == {n \in DOMAIN tbl : tbl[n].cleaned # BOOK_DEL}

\* SELECT MIN and SELECT MAX over a column: one number, or none (NULL).
SelectMin(S) == {n \in S : \A m \in S : n <= m}
SelectMax(S) == {n \in S : \A m \in S : m <= n}

\* The table after a row has been written under number n.
Put(tbl, n, row) ==
  [k \in DOMAIN tbl \cup {n} |-> IF k = n THEN row ELSE tbl[k]]

\* UPDATE ... SET cleaned = c on the rows numbered S.
SetCleaned(tbl, S, c) ==
  [k \in DOMAIN tbl |-> IF k \in S THEN [tbl[k] EXCEPT !.cleaned = c] ELSE tbl[k]]

-----------------------------------------------------------------------------
(***************************************************************************)
(* Giving out a number: the body srvdb_book_insert and srvdb_shelf_build   *)
(* share.  tbl is the table before, new the table after the request; cur   *)
(* and c are the table and the connection as the statements so far have    *)
(* left them.                                                              *)
(***************************************************************************)

\* Variant: the number is copied into the answer before it is incremented.
InsertInto_StaleNumber(cur, new, c, op, n, row) ==
  \E ins \in Statement(c) :
    LET stored == Executed(ins) /\ n \notin DOMAIN cur
    IN  /\ new = IF stored THEN Put(cur, n, row) ELSE cur
        /\ conn' = ins.conn
        /\ reply' = Answer(op, IF Ok(ins) /\ stored THEN "r_success" ELSE "r_failed", n - 1)

\* INSERT INTO under number n: the primary key refuses a number in use.
InsertInto(cur, new, c, op, n, row) ==
  \E ins \in Statement(c) :
    LET stored == Executed(ins) /\ n \notin DOMAIN cur
    IN  /\ new = IF stored THEN Put(cur, n, row) ELSE cur
        /\ conn' = ins.conn
        /\ reply' = Answer(op, IF Ok(ins) /\ stored THEN "r_success" ELSE "r_failed", n)

\* Variant: the comparison with the capacity is off by one.
AtCapacity_Off(m, limit) == m > limit
AtCapacity(m, limit) == m >= limit

\* The number after the largest one.  Variant: it is incremented twice.
NextNumber_Twice(m) == m + 2
NextNumber(m) == m + 1

\* No deleted number could be reused: SELECT MAX gives the number after the
\* largest, 1 for an empty table or when the result could not be read.  cause
\* is the error of the statement that should have found or reused a number.
AppendRow(cur, new, c, op, limit, row, cause) ==
  \E max \in Statement(c) :
    \/ /\ ~Ok(max)
       /\ new = cur
       /\ conn' = max.conn
       /\ reply' = Answer(op, "r_failed", NON_SENSE_INT)
    \/ /\ Ok(max)
       /\ \E res \in get_simple_result(max.conn) :
            LET top == IF res.got = "row" THEN SelectMax(DOMAIN cur) ELSE {}
            IN  \/ /\ \E m \in top : AtCapacity(m, limit)
                   /\ new = cur
                   /\ conn' = res.conn
                   /\ reply' = Refusal(op, cause)
                \/ /\ \A m \in top : ~AtCapacity(m, limit)
                   /\ \E n \in IF top = {} THEN {1} ELSE {NextNumber(m) : m \in top} :
                        InsertInto(cur, new, res.conn, op, n, row)

\* The smallest deleted number is reused by an UPDATE of its row; when the
\* SELECT MIN or that UPDATE fails the wrapper goes on to AppendRow.
ReuseRow(tbl, new, c, op, n, limit, row) ==
  \E upd \in Statement(c) :
    \/ /\ Ok(upd)
       /\ new = Put(tbl, n, row)
       /\ conn' = upd.conn
       /\ reply' = Answer(op, "r_success", n)
    \/ /\ ~Ok(upd)
       /\ AppendRow(IF Executed(upd) THEN Put(tbl, n, row) ELSE tbl, new,
                    upd.conn, op, limit, row, upd.errno)

InsertRow(tbl, new, op, limit, row) ==
  \E min \in Statement(conn) :
    \/ /\ ~Ok(min)
       /\ AppendRow(tbl, new, min.conn, op, limit, row, min.errno)
    \/ /\ Ok(min)
       /\ \E res \in get_simple_result(min.conn) :
            LET free == IF res.got = "row" THEN SelectMin(Deleted(tbl)) ELSE {}
            IN  \/ free = {} /\ AppendRow(tbl, new, res.conn, op, limit, row, 0)
                \/ \E n \in free : ReuseRow(tbl, new, res.conn, op, n, limit, row)

-----------------------------------------------------------------------------
(***************************************************************************)
(* The wrappers.                                                           *)
(***************************************************************************)

srvdb_book_insert(row) ==
  /\ InsertRow(books, books', "insert", MAX_BOOK_NUM, row)
  /\ UNCHANGED shelves

srvdb_shelf_build(row) ==
  /\ InsertRow(shelves, shelves', "build", MAX_SHELF_NUM, row)
  /\ UNCHANGED books

\* Without a book number the request is about every row of the shelf,
\* whatever its state.
BulkRequest(shelfno, bookno) == bookno = NON_SENSE_INT /\ shelfno # NON_SENSE_INT

RowsOn(shelfno) == {b \in DOMAIN books : books[b].shelfno = shelfno}

\* One UPDATE statement that turns the table tbl, when executed, into updated.
UpdateStatement(tbl, new, updated, op) ==
  \E st \in Statement(conn) :
    /\ new = IF Executed(st) THEN updated ELSE tbl
    /\ conn' = st.conn
    /\ reply' = Answer(op, IF Ok(st) THEN "r_success" ELSE "r_failed", NON_SENSE_INT)

srvdb_book_delete(shelfno, bookno) ==
  /\ UpdateStatement(books, books',
       SetCleaned(books,
                  IF BulkRequest(shelfno, bookno) THEN RowsOn(shelfno) ELSE {bookno},
                  BOOK_DEL),
       "delete")
  /\ UNCHANGED shelves

\* An update of one book writes the whole row, "cleaned" included.
srvdb_book_update(shelfno, bookno, row) ==
  /\ UpdateStatement(books, books',
       IF BulkRequest(shelfno, bookno)
       THEN SetCleaned(books, RowsOn(shelfno), BOOK_UNSORTED)
       ELSE [b \in DOMAIN books |-> IF b = bookno THEN row ELSE books[b]],
       "update")
  /\ UNCHANGED shelves

\* The second UPDATE, on the books of the shelf, is composed but not issued.
srvdb_shelf_remove(shelfno) ==
  /\ UpdateStatement(shelves, shelves', SetCleaned(shelves, {shelfno}, SHELF_DEL), "remove")
  /\ UNCHANGED books

\* Any wrapper that only reads: it can lose or restore the connection.
Lookup ==
  /\ \E st \in Statement(conn) :
       /\ conn' = st.conn
       /\ reply' = Answer("find", IF Ok(st) THEN "r_success" ELSE "r_failed", NON_SENSE_INT)
  /\ UNCHANGED <<books, shelves>>

MySqlTimeout ==
  /\ IdleTimeout
  /\ reply' = Answer("none", "r_failed", NON_SENSE_INT)
  /\ UNCHANGED <<books, shelves>>

-----------------------------------------------------------------------------
Init ==
  /\ books = <<>>
  /\ shelves = <<>>
  /\ conn = "up"
  /\ reply = Answer("none", "r_failed", NON_SENSE_INT)

ShelfNo == 1..MAX_SHELF_NUM
BookNo == 1..MAX_BOOK_NUM

\* The requests the dispatcher passes on; a request names one book or all the
\* books of one shelf.
Next ==
  \/ \E row \in BookEntry : srvdb_book_insert(row)
  \/ \E row \in ShelfEntry : srvdb_shelf_build(row)
  \/ \E b \in BookNo : srvdb_book_delete(NON_SENSE_INT, b)
  \/ \E s \in ShelfNo : srvdb_book_delete(s, NON_SENSE_INT)
  \/ \E b \in BookNo, row \in BookEntry : srvdb_book_update(row.shelfno, b, row)
  \/ \E s \in ShelfNo, row \in BookEntry : srvdb_book_update(s, NON_SENSE_INT, row)
  \/ \E s \in ShelfNo : srvdb_shelf_remove(s)
  \/ Lookup
  \/ MySqlTimeout

Spec == Init /\ [][Next]_vars

-----------------------------------------------------------------------------
\* Every table holds rows of its type under numbers within its capacity, and
\* the connection is in one of its states.
TypeOK ==
  /\ DOMAIN books \subseteq BookNo
  /\ books \in [DOMAIN books -> BookRow]
  /\ DOMAIN shelves \subseteq ShelfNo
  /\ shelves \in [DOMAIN shelves -> ShelfRow]
  /\ conn \in ConnState
  /\ reply \in Reply

\* The numbers given out have no gaps: SELECT MAX(bookno) + 1 and the reuse of
\* the smallest deleted number never skip a number, so MAX >= the capacity
\* means that every number has a row (srvdb_book_insert, srvdb_shelf_build).
Dense(tbl) == \A n \in DOMAIN tbl : 1..n \subseteq DOMAIN tbl
NumbersDense == Dense(books) /\ Dense(shelves)

\* What one request to place a row does to a table, whatever happens to the
\* connection between its statements: rows in use stay as they are, at most
\* one row comes into use, and an answer of success names that row.
NewlyLive(tbl) == Live(tbl)' \ Live(tbl)
PlacesOneRow(tbl) ==
  /\ \A n \in Live(tbl) : n \in DOMAIN tbl' /\ tbl'[n] = tbl[n]
  /\ \A n, m \in NewlyLive(tbl) : n = m
  /\ reply'.response = "r_success" => NewlyLive(tbl) = {reply'.no}

\* srvdb_book_insert and srvdb_shelf_build never overwrite a row in use and
\* never place the new row twice, although a lost connection makes them go on
\* from the reuse of a number to the insertion of a new one.
InsertPlacesOneRow ==
  [][/\ reply'.op = "insert" => PlacesOneRow(books)
     /\ reply'.op = "build" => PlacesOneRow(shelves)]_vars

\* The shelves table keeps the promise of IdPool: a shelf is built under a
\* number no shelf has, and the number in a successful answer is that one
\* (srvdb_shelf_build, srvdb_shelf_remove).  The books table does not: an
\* update of one book, or of all books of a shelf, brings deleted numbers back
\* into use.
ShelfNumbers ==
  INSTANCE IdPool WITH Number <- ShelfNo, None <- NON_SENSE_INT, live <- Live(shelves),
    grant <- IF reply.op = "build" /\ reply.response = "r_success" THEN reply.no ELSE NON_SENSE_INT
ShelvesImplementIdPool == ShelfNumbers!Spec

\* A request is refused for lack of room only when every number is in use
\* ("上架失败:图书数量达到上限").
Refused == reply.error_text = "full"
NoRoom == IF reply.op = "insert" THEN Live(books) = BookNo ELSE Live(shelves) = ShelfNo
FullMeansFull == Refused => NoRoom

\* It need not be so: after an error the wrapper goes on from the search for a
\* deleted number, or from its reuse, to SELECT MAX, and rows are never removed.
\* A refused request has always found a row under every number; a deleted one
\* is among them only if a connection had been closed before the request and
\* was restored, or a statement was refused on a connection that stayed up.  A
\* connection lost under the request, or a result that could not be read, never
\* leads to a wrong refusal.
RefusedOnlyWhenFull ==
  Refused => /\ IF reply.op = "insert" THEN DOMAIN books = BookNo ELSE DOMAIN shelves = ShelfNo
             /\ reply.cause \notin {CR_SERVER_GONE_ERROR, ER_DATA_TOO_LONG} => NoRoom
=============================================================================
