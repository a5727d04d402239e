---------------------------- MODULE SrvDbProofs -----------------------------
(***************************************************************************)
(* Proofs about SrvDb, for every capacity and every set of contents.       *)
(***************************************************************************)
EXTENDS SrvDb, WellFoundedInduction, TLAPS

\* A table whose rows are of type Row, numbered densely within the limit.
IsTable(tbl, Row, limit) ==
  /\ DOMAIN tbl \subseteq 1..limit
  /\ tbl \in [DOMAIN tbl -> Row]
  /\ Dense(tbl)

-----------------------------------------------------------------------------
\* What a statement can do: success means that it was executed on a connection
\* that is still up; executed without success means that the connection is
\* dead; nothing is executed on a connection that is not up, and one that is
\* lost under the statement stays dead (mysql_check_connection ignores its error).
LEMMA StatementOutcome ==
  ASSUME NEW c \in ConnState, NEW st \in Statement(c)
  PROVE  /\ st.conn \in ConnState
         /\ Ok(st) => Executed(st) /\ st.conn = "up"
         /\ Executed(st) /\ ~Ok(st) => st.conn = "dead"
         /\ Executed(st) => c = "up"
         /\ st.errno \in {0, ER_DATA_TOO_LONG, CR_SERVER_LOST, CR_SERVER_GONE_ERROR}
         /\ st.errno = CR_SERVER_LOST => st.conn = "dead"
<1>0. PICK q \in mysql_query(c) :
        \E d \in mysql_check_connection(q) : st = [q EXCEPT !.conn = d]
  BY DEF Statement
<1>1. PICK d \in mysql_check_connection(q) : st = [q EXCEPT !.conn = d]
  BY <1>0
<1>2. /\ q = [errno |-> q.errno, effect |-> q.effect, conn |-> q.conn]
      /\ q.conn \in {"up", "dead"}
      /\ q.errno \in {0, ER_DATA_TOO_LONG, CR_SERVER_LOST, CR_SERVER_GONE_ERROR}
      /\ q.errno = 0 => q.effect = "executed" /\ q.conn = "up"
      /\ q.errno = CR_SERVER_LOST => q.conn = "dead"
      /\ q.effect = "executed" => c = "up" /\ q.errno \in {0, CR_SERVER_LOST}
  BY UnreliableAssumption
  DEF mysql_query, ConnState, ER_DATA_TOO_LONG, CR_SERVER_LOST, CR_SERVER_GONE_ERROR
<1>3. /\ d \in ConnState
      /\ q.errno \in {0, CR_SERVER_LOST} => d = q.conn
  BY <1>1, <1>2
  DEF mysql_check_connection, ConnState, CR_SERVER_LOST, CR_SERVER_GONE_ERROR,
      CR_CONN_HOST_ERROR
<1>4. st.errno = q.errno /\ st.effect = q.effect /\ st.conn = d
  BY <1>1, <1>2
<1>. QED
  BY <1>2, <1>3, <1>4 DEF Ok, Executed, CR_SERVER_LOST, CR_SERVER_GONE_ERROR

\* get_simple_result either reads the row and leaves the connection as it is,
\* or finds the connection dead.
LEMMA FetchOutcome ==
  ASSUME NEW c \in ConnState, NEW res \in get_simple_result(c)
  PROVE  /\ res.conn \in ConnState
         /\ res.got # "row" => res.conn = "dead"
         /\ res.got = "row" => res.conn = c
BY UnreliableAssumption DEF get_simple_result, ConnState

-----------------------------------------------------------------------------
\* Writing a row under a number in the table, or under the next number, keeps
\* the table a table.
LEMMA PutTable ==
  ASSUME NEW Row, NEW limit \in Nat, NEW tbl, IsTable(tbl, Row, limit),
         NEW row \in Row, NEW n \in 1..limit,
         n \in DOMAIN tbl \/ n = 1 \/ n - 1 \in DOMAIN tbl
  PROVE  IsTable(Put(tbl, n, row), Row, limit)
<1> DEFINE new == Put(tbl, n, row)
<1>1. DOMAIN new = DOMAIN tbl \cup {n}
  BY DEF Put
<1>2. new \in [DOMAIN new -> Row]
  BY <1>1 DEF Put, IsTable
<1>3. Dense(new)
  <2> SUFFICES ASSUME NEW k \in DOMAIN new, NEW m \in 1..k
               PROVE  m \in DOMAIN new
    BY DEF Dense
  <2>1. CASE k \in DOMAIN tbl
    BY <1>1, <2>1 DEF IsTable, Dense
  <2>2. CASE k = n /\ n - 1 \in DOMAIN tbl
    <3>1. m = n \/ m \in 1..(n - 1)
      BY <2>2
    <3>2. 1..(n - 1) \subseteq DOMAIN tbl
      BY <2>2 DEF IsTable, Dense
    <3>. QED
      BY <1>1, <3>1, <3>2
  <2>3. CASE k = n /\ n = 1
    BY <1>1, <2>3
  <2>. QED
    BY <1>1, <2>1, <2>2, <2>3
<1>. QED
  BY <1>1, <1>2, <1>3 DEF IsTable

\* Changing rows in place keeps the table a table.
LEMMA InPlaceTable ==
  ASSUME NEW Row, NEW limit, NEW tbl, IsTable(tbl, Row, limit),
         NEW new, DOMAIN new = DOMAIN tbl, new \in [DOMAIN tbl -> Row]
  PROVE  IsTable(new, Row, limit)
BY DEF IsTable, Dense

\* The answers are of their type.
LEMMA AnswerType ==
  ASSUME NEW op \in Ops, NEW response \in {"r_success", "r_failed"}, NEW n \in Nat
  PROVE  /\ Answer(op, response, n) \in Reply
         /\ Answer(op, response, n).op = op
         /\ Answer(op, response, n).response = response
         /\ Answer(op, response, n).no = n
         /\ Refusal(op, n) \in Reply
         /\ Refusal(op, n).op = op
         /\ Refusal(op, n).response = "r_failed"
BY DEF Answer, Refusal, Reply, NON_SENSE_INT

\* AppendRow leaves the table as it is, or adds the row under a number that had
\* no row; it adds a row only if the connection was up.
LEMMA AppendRowEffect ==
  ASSUME NEW Row, NEW limit \in Nat \ {0}, NEW cur, IsTable(cur, Row, limit),
         NEW new, NEW row \in Row, NEW c \in ConnState, NEW op \in Ops,
         NEW cause \in Nat, AppendRow(cur, new, c, op, limit, row, cause)
  PROVE  /\ IsTable(new, Row, limit)
         /\ conn' \in ConnState
         /\ reply' \in Reply
         /\ reply'.op = op
         /\ \/ new = cur /\ reply'.response = "r_failed"
            \/ /\ c = "up"
               /\ \E n \in 1..limit :
                    /\ n \notin DOMAIN cur
                    /\ new = Put(cur, n, row)
                    /\ reply'.no = n
<1>1. PICK max \in Statement(c) :
        \/ /\ ~Ok(max)
           /\ new = cur
           /\ conn' = max.conn
           /\ reply' = Answer(op, "r_failed", NON_SENSE_INT)
        \/ /\ Ok(max)
           /\ \E res \in get_simple_result(max.conn) :
                LET top == IF res.got = "row" THEN SelectMax(DOMAIN cur) ELSE {}
                IN  \/ /\ \E m \in top : AtCapacity(m, limit)
                       /\ new = cur
                       /\ conn' = res.conn
                       /\ reply' = Refusal(op, cause)
                    \/ /\ \A m \in top : ~AtCapacity(m, limit)
                       /\ \E n \in IF top = {} THEN {1} ELSE {NextNumber(m) : m \in top} :
                            InsertInto(cur, new, res.conn, op, n, row)
  BY DEF AppendRow
<1>2. max.conn \in ConnState /\ (Ok(max) => c = "up")
  BY StatementOutcome
<1>3. CASE ~Ok(max)
  BY <1>1, <1>2, <1>3, AnswerType DEF NON_SENSE_INT
<1>4. CASE Ok(max)
  <2>1. PICK res \in get_simple_result(max.conn) :
          LET top == IF res.got = "row" THEN SelectMax(DOMAIN cur) ELSE {}
          IN  \/ /\ \E m \in top : AtCapacity(m, limit)
                 /\ new = cur
                 /\ conn' = res.conn
                 /\ reply' = Refusal(op, cause)
              \/ /\ \A m \in top : ~AtCapacity(m, limit)
                 /\ \E n \in IF top = {} THEN {1} ELSE {NextNumber(m) : m \in top} :
                      InsertInto(cur, new, res.conn, op, n, row)
    BY <1>1, <1>4
  <2>2. res.conn \in ConnState
    BY <1>2, FetchOutcome
  <2> DEFINE top == IF res.got = "row" THEN SelectMax(DOMAIN cur) ELSE {}
  <2>3. top \subseteq DOMAIN cur /\ \A m \in top, k \in DOMAIN cur : res.got = "row" => k <= m
    BY DEF SelectMax
  <2>4. CASE new = cur /\ conn' = res.conn /\ reply' = Refusal(op, cause)
    BY <2>2, <2>4, AnswerType
  <2>5. ASSUME \A m \in top : ~AtCapacity(m, limit),
               NEW n \in IF top = {} THEN {1} ELSE {NextNumber(m) : m \in top},
               InsertInto(cur, new, res.conn, op, n, row)
        PROVE  /\ IsTable(new, Row, limit)
               /\ conn' \in ConnState
               /\ reply' \in Reply
               /\ reply'.op = op
               /\ \/ new = cur /\ reply'.response = "r_failed"
                  \/ n \in 1..limit /\ n \notin DOMAIN cur /\ new = Put(cur, n, row) /\ reply'.no = n
    <3>1. n \in 1..limit /\ (n = 1 \/ n - 1 \in DOMAIN cur)
      BY <2>3, <2>5 DEF IsTable, AtCapacity, NextNumber
    <3>2. PICK ins \in Statement(res.conn) :
            LET stored == Executed(ins) /\ n \notin DOMAIN cur
            IN  /\ new = IF stored THEN Put(cur, n, row) ELSE cur
                /\ conn' = ins.conn
                /\ reply' = Answer(op, IF Ok(ins) /\ stored THEN "r_success" ELSE "r_failed", n)
      BY <2>5 DEF InsertInto
    <3>3. ins.conn \in ConnState
      BY <2>2, StatementOutcome
    <3>4. reply' \in Reply /\ reply'.op = op /\ reply'.no = n
      BY <3>1, <3>2, AnswerType
    <3>5. CASE Executed(ins) /\ n \notin DOMAIN cur
      <4>1. IsTable(Put(cur, n, row), Row, limit)
        BY <3>1, PutTable
      <4>. QED
        BY <3>1, <3>2, <3>3, <3>4, <3>5, <4>1
    <3>6. CASE ~(Executed(ins) /\ n \notin DOMAIN cur)
      BY <3>1, <3>2, <3>3, <3>4, <3>6, AnswerType
    <3>. QED
      BY <3>5, <3>6
  <2>. QED
    BY <1>2, <1>4, <2>1, <2>4, <2>5
<1>. QED
  BY <1>3, <1>4

\* InsertRow leaves the table as it is, or writes the row under one number
\* within the limit that no row in use has; when it answers with success it
\* did write the row, and the answer carries that number.  An UPDATE that was
\* executed without success leaves the connection dead, so that AppendRow
\* cannot place the row a second time.
LEMMA InsertRowEffect ==
  ASSUME NEW Row, NEW limit \in Nat \ {0}, NEW tbl, IsTable(tbl, Row, limit),
         NEW new, NEW row \in Row, conn \in ConnState, NEW op \in Ops,
         InsertRow(tbl, new, op, limit, row)
  PROVE  /\ IsTable(new, Row, limit)
         /\ conn' \in ConnState
         /\ reply' \in Reply
         /\ reply'.op = op
         /\ \/ new = tbl /\ reply'.response = "r_failed"
            \/ \E n \in 1..limit :
                 /\ n \notin Live(tbl)
                 /\ new = Put(tbl, n, row)
                 /\ reply'.response = "r_success" => reply'.no = n
<1>1. PICK min \in Statement(conn) :
        \/ /\ ~Ok(min)
           /\ AppendRow(tbl, new, min.conn, op, limit, row, min.errno)
        \/ /\ Ok(min)
           /\ \E res \in get_simple_result(min.conn) :
                LET free == IF res.got = "row" THEN SelectMin(Deleted(tbl)) ELSE {}
                IN  \/ free = {} /\ AppendRow(tbl, new, res.conn, op, limit, row, 0)
                    \/ \E n \in free : ReuseRow(tbl, new, res.conn, op, n, limit, row)
  BY DEF InsertRow
<1>2. min.conn \in ConnState /\ min.errno \in Nat
  BY StatementOutcome DEF ER_DATA_TOO_LONG, CR_SERVER_LOST, CR_SERVER_GONE_ERROR
<1>3. ASSUME NEW c \in ConnState, NEW cause \in Nat,
             AppendRow(tbl, new, c, op, limit, row, cause)
      PROVE  /\ IsTable(new, Row, limit)
             /\ conn' \in ConnState
             /\ reply' \in Reply
             /\ reply'.op = op
             /\ \/ new = tbl /\ reply'.response = "r_failed"
                \/ \E n \in 1..limit :
                     /\ n \notin Live(tbl)
                     /\ new = Put(tbl, n, row)
                     /\ reply'.response = "r_success" => reply'.no = n
  BY <1>3, AppendRowEffect DEF Live
<1>4. ASSUME NEW c \in ConnState, NEW n \in Deleted(tbl),
             ReuseRow(tbl, new, c, op, n, limit, row)
      PROVE  /\ IsTable(new, Row, limit)
             /\ conn' \in ConnState
             /\ reply' \in Reply
             /\ reply'.op = op
             /\ \/ new = tbl /\ reply'.response = "r_failed"
                \/ \E k \in 1..limit :
                     /\ k \notin Live(tbl)
                     /\ new = Put(tbl, k, row)
                     /\ reply'.response = "r_success" => reply'.no = k
  <2>1. n \in DOMAIN tbl /\ n \in 1..limit /\ n \notin Live(tbl)
    BY DEF Deleted, Live, IsTable
  <2>2. IsTable(Put(tbl, n, row), Row, limit)
    BY <2>1, PutTable
  <2>3. PICK upd \in Statement(c) :
          \/ /\ Ok(upd)
             /\ new = Put(tbl, n, row)
             /\ conn' = upd.conn
             /\ reply' = Answer(op, "r_success", n)
          \/ /\ ~Ok(upd)
             /\ AppendRow(IF Executed(upd) THEN Put(tbl, n, row) ELSE tbl, new,
                          upd.conn, op, limit, row, upd.errno)
    BY <1>4 DEF ReuseRow
  <2>4. /\ upd.conn \in ConnState /\ upd.errno \in Nat
        /\ Executed(upd) /\ ~Ok(upd) => upd.conn = "dead"
    BY StatementOutcome DEF ER_DATA_TOO_LONG, CR_SERVER_LOST, CR_SERVER_GONE_ERROR
  <2>5. CASE Ok(upd)
    BY <2>1, <2>2, <2>3, <2>4, <2>5, AnswerType
  <2>6. CASE ~Ok(upd) /\ Executed(upd)
    <3>1. AppendRow(Put(tbl, n, row), new, upd.conn, op, limit, row, upd.errno)
      BY <2>3, <2>6
    <3>2. /\ IsTable(new, Row, limit)
          /\ conn' \in ConnState
          /\ reply' \in Reply
          /\ reply'.op = op
          /\ new = Put(tbl, n, row) /\ reply'.response = "r_failed"
      BY <2>2, <2>4, <2>6, <3>1, AppendRowEffect
    <3>. QED
      BY <2>1, <3>2
  <2>7. CASE ~Ok(upd) /\ ~Executed(upd)
    BY <1>3, <2>3, <2>4, <2>7
  <2>. QED
    BY <2>5, <2>6, <2>7
<1>5. CASE ~Ok(min)
  BY <1>1, <1>2, <1>3, <1>5
<1>6. CASE Ok(min)
  <2>1. PICK res \in get_simple_result(min.conn) :
          LET free == IF res.got = "row" THEN SelectMin(Deleted(tbl)) ELSE {}
          IN  \/ free = {} /\ AppendRow(tbl, new, res.conn, op, limit, row, 0)
              \/ \E n \in free : ReuseRow(tbl, new, res.conn, op, n, limit, row)
    BY <1>1, <1>6
  <2>2. res.conn \in ConnState
    BY <1>2, FetchOutcome
  <2>3. SelectMin(Deleted(tbl)) \subseteq Deleted(tbl)
    BY DEF SelectMin
  <2>. QED
    BY <1>3, <1>4, <2>1, <2>2, <2>3
<1>. QED
  BY <1>5, <1>6

-----------------------------------------------------------------------------
(***************************************************************************)
(* The inductive invariant: both tables are dense tables.  Density is what *)
(* makes the type correct: without it SELECT MAX + 1 tells nothing about   *)
(* the numbers below, and the number 1 chosen for an unreadable maximum    *)
(* could collide.                                                          *)
(***************************************************************************)
Inv ==
  /\ IsTable(books, BookRow, MAX_BOOK_NUM)
  /\ IsTable(shelves, ShelfRow, MAX_SHELF_NUM)
  /\ conn \in ConnState
  /\ reply \in Reply

\* The tables of a new user satisfy the invariant.
LEMMA InitInv == Init => Inv
<1> SUFFICES ASSUME Init PROVE Inv
  OBVIOUS
<1>1. reply \in Reply
  BY AnswerType DEF Init, Ops, NON_SENSE_INT
<1>2. DOMAIN books = {} /\ DOMAIN shelves = {}
  BY DEF Init
<1>3. books = [k \in {} |-> k] /\ shelves = [k \in {} |-> k]
  BY DEF Init
<1>4. IsTable(books, BookRow, MAX_BOOK_NUM) /\ IsTable(shelves, ShelfRow, MAX_SHELF_NUM)
  BY <1>2, <1>3 DEF IsTable, Dense
<1>. QED
  BY <1>1, <1>4 DEF Init, Inv, ConnState

\* The UPDATE of a whole row, of a column, or of nothing keeps a table a table.
LEMMA UpdateEffect ==
  ASSUME NEW Row, NEW limit, NEW tbl, IsTable(tbl, Row, limit), NEW updated,
         IsTable(updated, Row, limit), NEW new, conn \in ConnState, NEW op \in Ops,
         UpdateStatement(tbl, new, updated, op)
  PROVE  /\ IsTable(new, Row, limit)
         /\ conn' \in ConnState
         /\ reply' \in Reply
         /\ reply'.op = op
         /\ new \in {tbl, updated}
<1>1. PICK st \in Statement(conn) :
        /\ new = IF Executed(st) THEN updated ELSE tbl
        /\ conn' = st.conn
        /\ reply' = Answer(op, IF Ok(st) THEN "r_success" ELSE "r_failed", NON_SENSE_INT)
  BY DEF UpdateStatement
<1>2. st.conn \in ConnState
  BY StatementOutcome
<1>3. reply' \in Reply /\ reply'.op = op
  BY <1>1, AnswerType DEF NON_SENSE_INT
<1>. QED
  BY <1>1, <1>2, <1>3

\* Setting "cleaned" to a legal value keeps a table a table.
LEMMA SetCleanedTable ==
  /\ \A S, c : /\ IsTable(books, BookRow, MAX_BOOK_NUM)
               /\ c \in {BOOK_AVL, BOOK_DEL, BOOK_UNSORTED}
               => IsTable(SetCleaned(books, S, c), BookRow, MAX_BOOK_NUM)
  /\ \A S, c : /\ IsTable(shelves, ShelfRow, MAX_SHELF_NUM)
               /\ c \in {SHELF_AVL, SHELF_DEL}
               => IsTable(SetCleaned(shelves, S, c), ShelfRow, MAX_SHELF_NUM)
<1>1. ASSUME NEW S, NEW c \in {BOOK_AVL, BOOK_DEL, BOOK_UNSORTED},
             IsTable(books, BookRow, MAX_BOOK_NUM)
      PROVE  IsTable(SetCleaned(books, S, c), BookRow, MAX_BOOK_NUM)
  <2>1. \A k \in DOMAIN books : [books[k] EXCEPT !.cleaned = c] \in BookRow
    BY <1>1 DEF IsTable, BookRow
  <2>. QED
    BY <1>1, <2>1 DEF IsTable, SetCleaned, Dense
<1>2. ASSUME NEW S, NEW c \in {SHELF_AVL, SHELF_DEL},
             IsTable(shelves, ShelfRow, MAX_SHELF_NUM)
      PROVE  IsTable(SetCleaned(shelves, S, c), ShelfRow, MAX_SHELF_NUM)
  <2>1. \A k \in DOMAIN shelves : [shelves[k] EXCEPT !.cleaned = c] \in ShelfRow
    BY <1>2 DEF IsTable, ShelfRow
  <2>. QED
    BY <1>2, <2>1 DEF IsTable, SetCleaned, Dense
<1>. QED
  BY <1>1, <1>2

\* Every request, and every loss of the connection, keeps the invariant.
LEMMA StepInv == Inv /\ [Next]_vars => Inv'
<1> SUFFICES ASSUME Inv, [Next]_vars PROVE Inv'
  OBVIOUS
<1> USE CapacityAssumption
<1>1. ASSUME NEW row \in BookEntry, srvdb_book_insert(row) PROVE Inv'
  <2>1. row \in BookRow /\ "insert" \in Ops
    BY DEF BookEntry, Ops
  <2>2. IsTable(books', BookRow, MAX_BOOK_NUM) /\ conn' \in ConnState /\ reply' \in Reply
    BY <1>1, <2>1, InsertRowEffect DEF srvdb_book_insert, Inv
  <2>. QED
    BY <1>1, <2>2 DEF srvdb_book_insert, Inv
<1>2. ASSUME NEW row \in ShelfEntry, srvdb_shelf_build(row) PROVE Inv'
  <2>1. row \in ShelfRow /\ "build" \in Ops
    BY DEF ShelfEntry, Ops
  <2>2. IsTable(shelves', ShelfRow, MAX_SHELF_NUM) /\ conn' \in ConnState /\ reply' \in Reply
    BY <1>2, <2>1, InsertRowEffect DEF srvdb_shelf_build, Inv
  <2>. QED
    BY <1>2, <2>2 DEF srvdb_shelf_build, Inv
<1>3. ASSUME NEW s, NEW b, srvdb_book_delete(s, b) PROVE Inv'
  <2> DEFINE S == IF BulkRequest(s, b) THEN RowsOn(s) ELSE {b}
  <2>1. IsTable(SetCleaned(books, S, BOOK_DEL), BookRow, MAX_BOOK_NUM) /\ "delete" \in Ops
    BY SetCleanedTable DEF Inv, Ops
  <2>2. IsTable(books', BookRow, MAX_BOOK_NUM) /\ conn' \in ConnState /\ reply' \in Reply
    BY <1>3, <2>1, UpdateEffect DEF srvdb_book_delete, Inv
  <2>. QED
    BY <1>3, <2>2 DEF srvdb_book_delete, Inv
<1>4. ASSUME NEW s, NEW b, NEW row \in BookEntry, srvdb_book_update(s, b, row) PROVE Inv'
  <2> DEFINE upd == IF BulkRequest(s, b)
                    THEN SetCleaned(books, RowsOn(s), BOOK_UNSORTED)
                    ELSE [k \in DOMAIN books |-> IF k = b THEN row ELSE books[k]]
  <2>1. IsTable(SetCleaned(books, RowsOn(s), BOOK_UNSORTED), BookRow, MAX_BOOK_NUM)
    BY SetCleanedTable DEF Inv
  <2>2. IsTable([k \in DOMAIN books |-> IF k = b THEN row ELSE books[k]], BookRow, MAX_BOOK_NUM)
    BY DEF Inv, IsTable, Dense, BookEntry
  <2>3. IsTable(upd, BookRow, MAX_BOOK_NUM) /\ "update" \in Ops
    BY <2>1, <2>2 DEF Ops
  <2>4. UpdateStatement(books, books', upd, "update") /\ UNCHANGED shelves
    BY <1>4 DEF srvdb_book_update
  <2>5. IsTable(books', BookRow, MAX_BOOK_NUM) /\ conn' \in ConnState /\ reply' \in Reply
    BY <2>3, <2>4, UpdateEffect DEF Inv
  <2>. QED
    BY <2>4, <2>5 DEF Inv
<1>5. ASSUME NEW s, srvdb_shelf_remove(s) PROVE Inv'
  <2>1. IsTable(SetCleaned(shelves, {s}, SHELF_DEL), ShelfRow, MAX_SHELF_NUM) /\ "remove" \in Ops
    BY SetCleanedTable DEF Inv, Ops
  <2>2. IsTable(shelves', ShelfRow, MAX_SHELF_NUM) /\ conn' \in ConnState /\ reply' \in Reply
    BY <1>5, <2>1, UpdateEffect DEF srvdb_shelf_remove, Inv
  <2>. QED
    BY <1>5, <2>2 DEF srvdb_shelf_remove, Inv
<1>6. CASE Lookup
  <2>1. PICK st \in Statement(conn) :
          /\ conn' = st.conn
          /\ reply' = Answer("find", IF Ok(st) THEN "r_success" ELSE "r_failed", NON_SENSE_INT)
    BY <1>6 DEF Lookup
  <2>2. conn' \in ConnState
    BY <2>1, StatementOutcome DEF Inv
  <2>3. reply' \in Reply
    BY <2>1, AnswerType DEF Ops, NON_SENSE_INT
  <2>. QED
    BY <1>6, <2>2, <2>3 DEF Lookup, Inv
<1>7. CASE MySqlTimeout
  <2>1. reply' \in Reply
    BY <1>7, AnswerType DEF MySqlTimeout, Ops, NON_SENSE_INT
  <2>. QED
    BY <1>7, <2>1 DEF MySqlTimeout, IdleTimeout, ConnState, Inv
<1>8. CASE UNCHANGED vars
  BY <1>8 DEF vars, Inv
<1>. QED
  BY <1>1, <1>2, <1>3, <1>4, <1>5, <1>6, <1>7, <1>8 DEF Next

\* The inductive invariant holds in every reachable state.
LEMMA SpecInv == Spec => []Inv
<1>. QED
  BY InitInv, StepInv, PTL DEF Spec

\* Type correctness of both tables for every capacity: in particular no row
\* is ever numbered beyond it (srvdb_book_insert, srvdb_shelf_build).
THEOREM TypeCorrect == Spec => []TypeOK
<1>1. Inv => TypeOK
  BY DEF Inv, IsTable, TypeOK, BookNo, ShelfNo
<1>. QED
  BY <1>1, SpecInv, PTL

\* The numbers of both tables have no gaps, whatever statements fail.
THEOREM DenseNumbers == Spec => []NumbersDense
<1>1. Inv => NumbersDense
  BY DEF Inv, IsTable, NumbersDense
<1>. QED
  BY <1>1, SpecInv, PTL

-----------------------------------------------------------------------------
\* A row in use, written under a number that no row in use has, is the only
\* change to the rows in use.
LEMMA PutLive ==
  ASSUME NEW tbl, NEW n, n \notin Live(tbl), NEW row, row.cleaned # BOOK_DEL
  PROVE  /\ Live(Put(tbl, n, row)) = Live(tbl) \cup {n}
         /\ \A k \in Live(tbl) : /\ k \in DOMAIN Put(tbl, n, row)
                                 /\ Put(tbl, n, row)[k] = tbl[k]
<1>1. DOMAIN Put(tbl, n, row) = DOMAIN tbl \cup {n}
  BY DEF Put
<1>2. Put(tbl, n, row)[n] = row
  BY DEF Put
<1>3. \A k \in DOMAIN tbl \ {n} : Put(tbl, n, row)[k] = tbl[k]
  BY DEF Put
<1>. QED
  BY <1>1, <1>2, <1>3 DEF Live

\* What the two requests that place a row do, in terms of the rows in use.
LEMMA BuildEffect ==
  ASSUME Inv, NEW row \in ShelfEntry, srvdb_shelf_build(row)
  PROVE  /\ reply'.op = "build"
         /\ \/ shelves' = shelves /\ reply'.response = "r_failed"
            \/ \E n \in ShelfNo :
                 /\ n \notin Live(shelves)
                 /\ Live(shelves') = Live(shelves) \cup {n}
                 /\ \A k \in Live(shelves) : k \in DOMAIN shelves' /\ shelves'[k] = shelves[k]
                 /\ reply'.response = "r_success" => reply'.no = n
<1>1. row \in ShelfRow /\ row.cleaned # BOOK_DEL /\ "build" \in Ops
  BY DEF ShelfEntry, Ops, SHELF_AVL, BOOK_DEL
<1>2. /\ reply'.op = "build"
      /\ \/ shelves' = shelves /\ reply'.response = "r_failed"
         \/ \E n \in 1..MAX_SHELF_NUM :
              /\ n \notin Live(shelves)
              /\ shelves' = Put(shelves, n, row)
              /\ reply'.response = "r_success" => reply'.no = n
  BY <1>1, InsertRowEffect, CapacityAssumption DEF srvdb_shelf_build, Inv
<1>. QED
  BY <1>1, <1>2, PutLive DEF ShelfNo

LEMMA InsertEffect ==
  ASSUME Inv, NEW row \in BookEntry, srvdb_book_insert(row)
  PROVE  /\ reply'.op = "insert"
         /\ \/ books' = books /\ reply'.response = "r_failed"
            \/ \E n \in BookNo :
                 /\ n \notin Live(books)
                 /\ Live(books') = Live(books) \cup {n}
                 /\ \A k \in Live(books) : k \in DOMAIN books' /\ books'[k] = books[k]
                 /\ reply'.response = "r_success" => reply'.no = n
<1>1. row \in BookRow /\ row.cleaned # BOOK_DEL /\ "insert" \in Ops
  BY DEF BookEntry, Ops, BOOK_AVL, BOOK_DEL
<1>2. /\ reply'.op = "insert"
      /\ \/ books' = books /\ reply'.response = "r_failed"
         \/ \E n \in 1..MAX_BOOK_NUM :
              /\ n \notin Live(books)
              /\ books' = Put(books, n, row)
              /\ reply'.response = "r_success" => reply'.no = n
  BY <1>1, InsertRowEffect, CapacityAssumption DEF srvdb_book_insert, Inv
<1>. QED
  BY <1>1, <1>2, PutLive DEF BookNo

\* An UPDATE takes effect or it does not; its answer names its request.
LEMMA UpdateAnswer ==
  ASSUME NEW tbl, NEW new, NEW updated, NEW op, UpdateStatement(tbl, new, updated, op)
  PROVE  reply'.op = op /\ (new = tbl \/ new = updated)
<1>1. PICK st \in Statement(conn) :
        /\ new = IF Executed(st) THEN updated ELSE tbl
        /\ reply' = Answer(op, IF Ok(st) THEN "r_success" ELSE "r_failed", NON_SENSE_INT)
  BY DEF UpdateStatement
<1>2. reply'.op = op
  BY <1>1 DEF Answer
<1>. QED
  BY <1>1, <1>2

\* The other steps never answer as an insert or a build does, and only
\* srvdb_shelf_remove among them touches the shelves.
LEMMA OtherSteps ==
  ASSUME \/ \E s, b : srvdb_book_delete(s, b)
         \/ \E s, b, row : srvdb_book_update(s, b, row)
         \/ Lookup
         \/ MySqlTimeout
  PROVE  /\ reply'.op \in {"delete", "update", "find", "none"}
         /\ shelves' = shelves
<1>1. ASSUME NEW s, NEW b, srvdb_book_delete(s, b)
      PROVE  reply'.op = "delete" /\ shelves' = shelves
  BY <1>1, UpdateAnswer DEF srvdb_book_delete
<1>2. ASSUME NEW s, NEW b, NEW row, srvdb_book_update(s, b, row)
      PROVE  reply'.op = "update" /\ shelves' = shelves
  BY <1>2, UpdateAnswer DEF srvdb_book_update
<1>3. ASSUME Lookup PROVE reply'.op = "find" /\ shelves' = shelves
  <2>1. PICK st \in Statement(conn) :
          reply' = Answer("find", IF Ok(st) THEN "r_success" ELSE "r_failed", NON_SENSE_INT)
    BY <1>3 DEF Lookup
  <2>2. reply'.op = "find"
    BY <2>1 DEF Answer
  <2>. QED
    BY <1>3, <2>2 DEF Lookup
<1>4. ASSUME MySqlTimeout PROVE reply'.op = "none" /\ shelves' = shelves
  BY <1>4 DEF MySqlTimeout, Answer
<1>. QED
  BY <1>1, <1>2, <1>3, <1>4

\* One request places at most one row and never touches another row in use,
\* whatever happens to the connection between its statements.
THEOREM InsertSafe == Spec => InsertPlacesOneRow
<1> DEFINE A == /\ reply'.op = "insert" => PlacesOneRow(books)
                /\ reply'.op = "build" => PlacesOneRow(shelves)
<1>1. Inv /\ [Next]_vars => [A]_vars
  <2> SUFFICES ASSUME Inv, Next PROVE A
    OBVIOUS
  <2>1. ASSUME NEW row \in BookEntry, srvdb_book_insert(row) PROVE A
    <3>1. PlacesOneRow(books) /\ reply'.op = "insert"
      BY <2>1, InsertEffect DEF PlacesOneRow, NewlyLive, Live
    <3>. QED
      BY <3>1
  <2>2. ASSUME NEW row \in ShelfEntry, srvdb_shelf_build(row) PROVE A
    <3>1. PlacesOneRow(shelves) /\ reply'.op = "build"
      BY <2>2, BuildEffect DEF PlacesOneRow, NewlyLive, Live
    <3>. QED
      BY <3>1
  <2>3. ASSUME NEW s, srvdb_shelf_remove(s) PROVE A
    <3>1. reply'.op = "remove"
      BY <2>3, UpdateAnswer DEF srvdb_shelf_remove
    <3>. QED
      BY <3>1
  <2>4. CASE \/ \E s, b : srvdb_book_delete(s, b)
             \/ \E s, b, row : srvdb_book_update(s, b, row)
             \/ Lookup
             \/ MySqlTimeout
    BY <2>4, OtherSteps
  <2>. QED
    BY <2>1, <2>2, <2>3, <2>4 DEF Next
<1>. QED
  BY <1>1, SpecInv, PTL DEF Spec, InsertPlacesOneRow

-----------------------------------------------------------------------------
\* A non-empty set of numbers has a smallest one, so SELECT MIN returns NULL
\* only when nothing matches.
LEMMA MinExists ==
  ASSUME NEW S, S \subseteq Nat, SelectMin(S) = {}
  PROVE  S = {}
<1> SUFFICES ASSUME S # {} PROVE FALSE
  OBVIOUS
<1> DEFINE R == OpToRel(<, Nat)
<1>1. PICK x \in S : \A y \in S : <<y, x>> \notin R
  <2>1. IsWellFoundedOn(R, Nat)
    BY NatLessThanWellFounded
  <2> HIDE DEF R
  <2>. QED
    BY <2>1, WFMin, Zenon
<1>2. \A y \in S : ~(y < x)
  BY <1>1, Zenon DEF OpToRel
<1>. QED
  BY <1>2 DEF SelectMin

\* AppendRow refuses for lack of room only on a connection that was up, and
\* only when the table has a row under every number.
LEMMA AppendRefused ==
  ASSUME NEW Row, NEW limit \in Nat \ {0}, NEW cur, IsTable(cur, Row, limit),
         NEW new, NEW row, NEW c \in ConnState, NEW op, NEW cause,
         AppendRow(cur, new, c, op, limit, row, cause), Refused'
  PROVE  c = "up" /\ new = cur /\ DOMAIN cur = 1..limit /\ reply'.cause = cause
<1>0. \A r, n : Answer(op, r, n).error_text = ""
  BY DEF Answer
<1>1. PICK max \in Statement(c) :
        /\ Ok(max)
        /\ \E res \in get_simple_result(max.conn) :
             LET top == IF res.got = "row" THEN SelectMax(DOMAIN cur) ELSE {}
             IN  \/ /\ \E m \in top : AtCapacity(m, limit)
                    /\ new = cur
                    /\ conn' = res.conn
                    /\ reply' = Refusal(op, cause)
                 \/ /\ \A m \in top : ~AtCapacity(m, limit)
                    /\ \E n \in IF top = {} THEN {1} ELSE {NextNumber(m) : m \in top} :
                         InsertInto(cur, new, res.conn, op, n, row)
  BY <1>0 DEF AppendRow, Refused
<1>2. c = "up"
  BY <1>1, StatementOutcome
<1>3. ASSUME NEW d, NEW n, InsertInto(cur, new, d, op, n, row) PROVE FALSE
  BY <1>0, <1>3 DEF InsertInto, Refused
<1>4. new = cur /\ reply' = Refusal(op, cause) /\ \E m \in DOMAIN cur : AtCapacity(m, limit)
  BY <1>1, <1>3 DEF SelectMax
<1>5. DOMAIN cur = 1..limit
  <2>1. PICK m \in DOMAIN cur : m \in 1..limit /\ m >= limit
    BY <1>4 DEF IsTable, AtCapacity
  <2>2. m = limit
    BY <2>1
  <2>. QED
    BY <2>1, <2>2, Zenon DEF IsTable, Dense
<1>. QED
  BY <1>2, <1>4, <1>5 DEF Refusal

\* A refused request has found a row under every number; when no error that
\* leaves a connection up made it go on to AppendRow, it has also seen that no
\* number is deleted: a connection lost on the way is dead, so that AppendRow
\* cannot refuse.
LEMMA InsertRefused ==
  ASSUME NEW Row, NEW limit \in Nat \ {0}, NEW tbl, IsTable(tbl, Row, limit),
         NEW new, NEW row \in Row, conn \in ConnState, NEW op \in Ops,
         InsertRow(tbl, new, op, limit, row), Refused'
  PROVE  /\ DOMAIN new = 1..limit
         /\ reply'.cause \notin {CR_SERVER_GONE_ERROR, ER_DATA_TOO_LONG} => Live(new) = 1..limit
<1>1. PICK min \in Statement(conn) :
        \/ /\ ~Ok(min)
           /\ AppendRow(tbl, new, min.conn, op, limit, row, min.errno)
        \/ /\ Ok(min)
           /\ \E res \in get_simple_result(min.conn) :
                LET free == IF res.got = "row" THEN SelectMin(Deleted(tbl)) ELSE {}
                IN  \/ free = {} /\ AppendRow(tbl, new, res.conn, op, limit, row, 0)
                    \/ \E n \in free : ReuseRow(tbl, new, res.conn, op, n, limit, row)
  BY DEF InsertRow
<1>2. min.conn \in ConnState
  BY StatementOutcome
<1>3. ASSUME NEW c \in ConnState, NEW st \in Statement(c), ~Ok(st), NEW cur,
             IsTable(cur, Row, limit), AppendRow(cur, new, st.conn, op, limit, row, st.errno)
      PROVE  /\ DOMAIN new = 1..limit
             /\ reply'.cause \in {CR_SERVER_GONE_ERROR, ER_DATA_TOO_LONG}
  <2>1. /\ st.conn \in ConnState
        /\ st.errno \in {ER_DATA_TOO_LONG, CR_SERVER_LOST, CR_SERVER_GONE_ERROR}
        /\ st.errno = CR_SERVER_LOST => st.conn = "dead"
    BY <1>3, StatementOutcome DEF Ok
  <2>2. st.conn = "up" /\ DOMAIN new = 1..limit /\ reply'.cause = st.errno
    BY <1>3, <2>1, AppendRefused
  <2>. QED
    BY <2>1, <2>2
<1>4. CASE ~Ok(min)
  BY <1>1, <1>3, <1>4
<1>5. CASE Ok(min)
  <2>1. PICK res \in get_simple_result(min.conn) :
          LET free == IF res.got = "row" THEN SelectMin(Deleted(tbl)) ELSE {}
          IN  \/ free = {} /\ AppendRow(tbl, new, res.conn, op, limit, row, 0)
              \/ \E n \in free : ReuseRow(tbl, new, res.conn, op, n, limit, row)
    BY <1>1, <1>5
  <2>2. /\ res.conn \in ConnState
        /\ res.got # "row" => res.conn = "dead"
    BY <1>2, FetchOutcome
  <2>3. ASSUME NEW n \in SelectMin(Deleted(tbl)),
               ReuseRow(tbl, new, res.conn, op, n, limit, row)
        PROVE  /\ DOMAIN new = 1..limit
               /\ reply'.cause \in {CR_SERVER_GONE_ERROR, ER_DATA_TOO_LONG}
    <3>1. PICK upd \in Statement(res.conn) :
            \/ Ok(upd) /\ reply' = Answer(op, "r_success", n)
            \/ /\ ~Ok(upd)
               /\ AppendRow(IF Executed(upd) THEN Put(tbl, n, row) ELSE tbl, new,
                            upd.conn, op, limit, row, upd.errno)
      BY <2>3 DEF ReuseRow
    <3>2. ~Ok(upd)
      <4>1. Answer(op, "r_success", n).error_text # "full"
        BY DEF Answer
      <4>. QED
        BY <3>1, <4>1 DEF Refused
    <3>3. n \in DOMAIN tbl /\ n \in 1..limit
      BY DEF SelectMin, Deleted, IsTable
    <3>4. IsTable(Put(tbl, n, row), Row, limit)
      BY <3>3, PutTable
    <3>. QED
      BY <1>3, <2>2, <3>1, <3>2, <3>4
  <2>4. ASSUME IF res.got = "row" THEN SelectMin(Deleted(tbl)) = {} ELSE TRUE,
               AppendRow(tbl, new, res.conn, op, limit, row, 0)
        PROVE  Live(new) = 1..limit /\ DOMAIN new = 1..limit
    <3>1. res.conn = "up" /\ new = tbl /\ DOMAIN tbl = 1..limit
      BY <2>2, <2>4, AppendRefused
    <3>2. SelectMin(Deleted(tbl)) = {} /\ Deleted(tbl) \subseteq Nat
      BY <2>2, <2>4, <3>1 DEF Deleted
    <3>3. Deleted(tbl) = {}
      BY <3>2, MinExists
    <3>. QED
      BY <3>1, <3>3 DEF Deleted, Live
  <2>. QED
    BY <2>1, <2>3, <2>4
<1>. QED
  BY <1>4, <1>5

\* Whenever a request is refused for lack of room every number has a row, and
\* every number is in use unless the request went on after an error that left
\* it a connection, for every capacity and whatever statements fail.
THEOREM RefusalMeansFull == Spec => []RefusedOnlyWhenFull
<1>0. \A op, r, n : Answer(op, r, n).error_text = ""
  BY DEF Answer
<1>1. Init => RefusedOnlyWhenFull
  BY <1>0 DEF Init, RefusedOnlyWhenFull, Refused
<1>2. Inv /\ RefusedOnlyWhenFull /\ [Next]_vars => RefusedOnlyWhenFull'
  <2> SUFFICES ASSUME Inv, RefusedOnlyWhenFull, [Next]_vars, Refused' PROVE RefusedOnlyWhenFull'
    BY DEF RefusedOnlyWhenFull
  <2> USE CapacityAssumption
  <2>1. ASSUME NEW row \in BookEntry, srvdb_book_insert(row) PROVE RefusedOnlyWhenFull'
    <3>1. row \in BookRow /\ "insert" \in Ops
      BY DEF BookEntry, Ops
    <3>2. /\ DOMAIN books' = 1..MAX_BOOK_NUM
          /\ reply'.cause \notin {CR_SERVER_GONE_ERROR, ER_DATA_TOO_LONG}
             => Live(books') = 1..MAX_BOOK_NUM
      BY <2>1, <3>1, InsertRefused DEF srvdb_book_insert, Inv
    <3>3. reply'.op = "insert"
      BY <2>1, InsertEffect
    <3>. QED
      BY <3>2, <3>3 DEF RefusedOnlyWhenFull, NoRoom, BookNo, Live
  <2>2. ASSUME NEW row \in ShelfEntry, srvdb_shelf_build(row) PROVE RefusedOnlyWhenFull'
    <3>1. row \in ShelfRow /\ "build" \in Ops
      BY DEF ShelfEntry, Ops
    <3>2. /\ DOMAIN shelves' = 1..MAX_SHELF_NUM
          /\ reply'.cause \notin {CR_SERVER_GONE_ERROR, ER_DATA_TOO_LONG}
             => Live(shelves') = 1..MAX_SHELF_NUM
      BY <2>2, <3>1, InsertRefused DEF srvdb_shelf_build, Inv
    <3>3. reply'.op = "build"
      BY <2>2, BuildEffect
    <3>. QED
      BY <3>2, <3>3 DEF RefusedOnlyWhenFull, NoRoom, ShelfNo, Live
  <2>3. ASSUME NEW tbl, NEW new, NEW updated, NEW op, UpdateStatement(tbl, new, updated, op)
        PROVE  FALSE
    BY <1>0, <2>3 DEF UpdateStatement, Refused
  <2>4. CASE Lookup
    BY <1>0, <2>4 DEF Lookup, Refused
  <2>5. CASE MySqlTimeout
    BY <1>0, <2>5 DEF MySqlTimeout, Refused
  <2>6. ASSUME NEW s, NEW b, srvdb_book_delete(s, b) PROVE FALSE
    BY <2>3, <2>6 DEF srvdb_book_delete
  <2>7. ASSUME NEW s, NEW b, NEW row, srvdb_book_update(s, b, row) PROVE FALSE
    BY <2>3, <2>7 DEF srvdb_book_update
  <2>8. ASSUME NEW s, srvdb_shelf_remove(s) PROVE FALSE
    BY <2>3, <2>8 DEF srvdb_shelf_remove
  <2>9. CASE UNCHANGED vars
    BY <2>9 DEF vars, RefusedOnlyWhenFull, Refused, NoRoom, Live
  <2>. QED
    BY <2>1, <2>2, <2>4, <2>5, <2>6, <2>7, <2>8, <2>9 DEF Next
<1>. QED
  BY <1>1, <1>2, SpecInv, PTL DEF Spec

-----------------------------------------------------------------------------
\* The shelves table implements the abstract pool of numbers.
THEOREM ShelvesRefineIdPool == Spec => ShelvesImplementIdPool
<1> DEFINE Live0 == Live(shelves)
           Grant0 == IF reply.op = "build" /\ reply.response = "r_success"
                     THEN reply.no ELSE NON_SENSE_INT
<1>1. Init => ShelfNumbers!Init
  <2> SUFFICES ASSUME Init PROVE ShelfNumbers!Init
    OBVIOUS
  <2>1. DOMAIN shelves = {}
    BY DEF Init
  <2>2. reply.op = "none"
    BY DEF Init, Answer
  <2>. QED
    BY <2>1, <2>2 DEF ShelfNumbers!Init, Live
<1>2. Inv /\ [Next]_vars => [ShelfNumbers!Next]_<<Live0, Grant0>>
  <2> SUFFICES ASSUME Inv, [Next]_vars PROVE [ShelfNumbers!Next]_<<Live0, Grant0>>
    OBVIOUS
  <2>1. ASSUME NEW row \in ShelfEntry, srvdb_shelf_build(row) PROVE ShelfNumbers!Next
    BY <2>1, BuildEffect
    DEF ShelfNumbers!Next, ShelfNumbers!Acquire, ShelfNumbers!Refuse
  <2>2. ASSUME NEW s \in ShelfNo, srvdb_shelf_remove(s) PROVE ShelfNumbers!Next
    <3>1. /\ shelves' \in {shelves, SetCleaned(shelves, {s}, SHELF_DEL)}
          /\ reply'.op = "remove"
      BY <2>2, UpdateAnswer DEF srvdb_shelf_remove
    <3>2. \A k \in DOMAIN shelves : shelves[k] \in ShelfRow
      BY DEF Inv, IsTable
    <3>3. Live(SetCleaned(shelves, {s}, SHELF_DEL)) = Live(shelves) \ {s}
      BY <3>2 DEF SetCleaned, Live, SHELF_DEL, BOOK_DEL, ShelfRow
    <3>. QED
      BY <3>1, <3>3 DEF ShelfNumbers!Next, ShelfNumbers!Release, ShelfNumbers!Refuse
  <2>3. ASSUME NEW row, srvdb_book_insert(row), row \in BookEntry PROVE ShelfNumbers!Next
    <3>1. reply'.op = "insert" /\ shelves' = shelves
      BY <2>3, InsertEffect DEF srvdb_book_insert
    <3>. QED
      BY <3>1 DEF ShelfNumbers!Next, ShelfNumbers!Refuse
  <2>4. CASE \/ \E s, b : srvdb_book_delete(s, b)
             \/ \E s, b, row : srvdb_book_update(s, b, row)
             \/ Lookup
             \/ MySqlTimeout
    BY <2>4, OtherSteps DEF ShelfNumbers!Next, ShelfNumbers!Refuse
  <2>5. CASE UNCHANGED vars
    BY <2>5 DEF vars
  <2>. QED
    BY <2>1, <2>2, <2>3, <2>4, <2>5 DEF Next
<1>. QED
  BY <1>1, <1>2, SpecInv, PTL DEF Spec, ShelvesImplementIdPool, ShelfNumbers!Spec
=============================================================================
