--------------------------- MODULE BookPagesProofs ---------------------------
(***************************************************************************)
(* Proofs about BookPages, for any number of books and any height of the   *)
(* pages.                                                                  *)
(***************************************************************************)
EXTENDS BookPages, TLAPS

-----------------------------------------------------------------------------
(* The inductive invariant.                                                *)

\* The positions in the file: everything in front of the end is there.
IsCache(c) ==
  /\ c = [file |-> c.file, dbm_pos |-> c.dbm_pos, search_pos |-> c.search_pos]
  /\ c.dbm_pos \in Nat /\ c.search_pos \in 0..c.dbm_pos
  /\ 0 .. c.dbm_pos - 1 \subseteq DOMAIN c.file /\ DOMAIN c.file \subseteq Nat
  /\ c.file \in [DOMAIN c.file -> Entry]

Page == [mode : {"browse", "collect", "search"}, shelf : 0..MAX_SHELF_NUM, titles : Seq(BookNo),
         row : Nat, first_line : Int, local_book : Entry]

\* The parts of the types that the argument needs.
Shape ==
  /\ books \in [BookNo -> Row]
  /\ IsCache(cache)
  /\ local_shelfno \in 0..MAX_SHELF_NUM /\ local_bookno \in 0..MAX_BOOK_NUM
  /\ book_page_cnt \in Nat /\ bcollect \in 0..1 /\ no_next_page_flag \in 0..1
  /\ steady \subseteq Matches(query, books)
  /\ Open => screen \in Page

\* The slider is on a row of the page, and the screen shows it there if it has
\* more than one row, or the page at most two.
Slider ==
  Open => /\ screen.row < Len(screen.titles) /\ Len(screen.titles) <= PAD_HIGHT
          /\ PAD_BOXED_HIGHT > 1 \/ PAD_HIGHT <= 2 => SliderOnRow

\* What the static variables remember of the listing.
Purpose ==
  /\ local_shelfno # NON_SENSE_INT =>
       query = QueryOf("browse", local_shelfno, bcollect, local_shelfno)
  /\ ListingOfQuery

\* The books in front of the end ascend, and the number recorded is behind them.
Ascends(c, bookno) ==
  /\ \A i, j \in 0 .. c.dbm_pos - 1 : i < j => c.file[i].code < c.file[j].code
  /\ \A i \in 0 .. c.dbm_pos - 1 : c.file[i].code <= bookno

Listed(c) == {c.file[i].code : i \in 0 .. c.dbm_pos - 1}

\* The page on the screen is the one whose number the static variable has.
AtPage ==
  /\ screen = Closed => cache.search_pos = book_page_cnt * PAD_HIGHT
  /\ Open =>
       /\ cache.search_pos = book_page_cnt * PAD_HIGHT + Len(screen.titles)
       /\ Len(screen.titles) <= PAD_HIGHT
       /\ Len(screen.titles) < PAD_HIGHT => cache.search_pos = cache.dbm_pos
       /\ \A i \in 1..Len(screen.titles) :
            screen.titles[i] = cache.file[book_page_cnt * PAD_HIGHT + i - 1].code
       /\ screen.local_book.code = screen.titles[screen.row + 1]

\* A book that belonged to the listing all along is listed or still to come, and
\* is listed when the last page is known.
Covers ==
  /\ \A b \in steady : b \in Listed(cache) \/ b > local_bookno
  /\ no_next_page_flag = 1 => steady \subseteq Listed(cache)

ListingInv ==
  /\ Shape /\ Slider /\ Purpose
  /\ aligned => Ascends(cache, local_bookno) /\ AtPage /\ Covers

-----------------------------------------------------------------------------
(* The positions of pages.                                                 *)

\* A page has a row.
LEMMA Rows == PAD_HIGHT \in Nat \ {0}
  BY PagesAssumption DEF PAD_HIGHT

\* A position within page k, which ends behind it, leads back to its start, and
\* its start to that of the page before.
LEMMA PageOf ==
  ASSUME NEW k \in Nat, NEW n \in 1..PAD_HIGHT
  PROVE  LET pos == k * PAD_HIGHT + n
         IN  (IF pos > 0 /\ pos % PAD_HIGHT = 0 THEN pos \div PAD_HIGHT - 1 ELSE pos \div PAD_HIGHT)
             * PAD_HIGHT = k * PAD_HIGHT
<1> DEFINE H == PAD_HIGHT
           pos == k * H + n
<1>1. H \in Nat /\ H > 0 /\ k * H \in Nat /\ pos \in Nat /\ pos > 0
  BY Rows
<1>2. CASE n = H
  <2>1. pos = (k + 1) * H + 0
    BY <1>1, <1>2
  <2>2. pos \div H = k + 1 /\ pos % H = 0
    BY <1>1, <2>1
  <2>. QED
    BY <1>1, <2>2
<1>3. CASE n # H
  <2>1. n < H
    BY <1>1, <1>3
  <2>2. pos \div H = k /\ pos % H = n
    BY <1>1, <2>1
  <2>. QED
    BY <1>1, <2>2
<1>. QED
  BY <1>2, <1>3

\* Back from behind a page to its start.
LEMMA BackFromPage ==
  ASSUME NEW c, IsCache(c), NEW k \in Nat, NEW n \in 1..PAD_HIGHT, c.search_pos = k * PAD_HIGHT + n
  PROVE  LET d == clidb_book_backward_mode(c)
         IN  IsCache(d) /\ d.file = c.file /\ d.dbm_pos = c.dbm_pos /\ d.search_pos = k * PAD_HIGHT
<1> DEFINE d == clidb_book_backward_mode(c)
           pos == k * PAD_HIGHT + n
           factor == IF pos > 0 /\ pos % PAD_HIGHT = 0 THEN pos \div PAD_HIGHT - 1 ELSE pos \div PAD_HIGHT
<1>1. factor * PAD_HIGHT = k * PAD_HIGHT
  BY PageOf
<1>2. d = [file |-> c.file, dbm_pos |-> c.dbm_pos, search_pos |-> factor * PAD_HIGHT]
  BY DEF clidb_book_backward_mode, IsCache
<1>3. k * PAD_HIGHT \in Nat /\ k * PAD_HIGHT <= c.search_pos
  BY Rows
<1> HIDE DEF d, factor
<1>. QED
  BY <1>1, <1>2, <1>3 DEF IsCache, d

\* Back from the start of a page to that of the page before, if there is one.
LEMMA BackFromStart ==
  ASSUME NEW c, IsCache(c), NEW k \in Nat, c.search_pos = k * PAD_HIGHT
  PROVE  LET d == clidb_book_backward_mode(c)
         IN  /\ IsCache(d) /\ d.file = c.file /\ d.dbm_pos = c.dbm_pos
             /\ d.search_pos = PageBefore(k) * PAD_HIGHT
<1>1. CASE k = 0
  <2>1. c.search_pos = 0 /\ PageBefore(k) * PAD_HIGHT = 0
    BY <1>1, Rows DEF PageBefore
  <2>2. clidb_book_backward_mode(c) =
          [file |-> c.file, dbm_pos |-> c.dbm_pos, search_pos |-> (0 \div PAD_HIGHT) * PAD_HIGHT]
    BY <2>1 DEF clidb_book_backward_mode, IsCache
  <2>3. (0 \div PAD_HIGHT) * PAD_HIGHT = 0
    BY Rows
  <2>. QED
    BY <2>1, <2>2, <2>3 DEF IsCache
<1>2. CASE k # 0
  <2>1. k - 1 \in Nat /\ PAD_HIGHT \in 1..PAD_HIGHT /\ c.search_pos = (k - 1) * PAD_HIGHT + PAD_HIGHT
    BY <1>2, Rows
  <2>2. PageBefore(k) = k - 1
    BY <1>2 DEF PageBefore
  <2>. QED
    BY <2>1, <2>2, BackFromPage
<1>. QED
  BY <1>1, <1>2

\* The start of the page that a position is in is not behind the position.
LEMMA Division ==
  ASSUME NEW p \in Nat, NEW h \in Nat, h > 0
  PROVE  /\ p \div h \in Nat /\ (p \div h) * h <= p
         /\ p > 0 /\ p % h = 0 => p \div h > 0
<1>1. p \div h \in Nat /\ (p \div h) * h <= p
  OBVIOUS
<1>2. p > 0 /\ p % h = 0 => p \div h > 0
  OBVIOUS
<1>. QED
  BY <1>1, <1>2

\* Back from anywhere.
LEMMA BackAnywhere ==
  ASSUME NEW c, IsCache(c)
  PROVE  LET d == clidb_book_backward_mode(c)
         IN  IsCache(d) /\ d.file = c.file /\ d.dbm_pos = c.dbm_pos
<1> DEFINE pos == c.search_pos
           factor == IF pos > 0 /\ pos % PAD_HIGHT = 0 THEN pos \div PAD_HIGHT - 1 ELSE pos \div PAD_HIGHT
<1>1. pos \in Nat /\ PAD_HIGHT \in Nat /\ PAD_HIGHT > 0 /\ c.dbm_pos \in Nat /\ pos <= c.dbm_pos
  BY Rows DEF IsCache
<1>2. factor \in Nat /\ factor * PAD_HIGHT <= pos
  <2> HIDE DEF pos
  <2>1. pos \div PAD_HIGHT \in Nat /\ (pos \div PAD_HIGHT) * PAD_HIGHT <= pos
    BY <1>1, Division
  <2>2. pos > 0 /\ pos % PAD_HIGHT = 0 => pos \div PAD_HIGHT > 0
    BY <1>1, Division
  <2>3. PICK q \in Nat : q = pos \div PAD_HIGHT
    BY <2>1
  <2>4. factor \in {q, q - 1} /\ factor \in Nat
    BY <2>2, <2>3
  <2>5. q * PAD_HIGHT <= pos /\ (q - 1) * PAD_HIGHT <= pos
    BY <1>1, <2>1, <2>3
  <2>. QED
    BY <2>4, <2>5
<1>3. clidb_book_backward_mode(c) = [file |-> c.file, dbm_pos |-> c.dbm_pos, search_pos |-> factor * PAD_HIGHT]
  BY DEF clidb_book_backward_mode, IsCache
<1>4. PICK n \in Nat : n = factor * PAD_HIGHT
  BY <1>1, <1>2
<1> HIDE DEF factor
<1>. QED
  BY <1>1, <1>2, <1>3, <1>4 DEF IsCache

-----------------------------------------------------------------------------
(* What the server answers, and what becomes of the file.                  *)

\* A function on 1..n is a sequence of n elements.
LEMMA Sequence ==
  ASSUME NEW T, NEW n \in Nat, NEW f \in [1..n -> T]
  PROVE  f \in Seq(T) /\ Len(f) = n /\ DOMAIN f = 1..n
  OBVIOUS

\* A page at most, in ascending order behind the number asked with; a book that
\* matches is among them, or behind the last of a full page.
LEMMA Answered ==
  ASSUME books \in [BookNo -> Row], NEW q, NEW start \in 0..MAX_BOOK_NUM,
         NEW a \in Answers(q, start)
  PROVE  /\ a.rows \in Seq(Entry) /\ Len(a.rows) <= PAD_HIGHT
         /\ \A i, j \in 1..Len(a.rows) : i < j => a.rows[i].code < a.rows[j].code
         /\ \A i \in 1..Len(a.rows) : a.rows[i].code > start
         /\ a.ok # "no" =>
              \A b \in Matches(q, books) :
                 b > start => \/ \E i \in 1..Len(a.rows) : a.rows[i].code = b
                              \/ Len(a.rows) = PAD_HIGHT /\ a.rows[Len(a.rows)].code < b
<1> DEFINE S == Following(Matches(q, books), start)
<1>1. S \subseteq BookNo /\ \A b \in S : b > start
  BY DEF Following, Matches
<1>2. \A b \in BookNo : EntryOf(b) \in Entry /\ EntryOf(b).code = b
  <2> TAKE b \in BookNo
  <2>1. books[b] \in Row
    OBVIOUS
  <2>2. books[b].shelfno \in 0..MAX_SHELF_NUM
    BY <2>1 DEF Row
  <2>. QED
    BY <2>2 DEF EntryOf, Entry
<1>3. PICK s \in FirstOf(S), k \in Nat :
        /\ k \in 0..Len(s)
        /\ \/ a = [ok |-> "yes", rows |-> [i \in 1..Len(s) |-> EntryOf(s[i])]] /\ k = Len(s)
           \/ a = [ok |-> "no", rows |-> SubSeq([i \in 1..Len(s) |-> EntryOf(s[i])], 1, k)]
  <2>1. \A f \in Found(q, start) : \E s \in FirstOf(S) : f = [i \in 1..Len(s) |-> EntryOf(s[i])]
    BY Zenon DEF Found
  <2>2. \A s \in FirstOf(S) : Len(s) \in Nat /\ Len([i \in 1..Len(s) |-> EntryOf(s[i])]) = Len(s)
    <3> TAKE s \in FirstOf(S)
    <3>1. PICK m \in 0..DEFAULT_FINDS : s \in [1..m -> S]
      BY DEF FirstOf, ListsOf
    <3>2. s \in Seq(S) /\ Len(s) = m /\ Len(s) \in Nat
      BY <3>1
    <3>. QED
      BY <3>2
  <2> HIDE DEF S
  <2>3. CASE \E f \in Found(q, start) : a = [ok |-> "yes", rows |-> f]
    <3>1. PICK f \in Found(q, start) : a = [ok |-> "yes", rows |-> f]
      BY <2>3, Zenon
    <3>2. PICK s \in FirstOf(S) : f = [i \in 1..Len(s) |-> EntryOf(s[i])]
      BY <2>1, Zenon
    <3>3. Len(s) \in Nat /\ Len(s) \in 0..Len(s)
      BY <2>2
    <3>. QED
      BY <3>1, <3>2, <3>3, Zenon
  <2>4. CASE \E f \in Found(q, start) : \E k \in 0..Len(f) : a = [ok |-> "no", rows |-> SubSeq(f, 1, k)]
    <3>1. PICK f \in Found(q, start) : \E k \in 0..Len(f) : a = [ok |-> "no", rows |-> SubSeq(f, 1, k)]
      BY <2>4, Zenon
    <3>2. PICK s \in FirstOf(S) : f = [i \in 1..Len(s) |-> EntryOf(s[i])]
      BY <2>1, Zenon
    <3>3. Len(f) = Len(s) /\ Len(s) \in Nat
      BY <2>2, <3>2, Zenon
    <3>4. PICK k \in 0..Len(s) : a = [ok |-> "no", rows |-> SubSeq(f, 1, k)]
      BY <3>1, <3>3, Zenon
    <3>5. k \in Nat
      BY <3>3
    <3>. QED
      BY <3>2, <3>4, <3>5, Zenon
  <2>. QED
    BY <2>3, <2>4, Zenon DEF Answers
<1>4. /\ s \in Seq(S) /\ Len(s) \in 0..DEFAULT_FINDS
      /\ \A i, j \in 1..Len(s) : i < j => s[i] < s[j]
      /\ \A b \in S : \/ \E i \in 1..Len(s) : s[i] = b
                      \/ Len(s) = DEFAULT_FINDS /\ s[DEFAULT_FINDS] < b
  <2>1. PICK m \in 0..DEFAULT_FINDS : s \in [1..m -> S]
    BY DEF FirstOf, ListsOf
  <2>2. s \in Seq(S) /\ Len(s) = m
    BY <2>1
  <2>. QED
    BY <2>2 DEF FirstOf
<1> HIDE DEF S
<1>5. k <= Len(s) /\ k <= DEFAULT_FINDS
  BY <1>3, <1>4, PagesAssumption
<1>6. /\ a.rows \in Seq(Entry) /\ Len(a.rows) = k
      /\ \A i \in 1..k : a.rows[i].code = s[i] /\ s[i] \in S
  <2> DEFINE f == [i \in 1..Len(s) |-> EntryOf(s[i])]
             g == [i \in 1..k |-> f[i]]
  <2>1. \A i \in 1..Len(s) : s[i] \in S /\ f[i] = EntryOf(s[i]) /\ f[i] \in Entry /\ f[i].code = s[i]
    <3> TAKE i \in 1..Len(s)
    <3>1. s[i] \in S /\ f[i] = EntryOf(s[i])
      BY <1>4
    <3>. QED
      BY <1>1, <1>2, <3>1, Zenon
  <2>2. f \in [1..Len(s) -> Entry] /\ Len(s) \in Nat
    BY <1>4, <2>1
  <2>3. f \in Seq(Entry) /\ Len(f) = Len(s)
    BY <2>2, Sequence
  <2> HIDE DEF f
  <2>4. g \in [1..k -> Entry]
    BY <1>4, <1>5, <2>1
  <2>5. g \in Seq(Entry) /\ Len(g) = k
    BY <2>4, Sequence
  <2>6. \A i \in 1..k : g[i].code = s[i] /\ s[i] \in S
    BY <1>4, <1>5, <2>1
  <2>7. SubSeq(f, 1, k) = g
    BY <1>4, <1>5, <2>3
  <2>8. k = Len(s) => f = g
    BY <2>2
  <2>9. \/ a = [ok |-> "yes", rows |-> f] /\ k = Len(s)
        \/ a = [ok |-> "no", rows |-> SubSeq(f, 1, k)]
    BY <1>3, Zenon DEF f
  <2> HIDE DEF g
  <2>10. a.rows = g
    BY <2>7, <2>8, <2>9
  <2>. QED
    BY <2>5, <2>6, <2>10
<1>7. a.ok # "no" =>
        \A b \in Matches(q, books) :
           b > start => \/ \E i \in 1..Len(a.rows) : a.rows[i].code = b
                        \/ Len(a.rows) = PAD_HIGHT /\ a.rows[Len(a.rows)].code < b
  <2> SUFFICES ASSUME a.ok # "no", NEW b \in Matches(q, books), b > start
               PROVE  \/ \E i \in 1..Len(a.rows) : a.rows[i].code = b
                      \/ Len(a.rows) = PAD_HIGHT /\ a.rows[Len(a.rows)].code < b
    OBVIOUS
  <2>1. k = Len(s) /\ b \in S
    BY <1>3 DEF S, Following
  <2>. QED
    BY <1>4, <1>6, <2>1, PagesAssumption DEF PAD_HIGHT
<1>8. \A i, j \in 1..Len(a.rows) : i < j => a.rows[i].code < a.rows[j].code
  BY <1>4, <1>5, <1>6, SMTT(30)
<1>9. \A i \in 1..Len(a.rows) : a.rows[i].code > start
  BY <1>1, <1>6
<1>10. a.rows \in Seq(Entry) /\ Len(a.rows) <= PAD_HIGHT
  BY <1>5, <1>6 DEF PAD_HIGHT
<1>. QED
  BY <1>7, <1>8, <1>9, <1>10

\* What is in front of the end stays, and the new books are behind it.
LEMMA Inserted ==
  ASSUME NEW c, IsCache(c), NEW es \in Seq(Entry)
  PROVE  LET m == InsertAll(c, es)
         IN  /\ IsCache(m) /\ m.dbm_pos = c.dbm_pos + Len(es) /\ m.search_pos = c.search_pos
             /\ \A i \in 0 .. c.dbm_pos - 1 : m.file[i] = c.file[i]
             /\ \A i \in 1..Len(es) : m.file[c.dbm_pos + i - 1] = es[i]
             /\ Len(es) = 0 => m = c
<1> DEFINE D == DOMAIN c.file \cup (c.dbm_pos .. c.dbm_pos + Len(es) - 1)
           F == [k \in D |-> IF k >= c.dbm_pos /\ k < c.dbm_pos + Len(es)
                             THEN es[k - c.dbm_pos + 1] ELSE c.file[k]]
           m == InsertAll(c, es)
<1>1. Len(es) \in Nat /\ c.dbm_pos \in Nat /\ c.search_pos \in Nat
  BY DEF IsCache
<1>2. m = [file |-> F, dbm_pos |-> c.dbm_pos + Len(es), search_pos |-> c.search_pos]
  <2>1. m = [c EXCEPT !.file = F, !.dbm_pos = c.dbm_pos + Len(es)]
    BY DEF InsertAll
  <2> HIDE DEF F, m
  <2>. QED
    BY <2>1, Zenon DEF IsCache
<1>3. 0 .. c.dbm_pos + Len(es) - 1 \subseteq D
  BY <1>1 DEF IsCache
<1>4. ASSUME NEW i \in 0 .. c.dbm_pos - 1 PROVE F[i] = c.file[i]
  <2>1. i \in D /\ ~(i >= c.dbm_pos)
    BY <1>1, <1>3
  <2> HIDE DEF D
  <2>. QED
    BY <2>1
<1>5. ASSUME NEW i \in 1..Len(es) PROVE F[c.dbm_pos + i - 1] = es[i]
  <2>1. PICK k : k = c.dbm_pos + i - 1
    OBVIOUS
  <2>2. k \in D /\ k >= c.dbm_pos /\ k < c.dbm_pos + Len(es) /\ k - c.dbm_pos + 1 = i
    BY <1>1, <1>3, <2>1
  <2> HIDE DEF D
  <2>3. F[k] = es[k - c.dbm_pos + 1]
    BY <2>2
  <2>. QED
    BY <2>1, <2>2, <2>3
<1>6. ASSUME NEW k \in D PROVE F[k] \in Entry
  <2>1. CASE k \in DOMAIN c.file /\ ~(k >= c.dbm_pos /\ k < c.dbm_pos + Len(es))
    BY <2>1 DEF IsCache
  <2>2. CASE k \in c.dbm_pos .. c.dbm_pos + Len(es) - 1
    <3>1. k - c.dbm_pos + 1 \in 1..Len(es) /\ F[k] = es[k - c.dbm_pos + 1]
      BY <1>1, <2>2
    <3>. QED
      BY <3>1
  <2>. QED
    BY <1>1, <2>1, <2>2 DEF IsCache
<1>7. ASSUME Len(es) = 0 PROVE F = c.file
  <2>1. D = DOMAIN c.file /\ \A k \in D : F[k] = c.file[k]
    BY <1>1, <1>7 DEF IsCache
  <2>2. c.file = [k \in DOMAIN c.file |-> c.file[k]]
    BY DEF IsCache
  <2>. QED
    BY <2>1, <2>2, Zenon
<1>8. DOMAIN F = D /\ D \subseteq Nat /\ F \in [D -> Entry]
  BY <1>1, <1>6 DEF IsCache
<1>9. Len(es) = 0 => m = c
  <2> HIDE DEF F, D, m
  <2>. QED
    BY <1>1, <1>2, <1>7 DEF IsCache
<1> HIDE DEF F, D
<1>10. IsCache(m)
  BY <1>1, <1>2, <1>3, <1>8 DEF IsCache
<1>. QED
  BY <1>1, <1>2, <1>4, <1>5, <1>9, <1>10

\* A page read from the file ends behind its last row, and at the end of the file
\* unless it is full.
LEMMA PageRead ==
  ASSUME NEW c, IsCache(c), PageLength(c) > 0
  PROVE  /\ PageLength(c) \in 1..PAD_HIGHT
         /\ PageRows(c) \in Seq(Entry) /\ Len(PageRows(c)) = PageLength(c)
         /\ \A i \in 1..PageLength(c) : PageRows(c)[i] = c.file[c.search_pos + i - 1]
         /\ IsCache(AfterPage(c)) /\ AfterPage(c).file = c.file /\ AfterPage(c).dbm_pos = c.dbm_pos
         /\ AfterPage(c).search_pos = c.search_pos + PageLength(c)
         /\ PageLength(c) < PAD_HIGHT => AfterPage(c).search_pos = c.dbm_pos
<1>1. c.dbm_pos \in Nat /\ c.search_pos \in Nat /\ c.search_pos <= c.dbm_pos /\ PAD_HIGHT \in Nat
  BY Rows DEF IsCache
<1>2. /\ PageLength(c) \in 1..PAD_HIGHT /\ c.search_pos + PageLength(c) <= c.dbm_pos
      /\ PageLength(c) < PAD_HIGHT => c.search_pos + PageLength(c) = c.dbm_pos
  BY <1>1 DEF PageLength
<1>3. PICK n \in 1..PAD_HIGHT : n = PageLength(c)
  BY <1>2
<1>4. \A i \in 1..n : c.file[c.search_pos + i - 1] \in Entry
  <2> TAKE i \in 1..n
  <2>1. c.search_pos + i - 1 \in 0 .. c.dbm_pos - 1
    BY <1>1, <1>2, <1>3
  <2>. QED
    BY <2>1 DEF IsCache
<1>5. PageRows(c) \in [1..n -> Entry] /\ \A i \in 1..n : PageRows(c)[i] = c.file[c.search_pos + i - 1]
  BY <1>3, <1>4 DEF PageRows
<1>6. PageRows(c) \in Seq(Entry) /\ Len(PageRows(c)) = n
  BY <1>1, <1>5, Sequence
<1>7. AfterPage(c) = [file |-> c.file, dbm_pos |-> c.dbm_pos, search_pos |-> c.search_pos + n]
  BY <1>3 DEF AfterPage, IsCache
<1>8. IsCache(AfterPage(c))
  BY <1>1, <1>2, <1>3, <1>7 DEF IsCache
<1>. QED
  BY <1>2, <1>3, <1>5, <1>6, <1>7, <1>8

\* What next_page_bookinfo returns.
PageTurned(c, bookno, q, out) ==
  /\ IsCache(out.cache) /\ out.bookno \in 0..MAX_BOOK_NUM /\ out.res \in Int
  /\ out.cache.dbm_pos >= c.dbm_pos
  /\ \A i \in 0 .. c.dbm_pos - 1 : out.cache.file[i] = c.file[i]
  /\ out.res > 0 =>
       /\ out.rows \in Seq(Entry) /\ Len(out.rows) = out.res /\ out.res <= PAD_HIGHT
       /\ \A i \in 1..out.res : out.rows[i] = out.cache.file[c.search_pos + i - 1]
       /\ out.cache.search_pos = c.search_pos + out.res
       /\ out.res < PAD_HIGHT => out.cache.search_pos = out.cache.dbm_pos
  /\ out.res <= 0 => out.cache.search_pos = c.search_pos
  /\ out.res = 0 => \A b \in Matches(q, books) : ~(b > bookno)
  /\ out.cache.dbm_pos > c.dbm_pos => c.search_pos = c.dbm_pos
  /\ Whole(c, out) /\ Ascends(c, bookno) => Ascends(out.cache, out.bookno)
  /\ Whole(c, out) =>
       \A b \in Matches(q, books) :
         b > bookno => b \in Listed(out.cache) \/ b > out.bookno

LEMMA NextPage ==
  ASSUME books \in [BookNo -> Row], NEW c, IsCache(c), NEW bookno \in 0..MAX_BOOK_NUM, NEW q,
         NEW out \in next_page_bookinfo(c, bookno, q)
  PROVE  PageTurned(c, bookno, q, out)
<1>. USE DEF PageTurned
<1>1. CASE PageLength(c) > 0
  <2>1. out = [res |-> PageLength(c), rows |-> PageRows(c), cache |-> AfterPage(c), bookno |-> bookno]
    BY <1>1 DEF next_page_bookinfo
  <2>2. /\ out.res = PageLength(c) /\ out.rows = PageRows(c) /\ out.cache = AfterPage(c)
        /\ out.bookno = bookno
    BY <2>1
  <2>3. c.dbm_pos \in Nat /\ c.search_pos \in Nat
    BY DEF IsCache
  <2>4. Ascends(c, bookno) => Ascends(out.cache, out.bookno)
    BY <1>1, <2>2, PageRead, ZenonT(30) DEF Ascends
  <2>. QED
    BY <1>1, <2>2, <2>3, <2>4, PageRead
<1>2. CASE ~(PageLength(c) > 0)
  <2>1. c.search_pos = c.dbm_pos /\ c.dbm_pos \in Nat
    BY <1>2, Rows DEF IsCache, PageLength
  <2>2. PICK a \in Answers(q, bookno) :
          out = LET more == InsertAll(c, a.rows)
                IN  IF a.ok = "no" THEN [res |-> -1, rows |-> <<>>, cache |-> more, bookno |-> bookno]
                    ELSE IF a.rows = <<>> THEN [res |-> 0, rows |-> <<>>, cache |-> more, bookno |-> bookno]
                    ELSE [res |-> PageLength(more), rows |-> PageRows(more), cache |-> AfterPage(more),
                          bookno |-> LastNumber(PageRows(more))]
    BY <1>2, Zenon DEF next_page_bookinfo
  <2> DEFINE m == InsertAll(c, a.rows)
             n == Len(a.rows)
  <2>3. /\ a.rows \in Seq(Entry) /\ n \in Nat /\ n <= PAD_HIGHT
        /\ \A i, j \in 1..n : i < j => a.rows[i].code < a.rows[j].code
        /\ \A i \in 1..n : a.rows[i].code > bookno
    BY Answered
  <2>4. a.ok # "no" =>
          \A b \in Matches(q, books) :
            b > bookno => \/ \E i \in 1..n : a.rows[i].code = b
                          \/ n = PAD_HIGHT /\ a.rows[n].code < b
    BY Answered
  <2>5. /\ IsCache(m) /\ m.dbm_pos = c.dbm_pos + n /\ m.search_pos = c.search_pos
        /\ \A i \in 0 .. c.dbm_pos - 1 : m.file[i] = c.file[i]
        /\ \A i \in 1..n : m.file[c.dbm_pos + i - 1] = a.rows[i]
        /\ n = 0 => m = c
    BY <2>3, Inserted
  <2> HIDE DEF m, n
  <2>6. CASE a.ok = "no"
    <3>1. out = [res |-> -1, rows |-> <<>>, cache |-> m, bookno |-> bookno]
      BY <2>2, <2>6 DEF m
    <3>2. out.res = -1 /\ out.cache = m /\ out.bookno = bookno
      BY <3>1
    <3>3. Whole(c, out) => out.cache = c
      BY <2>1, <2>3, <2>5, <3>2 DEF Whole
    <3>. QED
      BY <2>1, <2>3, <2>5, <3>2, <3>3
  <2>7. CASE a.ok # "no" /\ a.rows = <<>>
    <3>1. out = [res |-> 0, rows |-> <<>>, cache |-> m, bookno |-> bookno]
      BY <2>2, <2>7 DEF m
    <3>2. n = 0
      BY <2>7 DEF n
    <3>3. out.res = 0 /\ out.cache = c /\ out.bookno = bookno
      BY <2>5, <3>1, <3>2
    <3>4. \A b \in Matches(q, books) : ~(b > bookno)
      BY <2>4, <2>7, <3>2, Rows
    <3>. QED
      BY <2>1, <3>3, <3>4
  <2>8. CASE a.ok # "no" /\ a.rows # <<>>
    <3>1. out = [res |-> PageLength(m), rows |-> PageRows(m), cache |-> AfterPage(m),
                 bookno |-> LastNumber(PageRows(m))]
      BY <2>2, <2>8 DEF m
    <3>2. /\ out.res = PageLength(m) /\ out.rows = PageRows(m) /\ out.cache = AfterPage(m)
          /\ out.bookno = LastNumber(PageRows(m))
      BY <3>1
    <3>3. n > 0
      BY <2>3, <2>8 DEF n
    <3>4. PageLength(m) = n
      BY <2>1, <2>3, <2>5, <3>3, Rows DEF PageLength
    <3>5. /\ out.rows \in Seq(Entry) /\ Len(out.rows) = n
          /\ \A i \in 1..n : out.rows[i] = m.file[c.search_pos + i - 1]
          /\ IsCache(out.cache) /\ out.cache.file = m.file /\ out.cache.dbm_pos = m.dbm_pos
          /\ out.cache.search_pos = c.search_pos + n
      BY <2>5, <3>2, <3>3, <3>4, PageRead
    <3>6. out.bookno = a.rows[n].code /\ out.bookno \in BookNo
      <4>1. out.rows[n] = a.rows[n] /\ a.rows[n] \in Entry
        BY <2>1, <2>3, <2>5, <3>3, <3>5 DEF n
      <4>2. out.bookno = out.rows[n].code
        BY <3>2, <3>5 DEF LastNumber
      <4>. QED
        BY <4>1, <4>2 DEF Entry
    <3>7. ASSUME Ascends(c, bookno) PROVE Ascends(out.cache, out.bookno)
      <4>1. \A k \in 1..n : a.rows[k].code \in Int /\ a.rows[k].code <= out.bookno
        <5> TAKE k \in 1..n
        <5>1. a.rows[k] \in Entry
          BY <2>3 DEF n
        <5>2. a.rows[k].code \in Int
          BY <5>1 DEF Entry, BookNo
        <5>3. k = n \/ a.rows[k].code < a.rows[n].code
          BY <2>3, <3>3
        <5>. QED
          BY <3>6, <5>2, <5>3 DEF BookNo
      <4>2. \A i \in 0 .. c.dbm_pos - 1 : m.file[i].code = c.file[i].code /\ m.file[i].code <= bookno
        BY <2>5, <3>7 DEF Ascends
      <4>3. \A i \in c.dbm_pos .. m.dbm_pos - 1 :
              /\ i - c.dbm_pos + 1 \in 1..n
              /\ m.file[i].code = a.rows[i - c.dbm_pos + 1].code
        <5> TAKE i \in c.dbm_pos .. m.dbm_pos - 1
        <5>1. PICK k \in 1..n : k = i - c.dbm_pos + 1
          BY <2>1, <2>3, <2>5
        <5>2. i = c.dbm_pos + k - 1
          BY <2>1, <2>3, <5>1, SMTT(30)
        <5>. QED
          BY <2>5, <5>1, <5>2
      <4>4. \A i \in 0 .. c.dbm_pos - 1 : c.file[i].code \in Int
        BY DEF IsCache, Entry, BookNo
      <4>5. \A i \in 0 .. m.dbm_pos - 1 : i \in 0 .. c.dbm_pos - 1 \/ i \in c.dbm_pos .. m.dbm_pos - 1
        BY <2>1, <2>3, <2>5
      <4>6. \A i \in 0 .. m.dbm_pos - 1 : m.file[i].code <= out.bookno
        <5>1. bookno <= out.bookno
          BY <2>3, <3>3, <3>6, <4>1
        <5>. QED
          BY <3>6, <4>1, <4>2, <4>3, <4>4, <4>5, <5>1 DEF BookNo
      <4>7. ASSUME NEW i \in 0 .. m.dbm_pos - 1, NEW j \in 0 .. m.dbm_pos - 1, i < j
            PROVE  m.file[i].code < m.file[j].code
        <5>1. CASE j \in 0 .. c.dbm_pos - 1
          <6>1. i \in 0 .. c.dbm_pos - 1
            BY <2>1, <4>7, <5>1
          <6>. QED
            BY <3>7, <4>2, <4>7, <5>1, <6>1 DEF Ascends
        <5>2. CASE i \in 0 .. c.dbm_pos - 1 /\ j \in c.dbm_pos .. m.dbm_pos - 1
          <6>1. PICK y \in 1..n : m.file[j].code = a.rows[y].code
            BY <4>3, <5>2
          <6>2. m.file[j].code > bookno /\ m.file[j].code \in Int
            BY <2>3, <4>1, <6>1
          <6>3. m.file[i].code <= bookno /\ m.file[i].code \in Int
            BY <4>2, <4>4, <5>2
          <6>. QED
            BY <6>2, <6>3
        <5>3. CASE i \in c.dbm_pos .. m.dbm_pos - 1 /\ j \in c.dbm_pos .. m.dbm_pos - 1
          <6>1. PICK x \in 1..n, y \in 1..n : x = i - c.dbm_pos + 1 /\ y = j - c.dbm_pos + 1
            BY <4>3, <5>3
          <6>2. m.file[i].code = a.rows[x].code /\ m.file[j].code = a.rows[y].code
            BY <4>3, <5>3, <6>1
          <6>3. x < y
            BY <2>1, <4>7, <6>1
          <6>. QED
            BY <2>3, <6>2, <6>3
        <5>. QED
          BY <4>5, <5>1, <5>2, <5>3
      <4>. QED
        BY <3>5, <4>6, <4>7 DEF Ascends
    <3>8. ASSUME NEW b \in Matches(q, books), b > bookno
          PROVE  b \in Listed(out.cache) \/ b > out.bookno
      <4>1. CASE \E k \in 1..n : a.rows[k].code = b
        <5>1. PICK k \in 1..n : a.rows[k].code = b
          BY <4>1
        <5>2. c.dbm_pos + k - 1 \in 0 .. m.dbm_pos - 1 /\ m.file[c.dbm_pos + k - 1].code = b
          <6>1. c.dbm_pos + k - 1 \in 0 .. m.dbm_pos - 1
            BY <2>1, <2>3, <2>5
          <6>. QED
            BY <2>5, <5>1, <6>1
        <5>. QED
          BY <3>5, <5>2 DEF Listed
      <4>2. CASE a.rows[n].code < b
        BY <3>6, <4>2 DEF Matches, BookNo
      <4>. QED
        BY <2>4, <2>8, <3>8, <4>1, <4>2
    <3>. QED
      BY <2>1, <2>3, <2>5, <3>2, <3>3, <3>4, <3>5, <3>6, <3>7, <3>8, SMTT(30) DEF BookNo
  <2>. QED
    BY <2>6, <2>7, <2>8
<1>. QED
  BY <1>1, <1>2

\* Books once listed stay listed.
LEMMA StaysListed ==
  ASSUME NEW c, IsCache(c), NEW d, IsCache(d), d.dbm_pos >= c.dbm_pos,
         \A i \in 0 .. c.dbm_pos - 1 : d.file[i] = c.file[i]
  PROVE  Listed(c) \subseteq Listed(d)
<1>1. \A i \in 0 .. c.dbm_pos - 1 : i \in 0 .. d.dbm_pos - 1
  BY DEF IsCache
<1>. QED
  BY <1>1 DEF Listed

\* What display_bookinfo_page leaves behind.
PageShown(c, cnt, bookno, mode, shelf, q, whole) ==
  /\ IsCache(cache') /\ local_bookno' \in 0..MAX_BOOK_NUM /\ book_page_cnt' = cnt
  /\ Open' => /\ screen' \in Page /\ screen'.mode = mode /\ screen'.shelf = shelf
              /\ screen'.row = 0 /\ screen'.first_line = 0
              /\ Len(screen'.titles) \in 1..PAD_HIGHT
  /\ aligned' => whole
  /\ aligned' /\ Ascends(c, bookno) => Ascends(cache', local_bookno')
  /\ aligned' /\ c.search_pos = cnt * PAD_HIGHT => AtPage'
  /\ Listed(c) \subseteq Listed(cache')
  /\ aligned' =>
       \A b \in Matches(q, books) :
         b > bookno => b \in Listed(cache') \/ b > local_bookno'

LEMMA Displayed ==
  ASSUME books \in [BookNo -> Row], NEW c, IsCache(c), NEW cnt \in Nat, NEW bookno \in 0..MAX_BOOK_NUM,
         NEW mode \in {"browse", "collect", "search"}, NEW shelf \in 0..MAX_SHELF_NUM,
         NEW shelfno, NEW collect, NEW whole,
         Display(mode, shelf, c, cnt, bookno, shelfno, collect, whole)
  PROVE  PageShown(c, cnt, bookno, mode, shelf, QueryOf(mode, shelf, collect, shelfno), whole)
<1> DEFINE q == QueryOf(mode, shelf, collect, shelfno)
<1>1. PICK out \in next_page_bookinfo(c, bookno, q) :
        /\ cache' = out.cache /\ local_bookno' = out.bookno /\ book_page_cnt' = cnt
        /\ aligned' = (whole /\ Whole(c, out))
        /\ IF out.res > 0
           THEN \E e \in Peek(out.cache, cur_dbm_pos(cnt, 0), Entry) :
                  screen' = [mode |-> mode, shelf |-> shelf, titles |-> Titles(out.rows), row |-> 0,
                             first_line |-> 0, local_book |-> e]
           ELSE screen' = Closed
  BY DEF Display
<1> HIDE DEF q
<1>0. PageTurned(c, bookno, q, out)
  BY NextPage
<1>2. /\ IsCache(out.cache) /\ out.bookno \in 0..MAX_BOOK_NUM /\ out.res \in Int
      /\ out.cache.dbm_pos >= c.dbm_pos
      /\ \A i \in 0 .. c.dbm_pos - 1 : out.cache.file[i] = c.file[i]
  BY <1>0, Zenon DEF PageTurned
<1>3. out.res > 0 =>
        /\ out.rows \in Seq(Entry) /\ Len(out.rows) = out.res /\ out.res <= PAD_HIGHT
        /\ \A i \in 1..out.res : out.rows[i] = out.cache.file[c.search_pos + i - 1]
        /\ out.cache.search_pos = c.search_pos + out.res
        /\ out.res < PAD_HIGHT => out.cache.search_pos = out.cache.dbm_pos
  BY <1>0, Zenon DEF PageTurned
<1>4. out.res <= 0 => out.cache.search_pos = c.search_pos
  BY <1>0, Zenon DEF PageTurned
<1>5. /\ Whole(c, out) /\ Ascends(c, bookno) => Ascends(out.cache, out.bookno)
      /\ Whole(c, out) =>
           \A b \in Matches(q, books) : b > bookno => b \in Listed(out.cache) \/ b > out.bookno
  BY <1>0, Zenon DEF PageTurned
<1>6. aligned' => whole /\ Whole(c, out)
  BY <1>1, Zenon
<1>7. Listed(c) \subseteq Listed(cache')
  BY <1>1, <1>2, StaysListed, ZenonT(30)
<1>8. ASSUME out.res > 0
      PROVE  /\ screen' \in Page /\ screen'.mode = mode /\ screen'.shelf = shelf
             /\ screen'.row = 0 /\ screen'.first_line = 0
             /\ Len(screen'.titles) = out.res
             /\ \A i \in 1..out.res : screen'.titles[i] = out.cache.file[c.search_pos + i - 1].code
             /\ screen'.local_book \in Peek(out.cache, cur_dbm_pos(cnt, 0), Entry)
  <2>1. PICK e \in Peek(out.cache, cur_dbm_pos(cnt, 0), Entry) :
          screen' = [mode |-> mode, shelf |-> shelf, titles |-> Titles(out.rows), row |-> 0,
                     first_line |-> 0, local_book |-> e]
    BY <1>1, <1>8
  <2>2. e \in Entry
    BY <1>2 DEF Peek, IsCache
  <2>3. \A i \in 1..out.res : out.rows[i] \in Entry /\ out.rows[i].code \in BookNo
    <3> TAKE i \in 1..out.res
    <3>1. out.rows[i] \in Entry
      BY <1>3, <1>8, SMTT(30)
    <3>. QED
      BY <3>1 DEF Entry
  <2>4. /\ Titles(out.rows) \in [1..out.res -> BookNo] /\ out.res \in Nat
        /\ \A i \in 1..out.res : Titles(out.rows)[i] = out.rows[i].code
    BY <1>2, <1>3, <1>8, <2>3 DEF Titles
  <2>5. Titles(out.rows) \in Seq(BookNo) /\ Len(Titles(out.rows)) = out.res
    BY <2>4, Sequence, Zenon
  <2>6. screen' \in Page
    BY <2>1, <2>2, <2>5 DEF Page
  <2>. QED
    BY <1>3, <1>8, <2>1, <2>4, <2>5, <2>6, ZenonT(30)
<1>9. ASSUME aligned', c.search_pos = cnt * PAD_HIGHT PROVE AtPage'
  <2>1. c.search_pos \in Nat /\ c.dbm_pos \in Nat /\ PAD_HIGHT \in Nat
    BY Rows DEF IsCache
  <2>2. CASE ~(out.res > 0)
    <3>1. screen' = Closed /\ cache'.search_pos = book_page_cnt' * PAD_HIGHT
      BY <1>1, <1>2, <1>4, <1>9, <2>2
    <3>. QED
      BY <3>1, ZenonT(30) DEF AtPage, Open
  <2>3. CASE out.res > 0
    <3>1. screen' # Closed
      BY <1>8, <2>3 DEF Closed
    <3>2. \A i \in 1..out.res : screen'.titles[i] = out.cache.file[cnt * PAD_HIGHT + i - 1].code
      BY <1>8, <1>9, <2>3
    <3>3. screen'.local_book.code = screen'.titles[1]
      <4>1. cur_dbm_pos(cnt, 0) = c.search_pos
        BY <1>9, <2>1 DEF cur_dbm_pos
      <4>2. c.search_pos \in DOMAIN out.cache.file
        BY <1>2, <1>3, <2>1, <2>3 DEF IsCache
      <4>3. screen'.local_book = out.cache.file[c.search_pos]
        BY <1>8, <2>3, <4>1, <4>2 DEF Peek
      <4>4. screen'.titles[1] = out.cache.file[c.search_pos + 1 - 1].code
        <5>1. 1 \in 1..out.res
          BY <1>2, <2>3
        <5>. QED
          BY <1>8, <2>3, <5>1
      <4>. QED
        BY <2>1, <4>3, <4>4
    <3>4. /\ cache'.search_pos = book_page_cnt' * PAD_HIGHT + Len(screen'.titles)
          /\ Len(screen'.titles) <= PAD_HIGHT
          /\ Len(screen'.titles) < PAD_HIGHT => cache'.search_pos = cache'.dbm_pos
      BY <1>1, <1>3, <1>8, <1>9, <2>3, ZenonT(30)
    <3>5. \A i \in 1..Len(screen'.titles) :
            screen'.titles[i] = cache'.file[book_page_cnt' * PAD_HIGHT + i - 1].code
      BY <1>1, <1>8, <2>3, <3>2
    <3>6. screen'.row + 1 = 1
      BY <1>8, <2>3
    <3>. QED
      BY <3>1, <3>3, <3>4, <3>5, <3>6 DEF AtPage, Open
  <2>. QED
    BY <2>2, <2>3
<1>10. Open' => out.res > 0
  BY <1>1, <1>2, Zenon DEF Open
<1>11. aligned' /\ Ascends(c, bookno) => Ascends(cache', local_bookno')
  BY <1>1, <1>5, <1>6
<1>12. aligned' => \A b \in Matches(q, books) : b > bookno => b \in Listed(cache') \/ b > local_bookno'
  BY <1>1, <1>5, <1>6
<1>13. Open' => /\ screen' \in Page /\ screen'.mode = mode /\ screen'.shelf = shelf
                /\ screen'.row = 0 /\ screen'.first_line = 0
                /\ Len(screen'.titles) \in 1..PAD_HIGHT
  BY <1>2, <1>3, <1>8, <1>10, Rows
<1>. QED
  BY <1>1, <1>2, <1>6, <1>7, <1>9, <1>11, <1>12, <1>13, ZenonT(30) DEF q, PageShown

-----------------------------------------------------------------------------
(* The steps.                                                              *)

\* A page is displayed from a position where pages begin, in a file that lists
\* what it should so far.
LEMMA DisplayInv ==
  ASSUME books \in [BookNo -> Row], books' = books,
         NEW c, IsCache(c), NEW cnt \in Nat, NEW bookno \in 0..MAX_BOOK_NUM,
         NEW mode \in {"browse", "collect", "search"}, NEW shelf \in 0..MAX_SHELF_NUM,
         NEW shelfno \in 0..MAX_SHELF_NUM, NEW collect \in 0..1, NEW whole,
         Display(mode, shelf, c, cnt, bookno, shelfno, collect, whole),
         local_shelfno' = shelfno, bcollect' = collect, no_next_page_flag' \in 0..1,
         query' = QueryOf(mode, shelf, collect, shelfno),
         shelfno # NON_SENSE_INT => query' = QueryOf("browse", shelfno, collect, shelfno),
         steady' \subseteq Matches(query', books),
         whole => /\ Ascends(c, bookno) /\ c.search_pos = cnt * PAD_HIGHT
                  /\ \A b \in steady' : b \in Listed(c) \/ b > bookno
                  /\ no_next_page_flag' = 1 => steady' \subseteq Listed(c)
  PROVE  ListingInv'
<1>0. PageShown(c, cnt, bookno, mode, shelf, QueryOf(mode, shelf, collect, shelfno), whole)
  BY Displayed, Zenon
<1>1. /\ IsCache(cache') /\ local_bookno' \in 0..MAX_BOOK_NUM /\ book_page_cnt' = cnt
      /\ aligned' => whole /\ Listed(c) \subseteq Listed(cache')
  BY <1>0, Zenon DEF PageShown
<1>2. Open' => /\ screen' \in Page /\ screen'.mode = mode /\ screen'.shelf = shelf
               /\ screen'.row = 0 /\ screen'.first_line = 0
               /\ Len(screen'.titles) \in 1..PAD_HIGHT
  BY <1>0, Zenon DEF PageShown
<1>3. /\ aligned' /\ Ascends(c, bookno) => Ascends(cache', local_bookno')
      /\ aligned' /\ c.search_pos = cnt * PAD_HIGHT => AtPage'
  BY <1>0, Zenon DEF PageShown
<1>4. aligned' =>
        \A b \in Matches(QueryOf(mode, shelf, collect, shelfno), books) :
          b > bookno => b \in Listed(cache') \/ b > local_bookno'
  BY <1>0, Zenon DEF PageShown
<1>5. Shape'
  <2>1. Matches(query, books)' = Matches(query', books)
    BY DEF Matches
  <2>2. (books \in [BookNo -> Row])'
    OBVIOUS
  <2>. QED
    BY <1>1, <1>2, <2>1, <2>2 DEF Shape
<1>6. Slider'
  <2>1. ASSUME Open'
        PROVE  (screen'.row < Len(screen'.titles) /\ Len(screen'.titles) <= PAD_HIGHT) /\ SliderOnRow'
    <3>1. MaxRow(screen'.titles) \in Nat
      BY <1>2, <2>1, PagesAssumption, Rows DEF MaxRow
    <3>. QED
      BY <1>2, <2>1, <3>1, Rows DEF SliderOnRow
  <2>. QED
    BY <2>1 DEF Slider
<1>7. Purpose'
  BY <1>2 DEF Purpose, ListingOfQuery
<1>8. ASSUME aligned' PROVE Ascends(cache', local_bookno') /\ AtPage' /\ Covers'
  <2>1. Ascends(cache', local_bookno') /\ AtPage'
    BY <1>1, <1>3, <1>8
  <2>2. \A b \in steady' : b \in Listed(cache') \/ b > local_bookno'
    BY <1>1, <1>4, <1>8
  <2>3. no_next_page_flag' = 1 => steady' \subseteq Listed(cache')
    BY <1>1, <1>8
  <2>. QED
    BY <2>1, <2>2, <2>3 DEF Covers, Listed
<1>. QED
  BY <1>5, <1>6, <1>7, <1>8 DEF ListingInv, Ascends

\* A listing begins in an empty file.
LEMMA ResetCache ==
  ASSUME NEW c, IsCache(c)
  PROVE  LET d == clidb_book_reset(c)
         IN  IsCache(d) /\ d.dbm_pos = 0 /\ d.search_pos = 0 /\ Ascends(d, 0) /\ Listed(d) = {}
<1>1. clidb_book_reset(c) = [file |-> c.file, dbm_pos |-> 0, search_pos |-> 0]
  <2> DEFINE R == [file : {c.file}, dbm_pos : Nat, search_pos : Nat]
             d == [c EXCEPT !.dbm_pos = 0, !.search_pos = 0]
  <2>1. c \in R
    BY DEF IsCache
  <2>2. d \in R /\ d.file = c.file /\ d.dbm_pos = 0 /\ d.search_pos = 0
    BY <2>1, Zenon
  <2> HIDE DEF d
  <2>3. d = [file |-> c.file, dbm_pos |-> 0, search_pos |-> 0]
    BY <2>2
  <2>. QED
    BY <2>3 DEF d, clidb_book_reset
<1>. QED
  BY <1>1 DEF IsCache, Ascends, Listed

\* Nothing is listed yet.
LEMMA InitInv == Init => ListingInv
<1> SUFFICES ASSUME Init PROVE ListingInv
  OBVIOUS
<1>1. books \in [BookNo -> Row]
  BY DEF Init, Row, ShelfNo
<1>2. /\ cache.file = <<>> /\ cache.dbm_pos = 0 /\ cache.search_pos = 0
      /\ cache = [file |-> cache.file, dbm_pos |-> cache.dbm_pos, search_pos |-> cache.search_pos]
  BY DEF Init
<1>3. IsCache(cache)
  BY <1>2 DEF IsCache
<1>4. ~Open /\ steady = {}
  BY DEF Init, Open
<1>5. Shape
  BY <1>1, <1>3, <1>4, CapacityAssumption DEF Init, Shape, NON_SENSE_INT
<1>6. Slider /\ Purpose
  BY <1>4 DEF Init, Slider, Purpose, ListingOfQuery
<1>7. Ascends(cache, local_bookno) /\ Covers
  BY <1>2, <1>4 DEF Ascends, Covers
<1>8. AtPage
  <2>1. book_page_cnt * PAD_HIGHT = 0
    BY Rows DEF Init
  <2>. QED
    BY <1>2, <1>4, <2>1 DEF AtPage
<1>. QED
  BY <1>5, <1>6, <1>7, <1>8 DEF ListingInv

\* What continues a listing: the file and the position are those of the invariant,
\* and so is what the server is asked for.
LEMMA ContinueInv ==
  ASSUME ListingInv, screen = Closed, NEW mode \in {"browse", "collect", "search"},
         NEW shelf \in 0..MAX_SHELF_NUM, local_shelfno' = local_shelfno, bcollect' = bcollect,
         books' = books, query = QueryOf(mode, shelf, bcollect, local_shelfno),
         Continue(mode, shelf, bcollect, local_shelfno)
  PROVE  ListingInv'
<1>1. /\ query' = query /\ steady' = steady /\ no_next_page_flag' = no_next_page_flag
      /\ Display(mode, shelf, cache, book_page_cnt, local_bookno, local_shelfno, bcollect, aligned)
  BY DEF Continue
<1>2. /\ books \in [BookNo -> Row] /\ IsCache(cache) /\ book_page_cnt \in Nat
      /\ local_bookno \in 0..MAX_BOOK_NUM /\ local_shelfno \in 0..MAX_SHELF_NUM
      /\ bcollect \in 0..1 /\ no_next_page_flag \in 0..1 /\ steady \subseteq Matches(query, books)
  BY DEF ListingInv, Shape
<1>3. aligned => /\ Ascends(cache, local_bookno) /\ cache.search_pos = book_page_cnt * PAD_HIGHT
                 /\ \A b \in steady : b \in Listed(cache) \/ b > local_bookno
                 /\ no_next_page_flag = 1 => steady \subseteq Listed(cache)
  BY DEF ListingInv, AtPage, Covers
<1>4. local_shelfno # NON_SENSE_INT => query = QueryOf("browse", local_shelfno, bcollect, local_shelfno)
  BY DEF ListingInv, Purpose
<1>. QED
  BY <1>1, <1>2, <1>3, <1>4, DisplayInv

\* A listing begins, of what the user asks for.
LEMMA BeginInv ==
  ASSUME ListingInv, NEW mode \in {"browse", "collect", "search"}, NEW shelf \in 0..MAX_SHELF_NUM,
         NEW collect \in 0..1, NEW shelfno \in 0..MAX_SHELF_NUM,
         local_shelfno' = shelfno, bcollect' = collect, books' = books,
         shelfno # NON_SENSE_INT => mode # "search" /\ shelfno = shelf,
         Begin(mode, shelf, collect, shelfno)
  PROVE  ListingInv'
<1> DEFINE c == clidb_book_reset(cache)
<1>1. /\ query' = QueryOf(mode, shelf, collect, shelfno) /\ steady' = Matches(query', books)
      /\ no_next_page_flag' = 0
      /\ Display(mode, shelf, c, 0, NON_SENSE_INT, shelfno, collect, TRUE)
  BY Zenon DEF Begin
<1>2. books \in [BookNo -> Row] /\ IsCache(cache)
  BY DEF ListingInv, Shape
<1>3. IsCache(c) /\ c.search_pos = 0 /\ Ascends(c, NON_SENSE_INT)
  BY <1>2, ResetCache DEF NON_SENSE_INT
<1>4. \A b \in steady' : b > NON_SENSE_INT
  BY <1>1 DEF Matches, BookNo, NON_SENSE_INT
<1>5. NON_SENSE_INT \in 0..MAX_BOOK_NUM /\ 0 * PAD_HIGHT = 0 /\ 0 \in Nat /\ 0 # 1 /\ 0 \in 0..1
  BY CapacityAssumption, Rows DEF NON_SENSE_INT
<1>6. shelfno # NON_SENSE_INT => query' = QueryOf("browse", shelfno, collect, shelfno)
  BY <1>1 DEF QueryOf
<1> HIDE DEF c
<1>. QED
  BY <1>1, <1>2, <1>3, <1>4, <1>5, <1>6, DisplayInv, ZenonT(30)

\* The page of a shelf: a listing of it goes on only if it is of the same shelf and
\* for the same purpose.
LEMMA OpenShelfInv ==
  ASSUME ListingInv, NEW shelf \in ShelfNo, NEW collect \in 0..1, OpenShelf(shelf, collect)
  PROVE  ListingInv'
<1> DEFINE mode == IF collect = 1 THEN "collect" ELSE "browse"
<1>1. /\ screen = Closed /\ local_shelfno' = shelf /\ bcollect' = collect /\ books' = books
      /\ IF Changed(shelf, collect) THEN Begin(mode, shelf, collect, shelf)
                                    ELSE Continue(mode, shelf, collect, shelf)
  BY DEF OpenShelf
<1>2. /\ mode \in {"browse", "collect", "search"} /\ mode # "search"
      /\ shelf \in 0..MAX_SHELF_NUM /\ shelf # NON_SENSE_INT
  BY DEF ShelfNo, NON_SENSE_INT
<1> HIDE DEF mode
<1>3. CASE Changed(shelf, collect)
  BY <1>1, <1>2, <1>3, BeginInv
<1>4. CASE ~Changed(shelf, collect)
  <2>1. local_shelfno = shelf /\ bcollect = collect
    BY <1>4 DEF Changed
  <2>2. query = QueryOf(mode, shelf, bcollect, local_shelfno)
    BY <1>2, <2>1 DEF ListingInv, Purpose, QueryOf
  <2>. QED
    BY <1>1, <1>2, <1>4, <2>1, <2>2, ContinueInv
<1>. QED
  BY <1>3, <1>4

\* A search always begins a listing.
LEMMA OpenSearchInv ==
  ASSUME ListingInv, NEW shelf \in ShelfNo \cup {NON_SENSE_INT}, OpenSearch(shelf)
  PROVE  ListingInv'
<1>1. /\ local_shelfno' = NON_SENSE_INT /\ bcollect' = bcollect /\ books' = books
      /\ Begin("search", shelf, bcollect, NON_SENSE_INT)
  BY DEF OpenSearch
<1>2. shelf \in 0..MAX_SHELF_NUM /\ NON_SENSE_INT \in 0..MAX_SHELF_NUM /\ bcollect \in 0..1
  BY CapacityAssumption DEF ListingInv, Shape, ShelfNo, NON_SENSE_INT
<1>. QED
  BY <1>1, <1>2, BeginInv

\* The slider moves to a row of the page, and the text follows it.
LEMMA MoveInv ==
  ASSUME ListingInv, Open, NEW row \in 0 .. Len(screen.titles) - 1, Move(row),
         PAD_BOXED_HIGHT > 1 \/ PAD_HIGHT <= 2 =>
           LET max_row == MaxRow(screen.titles)
           IN  scroll_pad(row, screen.row, max_row, LogicRow(screen.titles), screen.first_line)
               + (IF row > max_row THEN max_row ELSE row) = row
  PROVE  ListingInv'
<1> DEFINE line == scroll_pad(row, screen.row, MaxRow(screen.titles), LogicRow(screen.titles), screen.first_line)
<1>1. PICK e \in Peek(cache, CurPos(row), {screen.local_book}) :
        screen' = [screen EXCEPT !.row = row, !.local_book = e, !.first_line = line]
  BY Zenon DEF Move
<1>2. /\ UNCHANGED <<books, local_shelfno, bcollect, query, steady, cache, local_bookno,
                     book_page_cnt, no_next_page_flag, aligned>>
  BY DEF Move, Paging
<1>3. Shape /\ Slider /\ Purpose /\ screen \in Page
  BY DEF ListingInv, Shape
<1>4. /\ screen.titles \in Seq(BookNo) /\ Len(screen.titles) \in Nat /\ screen.row \in Nat
      /\ screen.first_line \in Int /\ screen.local_book \in Entry /\ row \in Nat
      /\ screen.mode \in {"browse", "collect", "search"}
  BY <1>3 DEF Page
<1>5. e \in Entry
  BY <1>3, <1>4 DEF Peek, Shape, IsCache
<1>6. line \in Int
  BY <1>4, PagesAssumption DEF scroll_pad, MaxRow, LogicRow
<1> HIDE DEF line
<1>7. /\ screen' \in Page /\ screen'.titles = screen.titles /\ screen'.row = row
      /\ screen'.local_book = e /\ screen'.first_line = line
      /\ screen'.mode = screen.mode /\ screen'.shelf = screen.shelf
  BY <1>1, <1>3, <1>4, <1>5, <1>6, Zenon DEF Page
<1>8. Open'
  BY <1>4, <1>7 DEF Open, Closed
<1>9. Shape'
  BY <1>2, <1>3, <1>7 DEF Shape, Matches
<1>10. Slider'
  BY <1>3, <1>4, <1>7 DEF Slider, SliderOnRow, line
<1>11. Purpose'
  BY <1>2, <1>3, <1>7, <1>8, ZenonT(30) DEF Purpose, ListingOfQuery
<1>12. ASSUME aligned' PROVE Ascends(cache', local_bookno') /\ AtPage' /\ Covers'
  <2>1. Ascends(cache, local_bookno) /\ AtPage /\ Covers
    BY <1>2, <1>12 DEF ListingInv
  <2>2. e.code = screen.titles[row + 1]
    <3>1. PICK start \in Nat : start = book_page_cnt * PAD_HIGHT
      BY <1>3, Rows DEF Shape
    <3>2. /\ CurPos(row) = start + row /\ cache.search_pos = start + Len(screen.titles)
          /\ \A i \in 1..Len(screen.titles) : screen.titles[i] = cache.file[start + i - 1].code
      BY <2>1, <3>1, Zenon DEF CurPos, cur_dbm_pos, AtPage
    <3>3. start + row \in 0 .. cache.dbm_pos - 1
      BY <1>3, <1>4, <3>2, SMTT(30) DEF Shape, IsCache
    <3>4. e = cache.file[start + row]
      BY <1>1, <1>3, <3>2, <3>3 DEF Peek, Shape, IsCache
    <3>5. row + 1 \in 1..Len(screen.titles) /\ start + (row + 1) - 1 = start + row
      BY <1>4
    <3>. QED
      BY <3>2, <3>4, <3>5, ZenonT(30)
  <2>3. AtPage'
    BY <1>2, <1>7, <1>8, <2>1, <2>2 DEF AtPage, Open
  <2>. QED
    BY <1>2, <2>1, <2>3 DEF Ascends, Covers, Listed
<1>. QED
  BY <1>9, <1>10, <1>11, <1>12 DEF ListingInv, Ascends

\* One row up, and from the first to the last.
LEMMA KeyUpInv == ListingInv /\ KeyUp => ListingInv'
<1> SUFFICES ASSUME ListingInv, KeyUp PROVE ListingInv'
  OBVIOUS
<1> DEFINE row == IF screen.row = 0 THEN LogicRow(screen.titles) ELSE screen.row - 1
<1>1. Open /\ Move(row)
  BY DEF KeyUp
<1>2. /\ Len(screen.titles) \in Nat /\ screen.row \in Nat /\ screen.row < Len(screen.titles)
      /\ Len(screen.titles) <= PAD_HIGHT /\ screen.first_line \in Int
      /\ PAD_BOXED_HIGHT > 1 \/ PAD_HIGHT <= 2 => SliderOnRow
  BY <1>1 DEF ListingInv, Shape, Slider, Page
<1>3. row \in 0 .. Len(screen.titles) - 1
  BY <1>2 DEF LogicRow
<1>4. PAD_BOXED_HIGHT > 1 \/ PAD_HIGHT <= 2 =>
        LET max_row == MaxRow(screen.titles)
        IN  scroll_pad(row, screen.row, max_row, LogicRow(screen.titles), screen.first_line)
            + (IF row > max_row THEN max_row ELSE row) = row
  <2> HAVE PAD_BOXED_HIGHT > 1 \/ PAD_HIGHT <= 2
  <2>1. /\ PAD_BOXED_HIGHT \in Nat \ {0} /\ (PAD_BOXED_HIGHT > 1 \/ Len(screen.titles) <= 2)
        /\ MaxRow(screen.titles) \in Int /\ LogicRow(screen.titles) = Len(screen.titles) - 1
        /\ MaxRow(screen.titles) = (IF Len(screen.titles) > PAD_BOXED_HIGHT - 1
                                   THEN PAD_BOXED_HIGHT - 1 ELSE Len(screen.titles) - 1)
    BY <1>2, PagesAssumption, Rows DEF MaxRow, LogicRow
  <2>2. screen.first_line + (IF screen.row > MaxRow(screen.titles) THEN MaxRow(screen.titles) ELSE screen.row)
        = screen.row
    BY <1>1, <1>2 DEF SliderOnRow
  <2>3. row \in Int /\ row = (IF screen.row = 0 THEN Len(screen.titles) - 1 ELSE screen.row - 1)
    BY <1>3, <2>1
  <2>4. PICK r \in Int, len \in Nat, last \in Nat, line \in Int, max_row \in Int :
          /\ r = row /\ len = Len(screen.titles) /\ last = screen.row /\ line = screen.first_line
          /\ max_row = MaxRow(screen.titles)
    BY <1>2, <2>1, <2>3, Zenon
  <2> HIDE DEF row
  <2>5. /\ PAD_BOXED_HIGHT > 1 \/ len <= 2
        /\ last < len /\ max_row = (IF len > PAD_BOXED_HIGHT - 1 THEN PAD_BOXED_HIGHT - 1 ELSE len - 1)
        /\ line + (IF last > max_row THEN max_row ELSE last) = last
        /\ r = (IF last = 0 THEN len - 1 ELSE last - 1)
    BY <1>2, <2>1, <2>2, <2>3, <2>4
  <2>6. scroll_pad(r, last, max_row, len - 1, line) + (IF r > max_row THEN max_row ELSE r) = r
    BY <2>1, <2>5 DEF scroll_pad
  <2>. QED
    BY <2>1, <2>4, <2>6
<1> HIDE DEF row
<1>. QED
  BY <1>1, <1>3, <1>4, MoveInv

\* One row down, and from the last to the first.
LEMMA KeyDownInv == ListingInv /\ KeyDown => ListingInv'
<1> SUFFICES ASSUME ListingInv, KeyDown PROVE ListingInv'
  OBVIOUS
<1> DEFINE row == IF screen.row = LogicRow(screen.titles) THEN 0 ELSE screen.row + 1
<1>1. Open /\ Move(row)
  BY DEF KeyDown
<1>2. /\ Len(screen.titles) \in Nat /\ screen.row \in Nat /\ screen.row < Len(screen.titles)
      /\ Len(screen.titles) <= PAD_HIGHT /\ screen.first_line \in Int
      /\ PAD_BOXED_HIGHT > 1 \/ PAD_HIGHT <= 2 => SliderOnRow
  BY <1>1 DEF ListingInv, Shape, Slider, Page
<1>3. row \in 0 .. Len(screen.titles) - 1
  BY <1>2 DEF LogicRow
<1>4. PAD_BOXED_HIGHT > 1 \/ PAD_HIGHT <= 2 =>
        LET max_row == MaxRow(screen.titles)
        IN  scroll_pad(row, screen.row, max_row, LogicRow(screen.titles), screen.first_line)
            + (IF row > max_row THEN max_row ELSE row) = row
  <2> HAVE PAD_BOXED_HIGHT > 1 \/ PAD_HIGHT <= 2
  <2>1. /\ PAD_BOXED_HIGHT \in Nat \ {0} /\ (PAD_BOXED_HIGHT > 1 \/ Len(screen.titles) <= 2)
        /\ MaxRow(screen.titles) \in Int /\ LogicRow(screen.titles) = Len(screen.titles) - 1
        /\ MaxRow(screen.titles) = (IF Len(screen.titles) > PAD_BOXED_HIGHT - 1
                                   THEN PAD_BOXED_HIGHT - 1 ELSE Len(screen.titles) - 1)
    BY <1>2, PagesAssumption, Rows DEF MaxRow, LogicRow
  <2>2. screen.first_line + (IF screen.row > MaxRow(screen.titles) THEN MaxRow(screen.titles) ELSE screen.row)
        = screen.row
    BY <1>1, <1>2 DEF SliderOnRow
  <2>3. row \in Int /\ row = (IF screen.row = Len(screen.titles) - 1 THEN 0 ELSE screen.row + 1)
    BY <1>3, <2>1
  <2>4. PICK r \in Int, len \in Nat, last \in Nat, line \in Int, max_row \in Int :
          /\ r = row /\ len = Len(screen.titles) /\ last = screen.row /\ line = screen.first_line
          /\ max_row = MaxRow(screen.titles)
    BY <1>2, <2>1, <2>3, Zenon
  <2> HIDE DEF row
  <2>5. /\ PAD_BOXED_HIGHT > 1 \/ len <= 2
        /\ last < len /\ max_row = (IF len > PAD_BOXED_HIGHT - 1 THEN PAD_BOXED_HIGHT - 1 ELSE len - 1)
        /\ line + (IF last > max_row THEN max_row ELSE last) = last
        /\ r = (IF last = len - 1 THEN 0 ELSE last + 1)
    BY <1>2, <2>1, <2>2, <2>3, <2>4
  <2>6. scroll_pad(r, last, max_row, len - 1, line) + (IF r > max_row THEN max_row ELSE r) = r
    BY <2>1, <2>5, SMTT(30) DEF scroll_pad
  <2>. QED
    BY <2>1, <2>4, <2>6
<1> HIDE DEF row
<1>. QED
  BY <1>1, <1>3, <1>4, MoveInv

\* The page is turned: the function is called again for a listing of the same.
LEMMA TurnInv ==
  ASSUME ListingInv, Open, UNCHANGED Paging, no_next_page_flag' \in 0..1,
         NEW c, IsCache(c), NEW cnt \in Nat, NEW bookno \in 0..MAX_BOOK_NUM, NEW whole,
         TurnTo(c, cnt, bookno, whole),
         whole => LET d == clidb_book_backward_mode(c)
                  IN  /\ Ascends(c, bookno) /\ d.search_pos = cnt * PAD_HIGHT
                      /\ \A b \in steady : b \in Listed(c) \/ b > bookno
                      /\ no_next_page_flag' = 1 => steady \subseteq Listed(c)
  PROVE  ListingInv'
<1> DEFINE d == clidb_book_backward_mode(c)
<1>1. Display(screen.mode, screen.shelf, d, cnt, bookno, local_shelfno, bcollect, whole)
  BY DEF TurnTo
<1>2. /\ books \in [BookNo -> Row] /\ local_shelfno \in 0..MAX_SHELF_NUM /\ bcollect \in 0..1
      /\ steady \subseteq Matches(query, books) /\ screen \in Page
  BY DEF ListingInv, Shape
<1>3. /\ query = QueryOf(screen.mode, screen.shelf, bcollect, local_shelfno)
      /\ local_shelfno # NON_SENSE_INT => query = QueryOf("browse", local_shelfno, bcollect, local_shelfno)
  BY DEF ListingInv, Purpose, ListingOfQuery
<1>4. screen.mode \in {"browse", "collect", "search"} /\ screen.shelf \in 0..MAX_SHELF_NUM
  BY <1>2 DEF Page
<1>5. books' = books /\ local_shelfno' = local_shelfno /\ bcollect' = bcollect /\ query' = query /\ steady' = steady
  BY DEF Paging
<1>6. IsCache(d) /\ d.file = c.file /\ d.dbm_pos = c.dbm_pos
  BY BackAnywhere, ZenonT(30)
<1>7. (Ascends(c, bookno) => Ascends(d, bookno)) /\ Listed(d) = Listed(c)
  BY <1>6 DEF Ascends, Listed
<1> HIDE DEF d
<1>8. whole => /\ Ascends(d, bookno) /\ d.search_pos = cnt * PAD_HIGHT
               /\ \A b \in steady' : b \in Listed(d) \/ b > bookno
               /\ no_next_page_flag' = 1 => steady' \subseteq Listed(d)
  BY <1>5, <1>7 DEF d
<1>. QED
  BY <1>1, <1>2, <1>3, <1>4, <1>5, <1>6, <1>8, DisplayInv

\* The page before, twice back from behind this one.
LEMMA KeyLeftInv == ListingInv /\ KeyLeft => ListingInv'
<1> SUFFICES ASSUME ListingInv, KeyLeft PROVE ListingInv'
  OBVIOUS
<1> DEFINE c == clidb_book_backward_mode(cache)
<1>1. /\ Open /\ UNCHANGED Paging /\ TurnTo(c, PageBefore(book_page_cnt), local_bookno, aligned)
      /\ no_next_page_flag' = (IF book_page_cnt > 0 THEN 0 ELSE no_next_page_flag)
  BY DEF KeyLeft
<1>2. /\ IsCache(cache) /\ book_page_cnt \in Nat /\ local_bookno \in 0..MAX_BOOK_NUM
      /\ no_next_page_flag \in 0..1
  BY DEF ListingInv, Shape
<1>3. PageBefore(book_page_cnt) \in Nat /\ no_next_page_flag' \in 0..1
  BY <1>1, <1>2 DEF PageBefore
<1>4. IsCache(c) /\ c.file = cache.file /\ c.dbm_pos = cache.dbm_pos
  BY <1>2, BackAnywhere
<1>5. ASSUME aligned
      PROVE  clidb_book_backward_mode(c).search_pos = PageBefore(book_page_cnt) * PAD_HIGHT
  <2>1. PICK n \in 1..PAD_HIGHT : cache.search_pos = book_page_cnt * PAD_HIGHT + n
    <3>1. screen \in Page /\ screen.row < Len(screen.titles) /\ Len(screen.titles) <= PAD_HIGHT
      BY <1>1 DEF ListingInv, Shape, Slider
    <3>2. Len(screen.titles) \in 1..PAD_HIGHT
      BY <3>1, Rows DEF Page
    <3>. QED
      BY <1>1, <1>5, <3>2 DEF ListingInv, AtPage
  <2>2. c.search_pos = book_page_cnt * PAD_HIGHT
    BY <1>2, <2>1, BackFromPage, ZenonT(30)
  <2> HIDE DEF c
  <2>. QED
    BY <1>2, <1>4, <2>2, BackFromStart
<1>6. aligned => /\ Ascends(c, local_bookno)
                 /\ \A b \in steady : b \in Listed(c) \/ b > local_bookno
                 /\ no_next_page_flag' = 1 => steady \subseteq Listed(c)
  <2> HIDE DEF c
  <2>. QED
    BY <1>1, <1>4 DEF ListingInv, Ascends, Covers, Listed
<1> HIDE DEF c
<1>. QED
  BY <1>1, <1>2, <1>3, <1>4, <1>5, <1>6, TurnInv

\* A page that follows in an aligned listing begins where this one ends, and this
\* one is full.
LEMMA FollowingPage ==
  ASSUME ListingInv, Open, aligned, NEW q,
         NEW out \in next_page_bookinfo(cache, local_bookno, q), out.res > 0, Whole(cache, out)
  PROVE  clidb_book_backward_mode(out.cache).search_pos = (book_page_cnt + 1) * PAD_HIGHT
<1>1. books \in [BookNo -> Row] /\ IsCache(cache) /\ local_bookno \in 0..MAX_BOOK_NUM /\ book_page_cnt \in Nat
  BY SMTT(30) DEF ListingInv, Shape
<1>0. PageTurned(cache, local_bookno, q, out)
  BY <1>1, NextPage, ZenonT(30)
<1>2. /\ IsCache(out.cache) /\ out.res \in 1..PAD_HIGHT
      /\ out.cache.dbm_pos >= cache.dbm_pos
      /\ out.cache.search_pos = cache.search_pos + out.res
      /\ out.cache.dbm_pos > cache.dbm_pos => cache.search_pos = cache.dbm_pos
  BY <1>0, Rows DEF PageTurned
<1>3. PICK n \in 1..PAD_HIGHT, start \in Nat :
        /\ start = book_page_cnt * PAD_HIGHT /\ cache.search_pos = start + n
        /\ n < PAD_HIGHT => cache.search_pos = cache.dbm_pos
  <2>1. screen \in Page /\ screen.row < Len(screen.titles) /\ Len(screen.titles) <= PAD_HIGHT
    BY DEF ListingInv, Shape, Slider
  <2>2. Len(screen.titles) \in 1..PAD_HIGHT
    BY <2>1, Rows DEF Page
  <2>3. book_page_cnt * PAD_HIGHT \in Nat
    BY <1>1, Rows
  <2>. QED
    BY <2>2, <2>3 DEF ListingInv, AtPage
<1>4. n = PAD_HIGHT
  <2> SUFFICES ASSUME n < PAD_HIGHT PROVE FALSE
    BY Rows
  <2>1. cache.search_pos = cache.dbm_pos
    BY <1>3
  <2>2. out.cache.dbm_pos > cache.dbm_pos
    BY <1>1, <1>2, <2>1 DEF IsCache
  <2>3. (start + n) % PAD_HIGHT = 0
    BY <1>3, <2>1, <2>2 DEF Whole
  <2>4. (start + n) % PAD_HIGHT = n
    BY <1>1, <1>3, Rows, SMTT(30)
  <2>. QED
    BY <2>3, <2>4
<1>5. out.cache.search_pos = (book_page_cnt + 1) * PAD_HIGHT + out.res
  <2>1. start + PAD_HIGHT = (book_page_cnt + 1) * PAD_HIGHT
    BY <1>1, <1>3, Rows, SMTT(30)
  <2>. QED
    BY <1>2, <1>3, <1>4, <2>1, Rows
<1>. QED
  BY <1>1, <1>2, <1>5, BackFromPage

\* The next page of the listing on the screen: the file stays a listing, and when
\* there is no next page everything is listed.
LEMMA NextOfListing ==
  ASSUME ListingInv, NEW out \in next_page_bookinfo(cache, local_bookno, query)
  PROVE  /\ IsCache(out.cache) /\ out.bookno \in 0..MAX_BOOK_NUM
         /\ aligned /\ out.res = 0 => steady \subseteq Listed(cache)
         /\ aligned /\ Whole(cache, out) =>
              /\ Ascends(out.cache, out.bookno)
              /\ \A b \in steady : b \in Listed(out.cache) \/ b > out.bookno
<1>1. books \in [BookNo -> Row] /\ IsCache(cache) /\ local_bookno \in 0..MAX_BOOK_NUM
  BY DEF ListingInv, Shape
<1>2. /\ steady \subseteq Matches(query, books)
      /\ aligned => Ascends(cache, local_bookno) /\ \A b \in steady : b \in Listed(cache) \/ b > local_bookno
  BY DEF ListingInv, Shape, Covers
<1>3. PICK c, n, q : c = cache /\ n = local_bookno /\ q = query
  OBVIOUS
<1>4. IsCache(c) /\ n \in 0..MAX_BOOK_NUM /\ out \in next_page_bookinfo(c, n, q)
  BY <1>1, <1>3, SMTT(30)
<1>0. PageTurned(c, n, q, out)
  BY <1>1, <1>4, NextPage
<1>5. /\ IsCache(out.cache) /\ out.bookno \in 0..MAX_BOOK_NUM
      /\ out.cache.dbm_pos >= c.dbm_pos
      /\ \A i \in 0 .. c.dbm_pos - 1 : out.cache.file[i] = c.file[i]
      /\ out.res = 0 => \A b \in Matches(q, books) : ~(b > n)
      /\ Whole(c, out) /\ Ascends(c, n) => Ascends(out.cache, out.bookno)
      /\ Whole(c, out) =>
           \A b \in Matches(q, books) : b > n => b \in Listed(out.cache) \/ b > out.bookno
  BY <1>0, Zenon DEF PageTurned
<1>6. Listed(c) \subseteq Listed(out.cache)
  BY <1>4, <1>5, StaysListed, ZenonT(30)
<1>7. aligned /\ out.res = 0 => steady \subseteq Listed(cache)
  BY <1>2, <1>3, <1>5
<1>. QED
  BY <1>2, <1>3, <1>5, <1>6, <1>7

\* The next page, the last page, or an error.
LEMMA KeyRightInv == ListingInv /\ KeyRight => ListingInv'
<1> SUFFICES ASSUME ListingInv, KeyRight PROVE ListingInv'
  OBVIOUS
<1>1. Open /\ UNCHANGED Paging
  BY Zenon DEF KeyRight
<1>2. UNCHANGED <<books, local_shelfno, bcollect, query, steady>>
  BY <1>1 DEF Paging
<1>3. /\ Shape /\ books \in [BookNo -> Row] /\ IsCache(cache) /\ local_bookno \in 0..MAX_BOOK_NUM
      /\ book_page_cnt \in Nat /\ steady \subseteq Matches(query, books)
      /\ query = QueryOf(screen.mode, screen.shelf, bcollect, local_shelfno)
  BY <1>1, ZenonT(30) DEF ListingInv, Shape, Purpose, ListingOfQuery
<1>4. CASE UNCHANGED <<cache, local_bookno, book_page_cnt, no_next_page_flag, screen, aligned>>
  BY <1>2, <1>4, ZenonT(30) DEF ListingInv, Shape, Matches, Slider, SliderOnRow, Open, Purpose, ListingOfQuery,
                    Ascends, AtPage, Covers, Listed
<1>5. ASSUME no_next_page_flag = 0,
             NEW out \in next_page_bookinfo(cache, local_bookno, query)
      PROVE  /\ out.res = -1 /\ cache' = out.cache /\ screen' = Closed /\ aligned' = FALSE
             /\ UNCHANGED <<local_bookno, book_page_cnt, no_next_page_flag>>
             => ListingInv'
  <2> SUFFICES ASSUME cache' = out.cache, screen' = Closed, aligned' = FALSE,
                      UNCHANGED <<local_bookno, book_page_cnt, no_next_page_flag>>
               PROVE  ListingInv'
    BY Zenon
  <2>1. IsCache(cache')
    BY NextOfListing, Zenon
  <2>2. ~Open' /\ ~aligned'
    BY SMTT(30) DEF Open
  <2>. QED
    BY <1>2, <1>3, <2>1, <2>2 DEF ListingInv, Shape, Matches, Slider, Purpose, ListingOfQuery
<1>6. ASSUME NEW out \in next_page_bookinfo(cache, local_bookno, query), out.res = 0,
             no_next_page_flag' = 1,
             UNCHANGED <<cache, local_bookno, book_page_cnt, screen, aligned>>
      PROVE  ListingInv'
  <2>1. aligned => steady \subseteq Listed(cache)
    BY <1>6, NextOfListing
  <2>2. aligned => Covers'
    BY <1>2, <1>6, <2>1 DEF ListingInv, Covers, Listed
  <2>3. Shape'
    BY <1>2, <1>3, <1>6 DEF Shape, Matches, Open
  <2>4. Slider' /\ Purpose'
    BY <1>2, <1>6, ZenonT(30) DEF ListingInv, Slider, SliderOnRow, Open, Purpose, ListingOfQuery
  <2>5. aligned => Ascends(cache', local_bookno') /\ AtPage'
    BY <1>6 DEF ListingInv, Ascends, AtPage, Open
  <2>. QED
    BY <1>6, <2>2, <2>3, <2>4, <2>5, Zenon DEF ListingInv, Ascends
<1>7. ASSUME no_next_page_flag = 0, NEW out \in next_page_bookinfo(cache, local_bookno, query), out.res > 0,
             TurnTo(out.cache, book_page_cnt + 1, out.bookno, aligned /\ Whole(cache, out)),
             UNCHANGED no_next_page_flag
      PROVE  ListingInv'
  <2>1. IsCache(out.cache) /\ out.bookno \in 0..MAX_BOOK_NUM
    BY NextOfListing, Zenon
  <2>2. PICK whole : whole = (aligned /\ Whole(cache, out))
    OBVIOUS
  <2>3. ASSUME whole
        PROVE  /\ Ascends(out.cache, out.bookno)
               /\ clidb_book_backward_mode(out.cache).search_pos = (book_page_cnt + 1) * PAD_HIGHT
               /\ \A b \in steady : b \in Listed(out.cache) \/ b > out.bookno
    <3>1. aligned /\ Whole(cache, out)
      BY <2>2, <2>3, Zenon
    <3>2. clidb_book_backward_mode(out.cache).search_pos = (book_page_cnt + 1) * PAD_HIGHT
      BY <1>1, <1>7, <3>1, FollowingPage
    <3>. QED
      BY <3>1, <3>2, NextOfListing
  <2>4. no_next_page_flag' \in 0..1 /\ no_next_page_flag' # 1 /\ book_page_cnt + 1 \in Nat
    BY <1>3, <1>7
  <2>5. TurnTo(out.cache, book_page_cnt + 1, out.bookno, whole)
    BY <1>7, <2>2, ZenonT(30)
  <2>. QED
    BY <1>1, <2>1, <2>3, <2>4, <2>5, TurnInv
<1>. QED
  BY <1>3, <1>4, <1>5, <1>6, <1>7, Zenon DEF KeyRight

\* The page is left for the start of it.
LEMMA KeyBackspaceInv == ListingInv /\ KeyBackspace => ListingInv'
<1> SUFFICES ASSUME ListingInv, KeyBackspace PROVE ListingInv'
  OBVIOUS
<1>1. /\ Open /\ cache' = clidb_book_backward_mode(cache) /\ screen' = Closed
      /\ UNCHANGED <<books, local_shelfno, bcollect, query, steady, local_bookno, book_page_cnt,
                     no_next_page_flag, aligned>>
  BY DEF KeyBackspace, Paging
<1>2. Shape /\ IsCache(cache) /\ book_page_cnt \in Nat
  BY DEF ListingInv, Shape
<1>3. IsCache(cache') /\ cache'.file = cache.file /\ cache'.dbm_pos = cache.dbm_pos
  BY <1>1, <1>2, BackAnywhere
<1>4. ~Open'
  BY <1>1 DEF Open
<1>5. Shape' /\ Slider' /\ Purpose'
  BY <1>1, <1>2, <1>3, <1>4 DEF ListingInv, Shape, Matches, Slider, Purpose, ListingOfQuery
<1>6. ASSUME aligned PROVE cache'.search_pos = book_page_cnt * PAD_HIGHT
  <2>1. screen \in Page /\ screen.row < Len(screen.titles) /\ Len(screen.titles) <= PAD_HIGHT
    BY <1>1 DEF ListingInv, Shape, Slider
  <2>2. Len(screen.titles) \in 1..PAD_HIGHT
    BY <2>1, Rows DEF Page
  <2>3. cache.search_pos = book_page_cnt * PAD_HIGHT + Len(screen.titles)
    BY <1>1, <1>6, ZenonT(30) DEF ListingInv, AtPage
  <2>. QED
    BY <1>1, <1>2, <2>2, <2>3, BackFromPage
<1>7. ASSUME aligned' PROVE Ascends(cache', local_bookno') /\ AtPage' /\ Covers'
  <2>1. Ascends(cache, local_bookno) /\ Covers
    BY <1>1, <1>7 DEF ListingInv
  <2>2. AtPage'
    BY <1>1, <1>4, <1>6, <1>7 DEF AtPage
  <2>. QED
    BY <1>1, <1>3, <2>1, <2>2 DEF Ascends, Covers, Listed
<1>. QED
  BY <1>5, <1>7 DEF ListingInv, Ascends

\* Books that change on the server leave the listing as it is, and nothing joins
\* the books that belonged to it all along.
LEMMA BecomeInv ==
  ASSUME ListingInv, NEW table \in [BookNo -> Row], Become(table),
         UNCHANGED <<statics, query, aligned>>, UNCHANGED <<cache, screen>>
  PROVE  ListingInv'
<1>1. UNCHANGED <<local_shelfno, local_bookno, book_page_cnt, bcollect, no_next_page_flag, query, aligned>>
  BY DEF statics
<1>2. books' = table /\ steady' = steady \cap Matches(query, table)
  BY DEF Become
<1>3. Shape'
  <2>1. (steady \subseteq Matches(query, books))'
    BY <1>1, <1>2 DEF Matches
  <2>. QED
    BY <1>1, <1>2, <2>1 DEF ListingInv, Shape, Open
<1>4. Slider' /\ Purpose'
  BY <1>1 DEF ListingInv, Slider, SliderOnRow, Open, Purpose, ListingOfQuery
<1>5. aligned => Ascends(cache', local_bookno') /\ AtPage'
  BY <1>1, ZenonT(30) DEF ListingInv, Ascends, AtPage, Open
<1>6. aligned => Covers'
  BY <1>1, <1>2, Zenon DEF ListingInv, Covers, Listed
<1>. QED
  BY <1>1, <1>3, <1>4, <1>5, <1>6 DEF ListingInv, Ascends

\* The copy of the book under the slider is overwritten, with the same number.
LEMMA StoreInv ==
  ASSUME ListingInv, Open, NEW table \in [BookNo -> Row], Become(table), UNCHANGED Kept,
         NEW e \in Entry, e.code = screen.local_book.code,
         cache' \in {StoreAt(cache, CurPos(screen.row), e), cache},
         screen' = [screen EXCEPT !.local_book = e]
  PROVE  ListingInv'
<1> DEFINE pos == CurPos(screen.row)
<1>1. UNCHANGED <<local_shelfno, local_bookno, book_page_cnt, bcollect, no_next_page_flag, query, aligned>>
  BY DEF Kept, statics
<1>2. books' = table /\ steady' = steady \cap Matches(query, table)
  BY DEF Become
<1>3. Shape /\ Slider /\ Purpose /\ IsCache(cache) /\ screen \in Page /\ book_page_cnt \in Nat
  BY DEF ListingInv, Shape
<1>4. /\ screen' \in Page /\ screen'.titles = screen.titles /\ screen'.row = screen.row
      /\ screen'.first_line = screen.first_line /\ screen'.mode = screen.mode
      /\ screen'.shelf = screen.shelf /\ screen'.local_book = e
  BY <1>3 DEF Page
<1>5. Open'
  BY <1>3, <1>4 DEF Open, Closed, Page
<1>6. pos \in Nat /\ pos = book_page_cnt * PAD_HIGHT + screen.row
  BY <1>3, Rows DEF CurPos, cur_dbm_pos, Page
<1> HIDE DEF pos
<1>7. /\ IsCache(cache') /\ cache'.dbm_pos = cache.dbm_pos /\ cache'.search_pos = cache.search_pos
      /\ \A i \in 0 .. cache.dbm_pos - 1 : i # pos => cache'.file[i] = cache.file[i]
      /\ cache' # cache => cache'.file[pos] = e
  <2>1. CASE cache' = cache
    BY <1>3, <2>1
  <2>2. CASE cache' = StoreAt(cache, pos, e)
    <3> DEFINE F == [k \in DOMAIN cache.file \cup {pos} |-> IF k = pos THEN e ELSE cache.file[k]]
    <3>1. /\ DOMAIN F = DOMAIN cache.file \cup {pos} /\ F[pos] = e /\ F \in [DOMAIN F -> Entry]
          /\ \A i \in DOMAIN cache.file : i # pos => F[i] = cache.file[i]
      BY <1>3 DEF IsCache
    <3>2. cache' = [cache EXCEPT !.file = F]
      BY <2>2 DEF StoreAt
    <3> HIDE DEF F
    <3>3. cache' = [file |-> F, dbm_pos |-> cache.dbm_pos, search_pos |-> cache.search_pos]
      BY <1>3, <3>2 DEF IsCache
    <3>. QED
      BY <1>3, <1>6, <3>1, <3>3 DEF IsCache
  <2>. QED
    BY <2>1, <2>2 DEF pos
<1>8. Shape'
  <2>1. (steady \subseteq Matches(query, books))'
    BY <1>1, <1>2, <1>3 DEF Matches, Shape
  <2>. QED
    BY <1>1, <1>2, <1>3, <1>4, <1>7, <2>1 DEF Shape
<1>9. Slider' /\ Purpose'
  BY <1>1, <1>3, <1>4 DEF Slider, SliderOnRow, Open, Purpose, ListingOfQuery
<1>10. ASSUME aligned PROVE Ascends(cache', local_bookno') /\ AtPage' /\ Covers'
  <2>1. Ascends(cache, local_bookno) /\ AtPage /\ Covers
    BY <1>10 DEF ListingInv
  <2>2. PICK start \in Nat : start = book_page_cnt * PAD_HIGHT
    BY <1>3, Rows
  <2>3. /\ cache.search_pos = start + Len(screen.titles) /\ pos = start + screen.row
        /\ Len(screen.titles) <= PAD_HIGHT
        /\ Len(screen.titles) < PAD_HIGHT => cache.search_pos = cache.dbm_pos
        /\ \A i \in 1..Len(screen.titles) : screen.titles[i] = cache.file[start + i - 1].code
        /\ screen.local_book.code = screen.titles[screen.row + 1]
    BY <1>6, <2>1, <2>2 DEF AtPage
  <2>4. /\ Len(screen.titles) \in Nat /\ screen.row \in Nat /\ screen.row < Len(screen.titles)
        /\ cache.dbm_pos \in Nat /\ cache.search_pos <= cache.dbm_pos
    BY <1>3 DEF Page, Slider, IsCache
  <2>5. cache.file[pos].code = e.code
    <3>1. screen.row + 1 \in 1..Len(screen.titles) /\ start + (screen.row + 1) - 1 = pos
      BY <2>3, <2>4
    <3>. QED
      BY <2>3, <3>1
  <2>6. \A i \in 0 .. cache.dbm_pos - 1 : cache'.file[i].code = cache.file[i].code
    BY <1>7, <2>5
  <2>7. Ascends(cache', local_bookno')
    BY <1>1, <1>7, <2>1, <2>6 DEF Ascends
  <2>8. Listed(cache') = Listed(cache)
    BY <1>7, <2>6 DEF Listed
  <2>9. Covers'
    BY <1>1, <1>2, <2>1, <2>8, ZenonT(30) DEF Covers, Listed
  <2>10. \A i \in 1..Len(screen.titles) : screen.titles[i] = cache'.file[start + i - 1].code
    <3> TAKE i \in 1..Len(screen.titles)
    <3>1. start + i - 1 \in 0 .. cache.dbm_pos - 1
      BY <2>3, <2>4, SMTT(30)
    <3>. QED
      BY <2>3, <2>6, <3>1
  <2>11. AtPage'
    BY <1>1, <1>4, <1>5, <1>7, <2>2, <2>3, <2>10 DEF AtPage, Open
  <2>. QED
    BY <2>7, <2>9, <2>11
<1>. QED
  BY <1>1, <1>8, <1>9, <1>10 DEF ListingInv, Ascends

\* A request for the book under the slider, executed or not.
LEMMA RequestInv ==
  ASSUME ListingInv, Open, UNCHANGED Kept, NEW table \in [BookNo -> Row],
         NEW e \in Entry, e.code = screen.local_book.code,
         NEW c \in {StoreAt(cache, CurPos(screen.row), e), cache},
         Request(table, [cache |-> c, local_book |-> e])
  PROVE  ListingInv'
<1>1. books \in [BookNo -> Row]
  BY DEF ListingInv, Shape
<1>2. CASE Become(table) /\ cache' = c /\ screen' = [screen EXCEPT !.local_book = e]
  BY <1>2, StoreInv, ZenonT(30)
<1>3. CASE (\E t \in {table, books} : Become(t)) /\ UNCHANGED <<cache, screen>>
  <2>1. UNCHANGED <<statics, query, aligned>>
    BY DEF Kept
  <2>. QED
    BY <1>1, <1>3, <2>1, BecomeInv, SMTT(30)
<1>. QED
  BY <1>2, <1>3, SMTT(30) DEF Request

\* The book is collected.
LEMMA CollectingInv == ListingInv /\ client_shelf_collecting_book => ListingInv'
<1> SUFFICES ASSUME ListingInv, client_shelf_collecting_book PROVE ListingInv'
  OBVIOUS
<1> DEFINE e == screen.local_book
           taken == [e EXCEPT !.mark = "collected"]
           table == [books EXCEPT ![e.code] = [cleaned |-> BOOK_AVL, shelfno |-> local_shelfno]]
<1>1. /\ Open /\ UNCHANGED Kept
      /\ Request(table, [cache |-> StoreAt(cache, CurPos(screen.row), taken), local_book |-> taken])
  BY DEF client_shelf_collecting_book
<1>2. books \in [BookNo -> Row] /\ local_shelfno \in 0..MAX_SHELF_NUM /\ e \in Entry
  BY <1>1 DEF ListingInv, Shape, Page
<1>3. taken \in Entry /\ taken.code = e.code
  BY <1>2 DEF Entry
<1>4. [cleaned |-> BOOK_AVL, shelfno |-> local_shelfno] \in Row
  BY <1>2 DEF Row
<1>5. table \in [BookNo -> Row]
  BY <1>2, <1>4, Zenon
<1> HIDE DEF taken, table
<1>. QED
  BY <1>1, <1>3, <1>5, RequestInv, Zenon

\* The book is moved or tagged.
LEMMA MovingInv == ListingInv /\ client_shelf_moving_book => ListingInv'
<1> SUFFICES ASSUME ListingInv, client_shelf_moving_book PROVE ListingInv'
  OBVIOUS
<1> DEFINE e == screen.local_book
           table == [books EXCEPT ![e.code] = [cleaned |-> BOOK_AVL, shelfno |-> e.shelfno]]
<1>1. /\ Open /\ UNCHANGED Kept
      /\ Request(table, [cache |-> StoreAt(cache, CurPos(screen.row), e), local_book |-> e])
  BY DEF client_shelf_moving_book
<1>2. books \in [BookNo -> Row] /\ e \in Entry
  BY <1>1 DEF ListingInv, Shape, Page
<1>3. [cleaned |-> BOOK_AVL, shelfno |-> e.shelfno] \in Row
  BY <1>2 DEF Row, Entry
<1>4. table \in [BookNo -> Row]
  BY <1>2, <1>3, Zenon
<1> HIDE DEF table
<1>. QED
  BY <1>1, <1>2, <1>4, RequestInv, ZenonT(30)

\* The book is deleted.
LEMMA DeleteInv == ListingInv /\ client_shelf_delete_book => ListingInv'
<1> SUFFICES ASSUME ListingInv, client_shelf_delete_book PROVE ListingInv'
  OBVIOUS
<1> DEFINE e == screen.local_book
           gone == [e EXCEPT !.mark = "deleted"]
           table == [books EXCEPT ![e.code].cleaned = BOOK_DEL]
           c == IF CurPos(screen.row) \in DOMAIN cache.file
                THEN StoreAt(cache, CurPos(screen.row), gone) ELSE cache
<1>1. Open /\ UNCHANGED Kept /\ Request(table, [cache |-> c, local_book |-> gone])
  BY DEF client_shelf_delete_book
<1>2. books \in [BookNo -> Row] /\ e \in Entry
  BY <1>1 DEF ListingInv, Shape, Page
<1>3. gone \in Entry /\ gone.code = e.code
  BY <1>2 DEF Entry
<1>4. table \in [BookNo -> Row]
  BY <1>2, Zenon DEF Row
<1>5. c \in {StoreAt(cache, CurPos(screen.row), gone), cache}
  OBVIOUS
<1> HIDE DEF gone, table, c
<1>. QED
  BY <1>1, <1>3, <1>4, <1>5, RequestInv, Zenon

\* A book is added.
LEMMA NewBookInv == ASSUME ListingInv, NEW s \in ShelfNo, add_newbook_page(s) PROVE ListingInv'
<1>1. PICK b \in BookNo : Become([books EXCEPT ![b] = [cleaned |-> BOOK_AVL, shelfno |-> s]])
  BY ZenonT(30) DEF add_newbook_page
<1>2. [books EXCEPT ![b] = [cleaned |-> BOOK_AVL, shelfno |-> s]] \in [BookNo -> Row]
  BY DEF ListingInv, Shape, Row, ShelfNo
<1>3. UNCHANGED <<statics, query, aligned>> /\ UNCHANGED <<cache, screen>>
  BY DEF add_newbook_page
<1>. QED
  BY <1>1, <1>2, <1>3, BecomeInv, ZenonT(30)

\* A shelf is taken down.
LEMMA DeleteShelfInv == ASSUME ListingInv, NEW s \in ShelfNo, delete_shelf_page(s) PROVE ListingInv'
<1> DEFINE table(to) == [b \in BookNo |-> IF books[b].shelfno = s
                                          THEN [books[b] EXCEPT !.cleaned = to] ELSE books[b]]
<1>1. PICK to \in {BOOK_UNSORTED, BOOK_DEL} : Become(table(to))
  BY DEF delete_shelf_page
<1>2. table(to) \in [BookNo -> Row]
  BY DEF ListingInv, Shape, Row
<1>3. UNCHANGED <<statics, query, aligned>> /\ UNCHANGED <<cache, screen>>
  BY DEF delete_shelf_page
<1> HIDE DEF table
<1>. QED
  BY <1>1, <1>2, <1>3, BecomeInv

\* Another client changes a book.
LEMMA OtherClientInv == ListingInv /\ OtherClient => ListingInv'
<1> SUFFICES ASSUME ListingInv, OtherClient PROVE ListingInv'
  OBVIOUS
<1>1. PICK b \in Others, row \in Row : Become([books EXCEPT ![b] = row])
  BY DEF OtherClient
<1>2. [books EXCEPT ![b] = row] \in [BookNo -> Row]
  BY Zenon DEF ListingInv, Shape
<1>3. UNCHANGED <<statics, query, aligned>> /\ UNCHANGED <<cache, screen>>
  BY DEF OtherClient
<1>. QED
  BY <1>1, <1>2, <1>3, BecomeInv, Zenon

\* Every step keeps the invariant.
LEMMA NextInv == ListingInv /\ [Next]_vars => ListingInv'
<1> SUFFICES ASSUME ListingInv, [Next]_vars PROVE ListingInv'
  OBVIOUS
<1>1. ASSUME NEW s \in ShelfNo, NEW collect \in 0..1, OpenShelf(s, collect) PROVE ListingInv'
  BY <1>1, OpenShelfInv
<1>2. ASSUME NEW s \in ShelfNo \cup {NON_SENSE_INT}, OpenSearch(s) PROVE ListingInv'
  BY <1>2, OpenSearchInv
<1>3. CASE Key
  BY <1>3, KeyUpInv, KeyDownInv, KeyLeftInv, KeyRightInv, KeyBackspaceInv DEF Key
<1>4. CASE client_shelf_collecting_book \/ client_shelf_moving_book \/ client_shelf_delete_book
  BY <1>4, CollectingInv, MovingInv, DeleteInv
<1>5. ASSUME NEW s \in ShelfNo, add_newbook_page(s) \/ delete_shelf_page(s) PROVE ListingInv'
  BY <1>5, NewBookInv, DeleteShelfInv
<1>6. CASE OtherClient
  BY <1>6, OtherClientInv, SMTT(30)
<1>7. CASE UNCHANGED vars
  BY <1>7, ZenonT(30) DEF vars, statics, ListingInv, Shape, Matches, Slider, SliderOnRow, Open, Purpose, ListingOfQuery,
              Ascends, AtPage, Covers, Listed
<1>. QED
  BY <1>1, <1>2, <1>3, <1>4, <1>5, <1>6, <1>7 DEF Next

-----------------------------------------------------------------------------
(* The theorems.                                                           *)

\* The inductive invariant holds.
THEOREM Listing == Spec => []ListingInv
  BY InitInv, NextInv, PTL DEF Spec

\* The book the client acts on (cur_dbm_pos and clidb_book_peek) is the one whose
\* title the slider points at, as long as the listing is aligned.
THEOREM RowIsBookAlways == Spec => []AlignedRowIsBook
<1>1. ListingInv => AlignedRowIsBook
  BY DEF ListingInv, AtPage, AlignedRowIsBook, RowIsBook
<1>. QED
  BY <1>1, Listing, PTL

\* scroll_pad and move_slider together point at the current row whatever was
\* pressed, on a screen of more than one row and for pages of any length.
THEOREM SliderAlways == ASSUME PAD_BOXED_HIGHT > 1 PROVE Spec => []SliderOnRow
<1>1. ListingInv => SliderOnRow
  BY DEF ListingInv, Slider, SliderOnRow
<1>. QED
  BY <1>1, Listing, PTL

\* No book is listed twice, and the numbers ascend over all pages.
THEOREM AscendingAlways == Spec => []Ascending
<1>1. ListingInv => Ascending
  BY DEF ListingInv, Ascends, Ascending
<1>. QED
  BY <1>1, Listing, PTL

\* On the last page every book that belonged to the listing all along is listed.
THEOREM AllListedAlways == Spec => []AllListed
<1>1. ListingInv => AllListed
  BY DEF ListingInv, Covers, Listed, AllListed
<1>. QED
  BY <1>1, Listing, PTL

\* The pages are of what the user asked for, aligned or not.
THEOREM ListingOfQueryAlways == Spec => []ListingOfQuery
<1>1. ListingInv => ListingOfQuery
  BY DEF ListingInv, Purpose
<1>. QED
  BY <1>1, Listing, PTL

=============================================================================
