# bookshelfdq in TLA+

bookshelfdq keeps a private library in order: users log in from an ncurses
client, build shelves, put books on them, search, borrow and remove them; a
server keeps everything in MySQL. This directory models the program, checks the
models with TLC and proves the most important invariants with TLAPS.

## The system and its parts

| Part | Source | What it holds and does | Who runs it |
|---|---|---|---|
| Select loop | `bsdqserver/socketsrv.c`, `bsdq_server.c` | descriptor sets `readfds`, `recordfds`, `max_fd_num`, static `fd_loop`; accepts, closes, reads one packet per visit, dispatches, answers | one process, one thread |
| Tables | `bsdqserver/srvdb.c` | `<user>_books`, `<user>_shelves`; rows are never removed, `cleaned` tells deleted rows, whose numbers are reused | called by the dispatcher |
| Accounts | `srvdb.c`, `srvshell.c` | `bsdq_accounts`; registration, verification, administrator | dispatcher, and the server's start |
| MySQL connection | `srvdb.c` | one connection, lost when idle or at any statement; a statement may also be refused on a connection that stays up; one attempt to reconnect, no statement repeated | external, concurrent |
| Client transport | `bsdqclient/socketcli.c`, `find_from_server` | one socket; requests and answers carry no identification; 2 s timeout | main thread, and a heartbeat thread writing to the same socket |
| Shelf cache | `clidb.c`, `clishell.c` | dbm file per user that outlives the client: shelves and the array `shelf_record`; synchronised at each login | main thread; the process may end between two writes |
| Book cache | `clidb.c`, `ncgui.c` | dbm file of the books listed, filled by answers of `DEFAULT_FINDS` rows; static variables of the page of books that outlive it | main thread |
| Pages | `ncgui.c`, `bookMan.c` | login, registration, menus, forms, the password asked for before changes, the counts `gui_sc`, `gui_bc` | main thread |
| Monitor | `TOOLS/monbsdq.sh` | starts a server that does not run | cron |

They interact as follows. A client opens a connection, verifies its account
(the server creates the user's tables on that occasion), synchronises its shelf
cache, counts the books, starts its heartbeat thread, and then sends one request
at a time. The server handles one request at a time, each by one wrapper of
`srvdb.c` that issues one to four SQL statements. So the concurrency is: several
clients against each other at the granularity of requests, a client's two
threads on one socket, the network between, MySQL dropping the connection or
refusing a statement in the middle of a request, and processes that end anywhere.

What could go wrong in this code and would hardly be met by a test is listed,
with its line, under `hazards` in `PROJECT.json`.

## Modules

| Module | Models | State | Actions |
|---|---|---|---|
| `Clisrv` | `clisrv.h` | – | constants |
| `MySql` | the connection | `conn` | `IdleTimeout`; `Statement`, `Select`, `get_simple_result` are the outcomes of a query, a query for one value, and of reading it |
| `SrvDb` | the tables of one user | `books`, `shelves`, `reply` | one per wrapper; a wrapper is one action however many statements it issues, because the server is single threaded and MySQL has no other writer; the failures of and between statements are choices inside it |
| `IdPool` | what the numbering promises | `live`, `grant` | `Acquire`, `Release`, `Refuse` |
| `Library` | the clients of one user at work on `SrvDb` (composition) | per client `page`, `known`, `at`, `listing`, `coming` | one per request of `clishell.c` about books and shelves, searches included, each a wrapper of `SrvDb` together with what the client does before and after it; a client that ends and begins anew |
| `BookPages` | the pages of one client's listing | `books`, `cache`, the static variables of `display_bookinfo_page`, `screen` | opening a shelf, the books to collect or a search; one per key; the changes to the book under the slider; another client |
| `Forms` | the forms of `ncgui.c` | – | operators: what a key makes of a form's local variables |
| `BookMan` | the client program and its pages (composes `Forms`) | `pc`, the form, `purpose` and the static `bcollect` of the page of books, `current_page`, `global_pw_verified`, descriptors, `hb`, `thread_running` | one or a few per page, `thread_heartbeat`, `Join` |
| `Accounts` | accounts and users' tables | `accounts`, `archive`, `server`, `reply` | `Start`, `Stop`, `Register`, `Login`, `VerifyAdmin`, `srvdb_account_update` |
| `SocketSrv` | the select loop and TCP | descriptor sets, `pending`, `fdOf`, `link`, `up`, `down`, `executed` | one per branch of `socket_srv_fetch_client`, and `socket_srv_process_request` |
| `Session` | clients on top of `SocketSrv` (composition) | `mode`, `sent`, `nfinds`, `beats`, `outcome` | the calls of `socketcli.c` and the body of `find_from_server` |
| `ShelfSync` | a client's shelf cache | `remote`, `data`, `saved`, `shelf_record`, `inbox`, counts | one per exchange of the login, the pages that change shelves, the end of the process between any two writes, another client |

`MCSrvDb`, `MCAccounts`, `MCSession`, `MCShelfSync`, `MCBookPages`, `MCLibrary` and
`MCBookMan` give the constants values. `SrvDbProofs`, `AccountsProofs`,
`SessionProofs`, `ShelfSyncProofs`, `BookPagesProofs`, `LibraryProofs`,
`LibraryAloneProofs` and `BookManProofs` hold the theorems. A definition named `X_Something` is a plausible mistake in `X`; putting
it in the place of `X` makes the property that `PROJECT.json` names fail, which
shows that the property depends on that code.

History variables (`writer`, `alone` and `left` in `Library`; `skewed` in
`SocketSrv`; `query`, `steady` and `aligned` in `BookPages`; `since`, `op`, `owner` and `locked` in `BookMan`; `quiet`
and `unsettled` in `ShelfSync`) are read by properties only. `faults` in
`ShelfSync` is chosen in the initial state and never changes: the two kinds of
behaviour, with processes ending and statements failing and without, are in one
specification.

Abstractions. Titles, authors, labels and times are opaque values: the wrappers
only copy them. `Library` keeps the two flags and the label of a book, `BookPages`
its number, shelf and column `cleaned`, `BookMan` the first byte of title and
author, because a test in `client_shelf_insert_book` is about that byte. Floors
and depths are in `Forms`. A packet is a record with its kind and the
number of its request, which the real packet does not have: it is there only
for the properties, and no action of the client looks at it. A packet arrives
whole, but several may arrive in one `recv`. A password hash is a record that
matches one password. In `ShelfSync` the server is the function of the shelves
in use, and gives out the smallest unused number, which is what the reuse of
the smallest deleted number and the density of numbers (theorem `DenseNumbers`)
amount to. In `BookPages` the server is the table of books. In these two and in
`Library` a request of the session and its answer are one step, since
what can come between them is the subject of `Session`; that the answer does not
come is a choice (`faults`, `Faults`, `Lossy`). In `BookMan` a request succeeds or
fails, and what a page offers because of the server's counts is left open. A
search in `Library` finds any set of the books on one shelf or on all. The page of
search results is given a shelf of which only the number was ever set
(`ncgui.c:321`, `374`): in `BookMan` its height and depths are any of `StackShelf`,
what an uninitialised variable may hold.

## Runs

| Run | Shows | Bounds |
|---|---|---|
| `tables` | numbers stay within the capacity and dense; placing a row touches no row in use and places one; a refused request found a row under every number, and all of them in use unless a statement was refused or failed on a connection closed before; the shelves table implements `IdPool` | 3 books, 2 shelves, unreliable connection, statements refused: reuse, append and full all occur |
| `accounts` | names unique, number bounded, verification exact, a successful login has its tables | 2 users beside the administrator, 2 passwords, limit 2 |
| `session` | descriptor sets exact, loop never blocks, every request answered, connections released | 2 clients, one request and one heartbeat each, ending anywhere, descriptors below and above the listening one, answers of up to 2 rows |
| `session_faults` | requests executed at most once, in order; a client that has not given up waiting, and of which the server has not read several heartbeats and nothing else at once, takes only its own answers and is told of success only when its request took effect | 2 clients, 2 requests and 2 heartbeats each, timeouts, clients ending anywhere, one descriptor for two clients, so that `accept` fails |
| `session_timeout` | *violated*: a late answer is taken for that of the next request | 1 client |
| `shelf_sync` | a successful login has all shelves of the server; after a whole synchronisation no others; without faults the copy, the count and the record stay exact, and a login that nobody disturbs succeeds | 2 shelves, 2 contents, another client; one shelf confirmed by the list and one not, in either order |
| `pages` | on a listing that is aligned: the book acted on is the one pointed at, numbers ascend over the pages, "last page" means that nothing was missed; the slider is on its row; a continued listing is of what was asked for | 4 books, pages of 3 rows of which the screen shows 2: a full page, one that is not, scrolling and wrap-around; failures at every point of an answer, another client that changes books 2 and 4 |
| `pages_misaligned` | *violated*: the client acts on another book than the one pointed at | 3 books, pages of 2 rows of which the screen shows 1, one client, no failures |
| `library` | no book both read and lent; counts never negative; alone, a client sees what the server has, and leaves a book on a shelf that is gone only after its user left the question about the books, or collected the book from search results | 2 clients, 1 book number, 1 shelf number, so that numbers are reused at once; answers lost, unreliable connection to MySQL |
| `library_orphans` | *violated*: books stay on a shelf that was taken down | 1 client, no losses |
| `client` | forms, the place of a book, password, connections, the end of the program | 5 floors (the drawing of a shelf of 3 does not fit the screen any more), depth 2, 3 connections, first bytes that have no bit in common with the first place; an uninitialised shelf that is all zeros, or has more floors than there can be |
| `client_search_lock` | *violated*: a search is restricted to a shelf nobody chose | the same |

The violated ones are disagreements between the code and its own comments or
messages; `findings` in `PROJECT.json` quotes them. More were met. Each of the
following is stated in its module and TLC refutes it when it is added as an
INVARIANT to the configuration named:

| Statement | Configuration | The code |
|---|---|---|
| `SrvDb!FullMeansFull` | `SrvDb.cfg` | when a statement was refused, or the connection had been lost before and was restored, "图书数量达到上限" (`srvdb.c:272`) is answered with a number free |
| `SocketSrv!SignalsMasked` | `SessionFaults.cfg` | "屏蔽信号安全退出" (`bsdq_server.c:45`): only SIGINT is handled, SIGPIPE ends the server |
| `ShelfSync!NoGhosts` | `ShelfSync.cfg` | "未同步数据再次请求" (`clishell.c:222`): marks of an interrupted synchronisation hide a removed shelf |
| `ShelfSync!RecordNamesStored` | `ShelfSync.cfg` | "记录存入数据库的书架编号" (`clidb.c:29`): a client that ends inside `clidb_shelf_delete` leaves a number without an entry |
| `ShelfSync!BrowseFindsShelf` | `ShelfSync.cfg` | "判断书架是否为空" (`ncgui.c:910`): the server's count is tested, the local copy is empty, and the search for its first shelf does not end |
| `BookPages!CollectsOntoShelf` | `BookPages.cfg` | a search leaves `bcollect` as it is: after collecting, a book found by a search is put on shelf 0 (the exception in `AloneNoOrphans` and `PlaceOnShelf`) |

Two have no statement of their own: a heartbeat that arrives in one `recv` with
another packet is answered with `r_failed` and the other packet lost (`Process` in
`SocketSrv`, against the comment at `socketsrv.c:192`; when the other is a request
its client is told so, when it is a heartbeat the client is out of step from then
on, and `InStep` exempts it), and the server goes on when
the administrator's registration fails (`Start` in `Accounts`, against the comment
at `srvdb.c:143`).

The bounds are small because the code treats all books, shelves, users and
clients alike; what matters is that a number is free, in use, or beyond the
range, that two clients compete, and that a second request follows a first.
Capacities are 1 to 4 where the program has 15, 16 and 10000, `DEFAULT_FINDS` is
at most 3 where it has 30, `PAD_BOXED_HIGHT` 2 where it has 12, and `MAX_FLOORS` and `MAX_DEPTH` are 5 and 2 where it has 15 and
5. In `Session`, `MaxRequests` and `MaxHeartbeats` bound what a client sends; in
`BookPages`, `MaxCache` bounds the entries of a listing, and 4 lets all four books
be listed; in `BookMan`, `MaxConn` bounds the connections of one run of the
program, and 3 lets two attempts precede a login. `ShelfSync` and `Library` need
no bound, their state is finite. `BookPages.cfg` has the constraint `StillAligned`:
what follows the first failure half-way through an answer, or the first book that joins
behind a page not full, is not explored, since all properties but two are about
aligned listings and a listing that is not aligned is left only by beginning a new
one. For the other two, `SliderOnRow` and `ListingOfQuery`, the states that are not
explored are covered by the proofs. A new listing starts from reset positions and reads no entry of the file
that it did not write, so that what the file holds from before does not
matter to it. Deadlock is not checked in the `Session` runs: when the
clients have sent what the bounds allow, all is quiet and the server waits in
`select`; nor in the `BookMan` runs, where the program ends. Symmetry is used among
users (`accounts`) and among clients (`session_faults`, `library`), never with a
liveness property. Two configurations have a VIEW. `Compared` leaves out of the states
of `library` the last answer of `SrvDb`, the history once `alone` is FALSE, and the
copies that nothing is written from any more; `InFront` leaves out of those of
`pages` what lies behind the end of the file. No guard looks at these, and the
properties say nothing of them that they have not said of an earlier state.

Fairness. In `session` the server takes its next step when there is one
(`WF`: a single loop with no other work), and a client that waits in `recv`
returns when a message is there or the connection is closed. Nobody has to
send or to leave. In `shelf_sync` the steps of the synchronisation are fair: it
runs without its user. In `client` the heartbeat thread, which looks at its flag
in a loop, and the return of `pthread_join` from a thread that has ended are fair;
the user need not press any key. `Impatient = FALSE` in `session` says that answers
come before the timeout, so that `EveryRequestAnswered` is about the server's scan and
not about the client's patience; `session_timeout` shows what happens otherwise.
`DescriptorReleased` allows for a server that ends first, which SIGPIPE or a failed
`accept` can bring about.

## Proofs

TLAPS proves, for every value of the constants:

| Theorem | Statement |
|---|---|
| `SrvDbProofs!TypeCorrect` | `Spec => []TypeOK` |
| `SrvDbProofs!DenseNumbers` | `Spec => []NumbersDense` |
| `SrvDbProofs!InsertSafe` | `Spec => InsertPlacesOneRow` |
| `SrvDbProofs!RefusalMeansFull` | `Spec => []RefusedOnlyWhenFull` |
| `SrvDbProofs!ShelvesRefineIdPool` | `Spec => ShelvesImplementIdPool` |
| `AccountsProofs!UniqueNames` | `Spec => []NamesUnique` |
| `AccountsProofs!BoundedUsers` | `Spec => []UsersWithinLimit` |
| `AccountsProofs!TypeCorrect` | `Spec => []TypeOK` |
| `AccountsProofs!VerifyExactAlways` | `Spec => []VerifyExact` |
| `AccountsProofs!LoginHasTablesAlways` | `Spec => []LoginHasTables` |
| `SessionProofs!RecordedAlways` | `Spec => []RecordedExactly` |
| `SessionProofs!NeverBlocksAlways` | `Spec => []NeverBlocks` |
| `SessionProofs!ExecutionOrder` | `Spec => []ExecutedOnceInOrder` |
| `SessionProofs!InStepAlways` | `Spec => []InStep` |
| `SessionProofs!ReportedAlways` | `Spec => []ReportedInStep` |
| `ShelfSyncProofs!TypeCorrect` | `Spec => []TypeOK` |
| `ShelfSyncProofs!CopyCompleteAlways` | `Spec => []CopyComplete` |
| `ShelfSyncProofs!SettledAlways` | `Spec => []SettledAfterFullSync` |
| `ShelfSyncProofs!CopyExactAlways` | `Spec => []CopyExact` |
| `ShelfSyncProofs!RecordStoredAlways` | `Spec => []RecordStored` |
| `BookPagesProofs!RowIsBookAlways` | `Spec => []AlignedRowIsBook` |
| `BookPagesProofs!SliderAlways` | `Spec => []SliderOnRow`, when `PAD_BOXED_HIGHT > 1` |
| `BookPagesProofs!AscendingAlways` | `Spec => []Ascending` |
| `BookPagesProofs!AllListedAlways` | `Spec => []AllListed` |
| `BookPagesProofs!ListingOfQueryAlways` | `Spec => []ListingOfQuery` |
| `LibraryProofs!ServedAlways` | `LibSpec => ServedByTables`: the composition implements the specification of `SrvDb` |
| `LibraryProofs!NeverBothAlways` | `LibSpec => []NeverBoth` |
| `LibraryAloneProofs!CountsAddUpAlways` | `LibSpec => []CountsAddUp` |
| `LibraryAloneProofs!AloneUpToDateAlways` | `LibSpec => []AloneUpToDate` |
| `LibraryAloneProofs!AloneNoOrphansAlways` | `LibSpec => []AloneNoOrphans` |
| `BookManProofs!TypeCorrect` | `Spec => []TypeOK` |
| `BookManProofs!ProfileVisibleAlways` | `Spec => []ProfileVisible` |
| `BookManProofs!PlaceOnShelfAlways` | `Spec => []PlaceOnShelf` |
| `BookManProofs!ChangesVerifiedAlways` | `Spec => []ChangesVerified` |
| `BookManProofs!AdminModeClosesAlways` | `Spec => []AdminModeCloses` |
| `BookManProofs!SessionConnectedAlways` | `Spec => []SessionConnected` |

They rest on the assumptions the modules state: capacities are positive
naturals, the administrator's name and password are among the names and
passwords, `Unreliable`, `Lossy`, `Impatient` and `Leaves` are Booleans, descriptors are naturals
among which the listening socket is none of the connections', "no shelf" is none of
the contents of shelves, a book's information is its two flags and its label,
the first bytes of texts are below 256, shelves have at most `MAX_FLOORS`
floors of depths up to `MAX_DEPTH`, and an uninitialised shelf holds bytes.

*Tables.* The inductive invariant is `TypeOK /\ NumbersDense`. Density is needed
for the type: `MAX + 1` is within the capacity and unused because the numbers
below have rows. `StatementOutcome` says what a statement may return; the decisive
lemma says that an UPDATE that was executed and yet failed leaves the connection
dead without a reconnection (error 2013 is not among those that
`mysql_check_connection` reacts to), so that the SELECT MAX that follows fails and
the row is not placed a second time. `InsertSafe` and the refinement follow
action by action from it. `RefusalMeansFull` adds that a search for a deleted
number that loses its connection leaves it dead too, so that it cannot be followed
by the SELECT MAX that refuses. There remain a statement refused on a connection
that stays up, and one that finds the connection closed and has it restored;
`reply.cause` names them, and the theorem says that no other error leads to a wrong
refusal. The largest number at the capacity means in every case, by density, that
every number has a row.

*Accounts.* The inductive invariant is `TypeOK`, `NamesUnique` and
`UsersWithinLimit` together. A row is appended only after a count and a duplicate
check whose results were both read; no other statement comes between, since
the server is single threaded. `VerifyExact` and `LoginHasTables` speak of the
last reply. They follow from the invariant step by step: a verification reads the
one row that `NamesUnique` leaves for a name, and a statement that fails on the way
is told apart from one that finds nothing.

*Descriptors.* `RecordedExactly` and `NeverBlocks` need three facts more
(`FdInv`): no two connections share a descriptor, so that a close forgets one; a
connection that waits to be accepted has none, so that an accept loses none; and
every descriptor of the round from `fd_loop` on is recorded and ready, without the
bound `max_fd_num`, which moves during the round. A descriptor that is closed and
given out again in one round lies below `fd_loop`, or was free and hence not in
`readfds` above it.

*Order of execution.* The inductive invariant (`OrderInv`) orders the executed
requests, the ones still on their way and the last one sent. A `recv` takes a
prefix of what is on its way and executes its request only if it is alone; the
rest of the prefix is lost, which keeps the order.

*Answers.* `TurnInv` says whose turn it is on a connection, for every client that is
not in `skewed`. The messages on their way to a client answer its last request: all
of them but the last are rows of a search, and one that is no failure says that
the request took effect; there are none unless the client waits. A request that
the server may still read is the last one, among any number of heartbeats, and then
no message is on its way. A read of several packets contains at most that one
request, which is why its `r_failed` is an answer to it. A client enters `skewed` in
two ways, which the program does not guard against: it gives up waiting on an open
connection (`session_timeout` shows the consequence), or the server reads several of
its heartbeats and nothing else at once and answers them. Nothing is
assumed about how often heartbeats are sent.

*Shelf cache.* The inductive invariant `SyncInv` follows one login through its
phases. While the list is read, every shelf of the server is marked 2 in the
file as the server has it, or its row is in the unread part of the list in front of
`r_find_end` (`Listed`). Behind the list all of them are marked, and in a login
that began without marks nothing else is (`Confirmed`); the shelves asked for one
by one are settled as they are passed (`Asked`), and what the stream then still
holds has no row in it (`Stream`), so that an `r_find_end` that an earlier answer
left unread can only make a shelf disappear that the server does not have. Marks
that a run left when it was cut off are why `SettledAfterFullSync` needs
`~unsettled` (`NoMarks`). `Unharmed` collects what only faults bring about: without
them record and entries agree, and the copy and the count are the server's. The
type invariant is the hardest part: that the count of synchronised shelves stays
within their number, though answers are left in the stream and read later,
needs the set of shelves counted so far (`Counts`): they are marked, and no row
still to be read is of one of them or of the same shelf as another row. `Unread`
bounds the stream by the shelves asked for.

*Listing.* `ListingInv` has a part that holds always and one for aligned listings.
Always: the types of what is in front of the end of the file, the slider on a row
of the page (`Slider`), and the static variables that remember the query (`Purpose`).
While aligned: the entries ascend and none is behind the recorded number
(`Ascends`); the page on the screen begins at `book_page_cnt * PAD_HIGHT` and is full
unless it is the last (`AtPage`), which is what makes `cur_dbm_pos` and the two
ways back through the file right; and a book that stayed in the listing is in the
file or its number is still to come (`Covers`). One answer of the server extends the
file row by row; the lemma `InsertAll` says what the rows up to a failure
leave behind. `SliderAlways` needs a screen of at least two rows: with one row and three
titles or more, the wrap-around of `scroll_pad` would leave the slider on another
row than the current one.

*Library.* `SharedInv`, which `ServedAlways` needs, is the invariant of `SrvDb`, the
types of the clients' variables and `NeverBoth`; `LibInv` adds `AloneInv`. `NeverBoth`
is inductive only over the tables and all copies together, because a row is written
from a copy and a copy is made from a row. `AloneInv` says what a single writer
knows (`Knows`): old copies are out of date only in ways that keep them from
being shown again, namely after a new book or when the shelf has no books left to
open it for, and every search begins with new ones; the shelves it knows exist; and
whether the shelf under the slider has books is as it was counted, so that a shelf
about to be taken down is empty or the question about its books was left (`left`).
`Placed` is `AloneNoOrphans`. Only the unsorted books shown again on the page for
collecting may be out of date, and `AloneUpToDate` leaves them out. There is one
case per request, and each splits on whether the client learns of the outcome,
which is where `alone` ends.

*Pages.* `PagesInv` has four parts. `FormInv` bounds the forms: the cursor on the
drawing of a shelf keeps between lines 2 and 5 of the screen, which is more than
`ProfileVisible` asks and makes it inductive at both ends of the drawing; a row behind
the first is chosen only while the cursor is among the rows, and on the
uninitialised shelf of a search the cursor may be anywhere (`Astray`); and an attempt to
register goes through its rows by itself, each filled in. `AccessInv` says that a
password remembered for the page the user is on was asked for during the stay on
it, including the two pages that begin anew without reading a key. `ConnInv` is
`SessionConnected` from the login on, and `ChangesVerified` is its own last part. The type
invariant takes `PagesInv` and adds what it says nothing of (`Types`): the
descriptors, the thread, and the variables that one page hands on to the next.

Only model-checked is liveness (`EveryRequestAnswered`, `DescriptorReleased`,
`LoginSucceeds`, `QuitEnds`): fairness is out of the prover's reach. Every invariant
and action property of a passing run is proved for the whole specification, but for
`SliderAlways`, whose hypothesis on the height of the screen the run `pages` and the
program (12 rows) satisfy.

## Not modelled

- The composition of `Session` with `ShelfSync`, `BookPages` and `Library`, so that a
  late answer (`socketcli.c:137`, `clishell.c:653`) meets the synchronisation, the
  next page of a listing or the change of a book. In these three an answer that
  does not come in time is a failed request and nothing more; `session_timeout`
  shows that it would be taken for the answer of the next one, and what the pages
  and copies then hold is not explored. `ShelfSync` has the unread answers of its
  own requests, and ends the program at a timeout as the code does.
- Modelled, but the subject of no property: the test by which
  `client_shelf_insert_book` (`clishell.c:310`) finds a book incomplete, and which
  refuses complete ones as well (`Complete` in `Forms`).
- The conversions of `srvdb.c` between rows and entries: the number of floors and
  each depth come back as one character (`srvdb.c:168`, `688`, `739`, `898`), while
  the opaque contents of `ShelfSync` come back as they were sent, which is so for
  shelves of up to nine floors. Neither are labels, the text a search looks for,
  the editing of a text field and all drawing, on which no property depends.
- AES and bcrypt: both ends use the same key, and a hash is opaque.
- Option parsing and prompts (pure input and output), the installation tools
  (run once before the program), the monitor script, and the directory of experiments.
- The libraries bundled with the sources (OpenLDAP, cracklib, libbcrypt), which
  are most of the lines under `src/`. Of the program itself, about 6,600 lines, the
  definitions here stand for 58 %; the rest is headers, drawing and the above.
