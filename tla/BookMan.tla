------------------------------ MODULE BookMan -------------------------------
(***************************************************************************)
(* The client program as its user goes through it (main in bookMan.c and   *)
(* the pages of ncgui.c): logging in, registering with the help of the     *)
(* administrator, the main menu and the pages behind it, the connection    *)
(* each of them uses, the password asked for before something is changed,  *)
(* and the heartbeat thread that is joined at the end.                     *)
(*                                                                         *)
(* What the pages show is in ShelfSync, BookPages and Library; here a      *)
(* request succeeds or fails, and what a page offers because of the        *)
(* server's counts is left open.                                           *)
(***************************************************************************)
EXTENDS Forms

CONSTANTS
  MaxConn,         \* bound: connections one run of the program makes
  SelectShelf,     \* shelves the user may restrict a search to
  UserShelf,       \* shelves the user may put a book on
  StackShelf       \* what a shelf nobody filled in may hold

NON_SENSE_INT == 0
\* The value of the enumeration constant menu_non_sense_e (ncgui.h).
menu_non_sense_e == 4

ASSUME BookManAssumption ==
  /\ MaxConn \in Nat \ {0}
  /\ NON_SENSE_INT \notin SelectShelf /\ SelectShelf \subseteq Nat
  /\ UserShelf \subseteq [nfloors : Floor, depths : [Floor -> Depth]]
  /\ StackShelf \subseteq [nfloors : Byte, depths : [Byte -> Byte]]

VARIABLES
  pc,                  \* the page the user is on, or what the program does
  form,                \* the local variables of the form on it
  place, user_shelf,   \* those of select_newbook_floor
  purpose,             \* of the page of books: "browse", "collect", "search"
  bcollect,            \* static variable of display_bookinfo_page
  current_page,        \* static variable of get_choice
  global_pw_verified,
  client_sockfd,       \* the descriptor in use, 0 for none (-1 in the program)
  opened, up,          \* descriptors 1..opened exist, those in up are connected
  login_user,          \* "yes" after the login
  hb, thread_running,  \* the heartbeat thread, and the flag it reads
  lock,                \* the shelf a search is restricted to
  since, op, owner, locked
     \* history: whether the password was asked for during the stay on the page;
     \* the last request that changes something, and whether it was during a
     \* stay with a password; the descriptor the user's account was verified on;
     \* the shelf the user restricted the search to

conn == <<client_sockfd, opened, up, login_user, owner>>
thread == <<hb, thread_running>>
access == <<current_page, global_pw_verified, since>>
search == <<lock, locked>>
vars == <<pc, form, place, user_shelf, purpose, bcollect, access, conn, thread, search, op>>

NoForm == [kind |-> "none"]
NoOp == [kind |-> "none", verified |-> "yes"]
Pages == {"menu", "shelves", "options", "view", "removing", "books", "box", "newbook", "place",
          "name", "height", "profile", "start", "search", "select"}

-----------------------------------------------------------------------------
(* The connection (socketcli.c).                                           *)

\* socket_client_init: a new descriptor, connected or not.  What the old value
\* of client_sockfd was is forgotten.
Connected == opened < MaxConn /\ opened' = opened + 1 /\ client_sockfd' = opened + 1
             /\ up' = up \cup {opened + 1}
NotConnected ==
  \/ client_sockfd' = 0 /\ UNCHANGED <<opened, up>>
  \/ /\ opened < MaxConn /\ opened' = opened + 1 /\ client_sockfd' = opened + 1
     /\ UNCHANGED up

\* socket_client_close: the descriptor is forgotten, and close is called with -1.
ConnectedAndClosed ==
  /\ opened < MaxConn /\ opened' = opened + 1 /\ up' = up \cup {opened + 1}
  /\ client_sockfd' = 0

\* client_start_login for a user: a failure leaves no connection, or one that
\* was not made.  Variant: the connection is closed after a success, too.
client_start_login_Closes(ok) ==
  IF ok = "yes" THEN ConnectedAndClosed /\ owner' = opened' /\ login_user' = "yes"
  ELSE (NotConnected \/ ConnectedAndClosed) /\ UNCHANGED <<owner, login_user>>
client_start_login(ok) ==
  IF ok = "yes" THEN Connected /\ owner' = opened' /\ login_user' = "yes"
  ELSE (NotConnected \/ ConnectedAndClosed) /\ UNCHANGED <<owner, login_user>>

\* For the administrator nothing but the answer is remembered.
VerifyAdmin(ok) ==
  /\ IF ok = "yes" THEN Connected ELSE NotConnected \/ ConnectedAndClosed
  /\ UNCHANGED <<owner, login_user>>

\* client_start_register: only a registration that succeeds ends its connection.
client_start_register(ok) ==
  /\ IF ok = "yes" THEN ConnectedAndClosed ELSE NotConnected \/ Connected
  /\ UNCHANGED <<owner, login_user>>

-----------------------------------------------------------------------------
(* The password (get_choice, verify_identity).                             *)

\* A key is read on a page; on another page than the last one the password is
\* forgotten.  Variant: it is kept.
VerifiedOn_Keeps(ptype) == global_pw_verified
VerifiedOn(ptype) == IF current_page = ptype THEN global_pw_verified ELSE 0

get_choice(ptype) ==
  /\ current_page' = ptype
  /\ global_pw_verified' = VerifiedOn(ptype)

\* verify_identity after a key on the page ptype: how it may end.  The password
\* is not asked for when it is remembered.
verify_identity(ptype) ==
  IF VerifiedOn(ptype) = 1 THEN {[ok |-> "yes", verified |-> 1, since |-> since]}
  ELSE {[ok |-> "yes", verified |-> 1, since |-> "yes"],
        [ok |-> "no", verified |-> 0, since |-> since]}

Verified(ptype, v) == current_page' = ptype /\ global_pw_verified' = v.verified

\* A request that changes something is sent.
Request(kind, verified) == op' = [kind |-> kind, verified |-> verified]

-----------------------------------------------------------------------------
(* Logging in.                                                             *)

Goto(p, f) ==
  pc' = p /\ form' = f /\ UNCHANGED <<place, user_shelf, purpose, bcollect, search, op>>

\* The page reads a key unless the program goes on by itself.
Reading ==
  /\ UNCHANGED since
  /\ IF form.auto = "no" THEN get_choice("login") ELSE UNCHANGED <<current_page, global_pw_verified>>

\* Variant: after the request to register the keys are read again.
BeginRegistration_Waits == [Login EXCEPT !.bReg = 1]
BeginRegistration == [Login EXCEPT !.bReg = 1, !.auto = "yes"]

LoginMove ==
  /\ pc = "login" /\ form.auto = "no"
  /\ \E row \in {RowUp(form.row, 3), RowDown(form.row, 3)} : Goto("login", [form EXCEPT !.row = row])
  /\ Reading /\ UNCHANGED <<conn, thread>>

\* The name or the password.  A field that is not filled in ends an attempt to
\* register.
LoginField ==
  /\ pc = "login" /\ form.row \in {0, 1}
  /\ \E got \in YesNo :
       LET f == IF form.row = 0 THEN [form EXCEPT !.name = got] ELSE [form EXCEPT !.password = got]
           on == \/ form.row = 0 /\ form.password = "no"
                 \/ form.row = 1 /\ form.bReg = 1
       IN  \/ got = "no" /\ form.bReg = 1 /\ Goto("login", Login)
           \/ got = "no" /\ form.bReg = 0 /\ Goto("login", [f EXCEPT !.auto = "no"])
           \/ /\ got = "yes"
              /\ Goto("login", [f EXCEPT !.row = @ + 1, !.auto = IF on THEN "yes" ELSE "no"])
  /\ Reading /\ UNCHANGED <<conn, thread>>

LoginGo ==
  /\ pc = "login" /\ form.row = 2
  /\ \/ /\ form.name = "no" \/ form.password = "no"
        /\ Goto("login", [form EXCEPT !.auto = "no"]) /\ UNCHANGED conn
     \/ /\ form.name = "yes" /\ form.password = "yes" /\ form.bReg = 0
        /\ \E ok \in YesNo :
             /\ client_start_login(ok)
             /\ IF ok = "yes" THEN Goto("sync", NoForm)
                ELSE Goto("login", [form EXCEPT !.password = "no", !.row = 1, !.auto = "yes"])
     \/ /\ form.name = "yes" /\ form.password = "yes" /\ form.bReg = 1
        /\ \E ok \in YesNo :
             /\ VerifyAdmin(ok)
             /\ IF ok = "yes" THEN Goto("register", Register) ELSE Goto("login", Login)
  /\ Reading /\ UNCHANGED thread

LoginRegister ==
  /\ pc = "login" /\ form.row = 3
  /\ Goto("login", BeginRegistration)
  /\ Reading /\ UNCHANGED <<conn, thread>>

\* client_stop_heartbeat_thread: the flag is cleared and the thread is joined.
\* Variant: only joined.
Stop_Joins == UNCHANGED thread_running
Stop == thread_running' = 0

LoginQuit ==
  /\ pc = "login" /\ form.auto = "no"
  /\ Goto("joining", NoForm) /\ Stop
  /\ Reading /\ UNCHANGED <<conn, hb>>

RegisterKey ==
  /\ pc = "register"
  /\ get_choice("register") /\ UNCHANGED <<since, thread>>
  /\ \/ /\ \E row \in {RowUp(form.row, 3), RowDown(form.row, 3)} :
             Goto("register", [form EXCEPT !.row = row])
        /\ UNCHANGED conn
     \/ /\ form.row = 0
        /\ \E got \in YesNo : Goto("register", [form EXCEPT !.name = got])
        /\ UNCHANGED conn
     \/ \* a password that is too weak or not repeated stays in the field
        /\ form.row = 1
        /\ \E got \in {"no", "refused", "yes"} : Goto("register", [form EXCEPT !.password = got])
        /\ UNCHANGED conn
     \/ /\ form.row = 2 /\ (form.name = "no" \/ form.password = "no")
        /\ Goto("register", form) /\ UNCHANGED conn
     \/ /\ form.row = 2 /\ form.name # "no" /\ form.password # "no"
        /\ \E ok \in YesNo :
             /\ client_start_register(ok)
             /\ IF ok = "yes" THEN Goto("login", Login)
                ELSE Goto("register", [form EXCEPT !.row = 0])
     \/ form.row = 3 /\ Goto("login", Login) /\ UNCHANGED conn

-----------------------------------------------------------------------------
(* The main program.                                                       *)

\* ncgui_sync_from_server: a failure ends the program, and one to start the
\* heartbeat thread does not.
ncgui_sync_from_server ==
  /\ pc = "sync"
  /\ \/ Goto("over", NoForm) /\ UNCHANGED hb
     \/ Goto("menu", NoForm) /\ hb' \in {"none", "running"}
  /\ UNCHANGED <<conn, access, thread_running>>

thread_heartbeat ==
  /\ hb = "running" /\ thread_running = 0
  /\ hb' = "ended"
  /\ UNCHANGED <<pc, form, place, user_shelf, purpose, bcollect, access, conn, thread_running, search, op>>

\* pthread_join of a thread that was never started is undefined: it may return
\* or end the program at once.
Join ==
  /\ pc = "joining"
  /\ \/ hb = "ended" /\ Goto("over", NoForm)
     \/ hb = "none" /\ \E end \in {"over", "crashed"} : Goto(end, NoForm)
  /\ UNCHANGED <<conn, access, thread>>

Session == <<conn, thread, bcollect>>
NoPlace == [kind |-> "none"]
NoShelf == [nfloors |-> 0]

\* Another page of the same stay.
Within(p, f) == Goto(p, f) /\ UNCHANGED since

\* Back in the main menu.
Home ==
  /\ pc' = "menu" /\ form' = NoForm /\ place' = NoPlace /\ user_shelf' = NoShelf
  /\ purpose' = "none" /\ since' = "no" /\ lock' = NON_SENSE_INT /\ locked' = NON_SENSE_INT

\* The page of shelves, in the same stay or another one: the books of the shelf
\* are counted again, and a failure leads to the main menu.
Shelves(stay) ==
  \/ /\ pc' = "shelves" /\ form' = NoForm /\ place' = NoPlace /\ user_shelf' = NoShelf
     /\ purpose' = "none" /\ since' = stay /\ UNCHANGED search
  \/ Home

\* The main menu: the shelves (if there are any), building one, a search, or to
\* quit.
MenuChoice ==
  /\ pc = "menu"
  /\ op' = NoOp
  /\ \/ /\ get_choice("mainmenu") /\ UNCHANGED since
        /\ \/ pc' \in {"shelves", "menu", "search"} /\ UNCHANGED thread_running
           \/ pc' = "joining" /\ Stop
     \/ /\ \E v \in verify_identity("mainmenu") :
             /\ Verified("mainmenu", v) /\ since' = v.since
             /\ pc' = IF v.ok = "yes" THEN "name" ELSE "menu"
        /\ UNCHANGED thread_running
  /\ UNCHANGED <<form, place, user_shelf, purpose, bcollect, conn, hb, search>>

-----------------------------------------------------------------------------
(* The page of shelves.                                                    *)

ShelvesKey ==
  /\ pc = "shelves"
  /\ get_choice("lookthrough")
  /\ \/ Shelves(since) /\ UNCHANGED op
     \/ Within("options", NoForm)
  /\ UNCHANGED Session

\* The box of options: leave it, or look at the shelf's profile.
OptionsKey ==
  /\ pc = "options"
  /\ get_choice("lookthrough")
  /\ \/ \E p \in {"options", "view"} : Within(p, NoForm)
     \/ Shelves(since) /\ UNCHANGED op
  /\ UNCHANGED Session

\* Or open the books of the shelf or those to collect, when there are any: only
\* here display_bookinfo_page is told which, and remembers it.
OptionsOpen ==
  /\ pc = "options"
  /\ get_choice("lookthrough")
  /\ pc' = "books" /\ since' = "no"
  /\ \/ purpose' = "browse" /\ bcollect' = 0
     \/ purpose' = "collect" /\ bcollect' = 1
  /\ UNCHANGED <<form, place, user_shelf, search, op, conn, thread>>

\* display_shelfprofile_page: its keys are read as those of the page that builds
\* a shelf, and it leaves the box, too.
ViewKey ==
  /\ pc = "view"
  /\ get_choice("buildshelf")
  /\ \/ Within("view", NoForm)
     \/ Shelves(since) /\ UNCHANGED op
  /\ UNCHANGED Session

OptionsNewBook ==
  /\ pc = "options"
  /\ \E v \in verify_identity("lookthrough") :
       /\ Verified("lookthrough", v)
       /\ \/ /\ v.ok = "yes"
             /\ pc' = "newbook" /\ form' = NewBook /\ since' = v.since
             /\ user_shelf' \in UserShelf
             /\ UNCHANGED <<place, purpose, search>>
          \/ v.ok = "no" /\ Shelves(v.since)
  /\ UNCHANGED <<Session, op>>

\* delete_shelf_page: when the shelf has books the user is asked about them.
OptionsDestroy ==
  /\ pc = "options"
  /\ \E v \in verify_identity("lookthrough") :
       /\ Verified("lookthrough", v)
       /\ \/ Shelves(v.since) /\ UNCHANGED op
          \/ v.ok = "yes" /\ Goto("removing", NoForm) /\ since' = v.since
          \/ v.ok = "yes" /\ Shelves(v.since) /\ Request("remove", v.since)
  /\ UNCHANGED Session

\* Whatever is chosen, the shelf is removed; then the page begins anew without
\* the main menu.
RemovingKey ==
  /\ pc = "removing"
  /\ get_choice("lookthrough")
  /\ \/ Within("removing", NoForm)
     \/ Shelves(since) /\ Request("remove", since)
  /\ UNCHANGED Session

-----------------------------------------------------------------------------
(* The page of books.                                                      *)

\* Left for the page it was opened from, because the user wants to or because
\* a request failed.
LeaveBooks == IF purpose = "search" THEN Home ELSE Shelves("no")

\* What Enter does depends on the page opened last from the shelves.  The shelf
\* that a search hands on has a number and nothing else (local_shelf in
\* ncgui_display_searchbook_page).
BooksKey ==
  /\ pc = "books"
  /\ get_choice("bookinfo")
  /\ \/ Within("books", NoForm)
     \/ LeaveBooks /\ UNCHANGED op
     \/ bcollect = 0 /\ Within("box", NoForm)
     \/ /\ bcollect = 1
        /\ pc' = "place" /\ place' = FirstPlace
        /\ user_shelf' \in IF purpose = "search" THEN StackShelf ELSE UserShelf
        /\ UNCHANGED <<form, purpose, since, search, op>>
  /\ UNCHANGED Session

\* The box of options for a book: each of them asks for the password, and two
\* may be cancelled afterwards.
BoxKey ==
  /\ pc = "box"
  /\ \/ get_choice("bookinfo") /\ \E p \in {"books", "box"} : Within(p, NoForm)
     \/ \E v \in verify_identity("bookinfo") :
          /\ Verified("bookinfo", v) /\ since' = v.since
          /\ \/ v.ok = "no" /\ Goto("box", NoForm)
             \/ v.ok = "yes" /\ Goto("books", NoForm)
             \/ /\ v.ok = "yes" /\ pc' = "books" /\ Request("update", v.since)
                /\ UNCHANGED <<form, place, user_shelf, purpose, search>>
  /\ UNCHANGED Session

\* select_newbook_floor, called for a book that is collected (without asking for
\* the password) and for a new one.
PlaceKey ==
  /\ pc = "place"
  /\ \/ /\ place' \in {PlaceUp(user_shelf, place), PlaceDown(user_shelf, place), PlaceOver(place)}
        /\ UNCHANGED <<pc, form, user_shelf, op>>
     \/ /\ form.kind = "newbook"
        /\ pc' = "newbook" /\ place' = NoPlace
        /\ form' = NextRow([form EXCEPT !.place = PlaceCode(place)])
        /\ UNCHANGED <<user_shelf, op>>
     \/ /\ form.kind # "newbook"
        /\ pc' = "books" /\ place' = NoPlace /\ user_shelf' = NoShelf
        /\ Request("collect", since)
        /\ UNCHANGED form
  /\ UNCHANGED <<purpose, access, search, Session>>

-----------------------------------------------------------------------------
(* The page for a new book.                                                *)

\* The form when Enter is read or set by the program.
NewBookRead(f) ==
  \/ form.auto = "yes" /\ f = form /\ UNCHANGED <<current_page, global_pw_verified>>
  \/ form.auto = "no" /\ get_choice("newbook") /\ f \in {Typed(form, k) : k \in {"newline", "KEY_ENTER"}}

NewBookMove ==
  /\ pc = "newbook" /\ form.auto = "no"
  /\ get_choice("newbook")
  /\ \/ \E row \in {RowUp(form.row, 4), RowDown(form.row, 4)} :
          Within("newbook", [form EXCEPT !.row = row])
     \/ Shelves("no") /\ UNCHANGED op
  /\ UNCHANGED Session

\* A field; the place has a form of its own.
NewBookField ==
  /\ pc = "newbook" /\ form.row < 4
  /\ \E f \in {form} \cup {Typed(form, k) : k \in {"newline", "KEY_ENTER"}} :
       /\ NewBookRead(f)
       /\ \/ \E l \in Letter \cup {0} :
               \/ f.row = 0 /\ form' = NextRow([f EXCEPT !.name = l])
               \/ f.row = 1 /\ form' = NextRow([f EXCEPT !.author = l])
          \/ f.row = 2 /\ form' = f
          \/ f.row = 3 /\ form' = NextRow(f)
  /\ IF form.row = 2 THEN pc' = "place" /\ place' = FirstPlace ELSE UNCHANGED <<pc, place>>
  /\ UNCHANGED <<user_shelf, purpose, since, search, op, Session>>

\* The book is sent when the user confirms it and it is found complete.  After a
\* success another one may follow.
NewBookFinish ==
  /\ pc = "newbook" /\ form.row = 4
  /\ \E f \in {form} \cup {Typed(form, k) : k \in {"newline", "KEY_ENTER"}} :
       /\ NewBookRead(f)
       /\ \/ Within("newbook", NextRow(f))
          \/ /\ Complete(f)
             /\ Request("insert", since)
             /\ \/ /\ pc' = "newbook"
                   /\ \/ form' = NextRow(f)
                      \/ form' = NextRow([NewBook EXCEPT !.flag = 2])
                   /\ UNCHANGED <<place, user_shelf, purpose, since, search>>
                \/ Shelves("no")
  /\ UNCHANGED Session

-----------------------------------------------------------------------------
(* Building a shelf.                                                       *)

BuildName ==
  /\ pc = "name"
  /\ Goto("height", [kind |-> "height", nfloors |-> 1])
  /\ UNCHANGED <<access, Session>>

HeightKey ==
  /\ pc = "height"
  /\ get_choice("buildshelf")
  /\ \/ \E n \in {FloorsUp(form.nfloors), FloorsDown(form.nfloors), 1} :
          Within("height", [form EXCEPT !.nfloors = n])
     \/ Within("profile", Profile(form.nfloors, [i \in Floor |-> 0]))
  /\ UNCHANGED Session

\* Enter and a refusal to confirm start the form again with the depths as they are.
ProfileKey ==
  /\ pc = "profile"
  /\ get_choice("buildshelf")
  /\ \/ \E f \in {ProfileUp(form), ProfileDown(form), ProfileLeft(form), ProfileRight(form),
                   Profile(form.nfloors, form.depths)} : Within("profile", f)
     \/ Within("start", NoForm)
  /\ UNCHANGED Session

\* The shelf is built, or not; or the page begins anew without the main menu, and
\* without a key read on it.
BuildStart ==
  /\ pc = "start"
  /\ \/ /\ Request("build", since) /\ Home
        /\ UNCHANGED <<current_page, global_pw_verified>>
     \/ Home /\ UNCHANGED <<current_page, global_pw_verified, op>>
     \/ \E v \in verify_identity(current_page) :
          /\ Verified(current_page, v)
          /\ \/ v.ok = "yes" /\ Goto("name", NoForm) /\ since' = v.since
             \/ v.ok = "no" /\ Home /\ UNCHANGED op
  /\ UNCHANGED Session

-----------------------------------------------------------------------------
(* Searching.                                                              *)

\* A shelf is asked for with the page of shelves, which returns at once when it
\* has nothing to show: with a value that is not a shelf's number.
SearchKey ==
  /\ pc = "search"
  /\ get_choice("searchbook")
  /\ \/ Within("search", NoForm)
     \/ Home /\ UNCHANGED op
     \/ Within("select", NoForm)
     \/ /\ lock' = menu_non_sense_e
        /\ UNCHANGED <<pc, form, place, user_shelf, purpose, since, op, locked>>
     \/ /\ pc' = "books" /\ purpose' = "search" /\ since' = "no"
        /\ UNCHANGED <<form, place, user_shelf, search, op>>
  /\ UNCHANGED Session

SelectKey ==
  /\ pc = "select"
  /\ get_choice("lookthrough")
  /\ \/ \E p \in {"select", "search"} : Within(p, NoForm)
     \/ /\ pc' = "search" /\ lock' = menu_non_sense_e
        /\ UNCHANGED <<form, place, user_shelf, purpose, since, op, locked>>
     \/ \E s \in SelectShelf :
          /\ pc' = "search" /\ lock' = s /\ locked' = s
          /\ UNCHANGED <<form, place, user_shelf, purpose, since, op>>
  /\ UNCHANGED Session

-----------------------------------------------------------------------------
Init ==
  /\ pc = "login" /\ form = Login
  /\ place = NoPlace /\ user_shelf = NoShelf /\ purpose = "none" /\ bcollect = 0
  /\ current_page = "nonsense" /\ global_pw_verified = 0 /\ since = "no"
  /\ client_sockfd = 0 /\ opened = 0 /\ up = {} /\ login_user = "no" /\ owner = 0
  /\ hb = "none" /\ thread_running = 1
  /\ lock = NON_SENSE_INT /\ locked = NON_SENSE_INT
  /\ op = NoOp

LoginPages == LoginMove \/ LoginField \/ LoginGo \/ LoginRegister \/ LoginQuit \/ RegisterKey
ShelfPages ==
  ShelvesKey \/ OptionsKey \/ OptionsOpen \/ OptionsNewBook \/ OptionsDestroy \/ ViewKey \/ RemovingKey
BookPages == BooksKey \/ BoxKey \/ PlaceKey \/ NewBookMove \/ NewBookField \/ NewBookFinish
BuildPages == BuildName \/ HeightKey \/ ProfileKey \/ BuildStart
SearchPages == SearchKey \/ SelectKey

Next ==
  \/ LoginPages \/ ncgui_sync_from_server
  \/ MenuChoice \/ ShelfPages \/ BookPages \/ BuildPages \/ SearchPages
  \/ thread_heartbeat \/ Join

\* The threads of the program run; its user need not do anything.
Spec == Init /\ [][Next]_vars /\ WF_vars(thread_heartbeat) /\ WF_vars(Join)

-----------------------------------------------------------------------------
LoginForm == [kind : {"login"}, row : 0..3, auto : YesNo, bReg : 0..1, name : YesNo, password : YesNo]
RegisterForm == [kind : {"register"}, row : 0..3, name : YesNo, password : {"no", "refused", "yes"}]
NewBookForm == [kind : {"newbook"}, row : 0..4, flag : 0..2, auto : YesNo,
                name : Letter \cup {0}, author : Letter \cup {0}, place : Nat]
HeightForm == [kind : {"height"}, nfloors : Floor]
ProfileForm == [kind : {"profile"}, nfloors : Floor, depths : [Floor -> Depth],
                curs_floor : Floor, start_hight : Int]
ReadOn == {"nonsense", "login", "register", "mainmenu", "lookthrough", "bookinfo", "newbook",
           "buildshelf", "searchbook"}
\* A place on a shelf, and one on a shelf that nobody filled in.
PlaceForm == [kind : {"place"}, floor : Floor, depth : Depth \cup {1}, cursor : {"floor", "depth"}]
AnyPlace == [kind : {"place"}, floor : Byte, depth : Byte, cursor : {"floor", "depth"}]
RequestKind == {"none", "remove", "update", "collect", "insert", "build"}
FormOK ==
  CASE pc = "login" -> form \in LoginForm
    [] pc = "register" -> form \in RegisterForm
    [] pc = "newbook" -> form \in NewBookForm
    [] pc = "place" -> form = NoForm \/ form \in NewBookForm
    [] pc = "height" -> form \in HeightForm
    [] pc = "profile" -> form \in ProfileForm
    [] OTHER -> form = NoForm

\* The variables have their types; a depth stays within 0..MAX_DEPTH although it
\* is counted down as an unsigned char.
TypeOK ==
  /\ pc \in Pages \cup {"login", "register", "sync", "joining", "over", "crashed"}
  /\ FormOK
  /\ place = NoPlace \/ place \in PlaceForm \/ place \in AnyPlace
  /\ user_shelf = NoShelf \/ user_shelf \in UserShelf \/ user_shelf \in StackShelf
  /\ purpose \in {"none", "browse", "collect", "search"} /\ bcollect \in 0..1
  /\ current_page \in ReadOn /\ global_pw_verified \in 0..1 /\ since \in YesNo
  /\ client_sockfd \in 0..opened /\ opened \in 0..MaxConn /\ up \subseteq 1..opened
  /\ login_user \in YesNo /\ owner \in 0..opened
  /\ hb \in {"none", "running", "ended"} /\ thread_running \in 0..1
  /\ lock \in Nat /\ locked \in Nat
  /\ op \in [kind : RequestKind, verified : YesNo]

\* The floor whose depth is being changed is on the screen: the drawing is
\* scrolled along with the cursor, though not by the same steps at its two ends
\* (set_shelf_parameter).
ProfileVisible ==
  pc = "profile" =>
    profile_hight(form.nfloors) - 2 * form.curs_floor - form.start_hight \in 0..pad_show_hight

\* A row of the floor; on a floor without rows, which is how every floor of a
\* new shelf begins, the first row or none.
RowOn(s, floor, row) == IF s.depths[floor] = 0 THEN row \in 0..1 ELSE row \in 1..s.depths[floor]

\* The place chosen for a new book, or for a book on the page of those to
\* collect, is on the shelf, whichever way the cursor took: no floor above the
\* last one, and no row behind the last one of its floor (select_newbook_floor).
\* Two cases are outside: a floor without rows, where the row is 0 or 1, and a
\* book collected from the results of a search, where the shelf is
\* uninitialised memory.
PlaceOnShelf ==
  pc = "place" /\ purpose # "search" =>
    /\ place.floor \in 1..user_shelf.nfloors
    /\ RowOn(user_shelf, place.floor, place.depth)

\* Nothing but a collected book is changed unless the password was asked for
\* during the stay on the page: what was verified for one page does not hold for
\* the next (get_choice, "验证密码失效"; verify_identity).
ChangesVerified == op.kind # "collect" => op.verified = "yes"

\* Once the user wants to register, the page reads no key before the
\* administrator's account is verified or the attempt is over: the
\* administrator's name cannot be used to log in as a user, nor the user's as
\* the administrator's (ncgui_display_login_page).
AdminModeCloses == pc = "login" => (form.bReg = 1 => form.auto = "yes")

\* The pages work with the connection on which the user's account was verified,
\* whatever connections were made and dropped before (client_start_login).
SessionConnected ==
  pc \in Pages => login_user = "yes" /\ client_sockfd = owner /\ owner \in up

\* The program ends when its user quits: the heartbeat thread sees the flag
\* (client_stop_heartbeat_thread, thread_heartbeat).
QuitEnds == (pc = "joining" /\ hb # "none") ~> pc = "over"

\* A search is restricted to a shelf that the user chose ("用户锁定书架").
LockedByUser == lock = locked
=============================================================================
