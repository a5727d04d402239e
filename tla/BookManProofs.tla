--------------------------- MODULE BookManProofs ----------------------------
(***************************************************************************)
(* The pages of the client, for shelves of every size and every number of  *)
(* connections.                                                            *)
(***************************************************************************)
EXTENDS BookMan, TLAPS

\* Where the drawing of the profile stands.  The distance of the cursor from
\* the first line shown stays between 2 and 5, which is what makes the steps at
\* the two ends of the drawing meet.
DrawnAt(n, c, start) ==
  LET last == profile_hight(n) - pad_show_hight
  IN  /\ c \in 1..n
      /\ last <= 0 => start = 0
      /\ last > 0 => start \in 0..last /\ profile_hight(n) - 2 * c - start \in 2..5
Drawn(f) == DrawnAt(f.nfloors, f.curs_floor, f.start_hight)

\* Where the cursor of the place stands: behind the first row only while it
\* chooses among rows.
Placed(s, p) ==
  /\ s \in UserShelf /\ p \in PlaceForm
  /\ p.floor \in 1..s.nfloors
  /\ p.cursor = "floor" => p.depth = 1
  /\ RowOn(s, p.floor, p.depth)

\* On a shelf that nobody filled in it stands anywhere.
Astray(s, p) == s \in StackShelf /\ p \in AnyPlace

\* An attempt to register goes through the rows by itself, each filled in.
Attempt(f) ==
  f.bReg = 1 =>
    /\ f.auto = "yes" /\ f.row \in 0..2
    /\ f.row = 0 => f.password = "no"
    /\ f.row > 0 => f.name = "yes"
    /\ f.row = 2 => f.password = "yes"

FormInv ==
  /\ pc \in Pages \cup {"login", "register", "sync", "joining", "over", "crashed"}
  /\ pc = "login" => form \in LoginForm /\ Attempt(form)
  /\ pc = "newbook" => form \in NewBookForm /\ user_shelf \in UserShelf
  /\ pc = "place" => \/ (form = NoForm \/ form \in NewBookForm) /\ Placed(user_shelf, place)
                     \/ purpose = "search" /\ form = NoForm /\ Astray(user_shelf, place)
  /\ pc = "height" => form \in HeightForm
  /\ pc = "profile" => form \in ProfileForm /\ Drawn(form)
  /\ pc \in Pages \ {"newbook", "place", "height", "profile"} => form = NoForm

\* A password that is remembered on a page was asked for during the stay on it.
Remembered(page) == global_pw_verified = 1 /\ current_page = page => since = "yes"
AccessInv ==
  /\ global_pw_verified \in 0..1
  /\ pc \in {"login", "register", "sync"} => global_pw_verified = 0
  /\ pc = "menu" => Remembered("mainmenu")
  /\ pc \in {"shelves", "options", "removing"} => Remembered("lookthrough")
  /\ pc \in {"books", "box"} => Remembered("bookinfo")
  /\ pc = "place" /\ form.kind # "newbook" => Remembered("bookinfo")
  /\ pc \in {"removing", "newbook", "name", "height", "profile", "start"} => since = "yes"
  /\ pc = "place" /\ form.kind = "newbook" => since = "yes"
  /\ pc \in {"newbook", "place"} /\ form.kind = "newbook" /\ form.row = 4 => current_page = "newbook"
  /\ pc = "start" => current_page = "buildshelf"

\* The descriptor of the session, from the login on.
ConnInv ==
  pc \in Pages \cup {"sync"} => login_user = "yes" /\ client_sockfd = owner /\ owner \in up

PagesInv == FormInv /\ AccessInv /\ ConnInv /\ ChangesVerified

-----------------------------------------------------------------------------
(* What the keys make of the forms.                                        *)

LEMMA FloorsInRange == ASSUME NEW n \in Floor PROVE FloorsUp(n) \in Floor /\ FloorsDown(n) \in Floor
  BY FormsAssumption DEF Floor, FloorsUp, FloorsDown

LEMMA ProfileStarts ==
  ASSUME NEW n \in Floor, NEW depths \in [Floor -> Depth]
  PROVE  Profile(n, depths) \in ProfileForm /\ Drawn(Profile(n, depths))
  BY FormsAssumption
     DEF Floor, Profile, ProfileForm, Drawn, DrawnAt, Shown, profile_hight, pad_show_hight

\* Left and right change the depth of the floor under the cursor.
LEMMA DepthsInRange == ASSUME NEW d \in Depth PROVE DepthDown(d) \in Depth /\ DepthUp(d) \in Depth
  BY FormsAssumption DEF Depth, DepthDown, DepthUp

LEMMA DrawnUp ==
  ASSUME NEW n \in Nat \ {0}, NEW c \in Nat, NEW start \in Int, DrawnAt(n, c, start)
  PROVE  LET s == Shown(n, IF start - 2 <= 0 THEN 0 ELSE start - 2)
             d == IF c + 1 > n THEN n ELSE c + 1
         IN  s \in Int /\ d \in 1..n /\ DrawnAt(n, d, s)
  BY DEF DrawnAt, Shown, profile_hight, pad_show_hight

LEMMA DrawnDown ==
  ASSUME NEW n \in Nat \ {0}, NEW c \in Nat, NEW start \in Int, DrawnAt(n, c, start)
  PROVE  LET last == profile_hight(n) - pad_show_hight
             s == Shown(n, IF start + 2 > last THEN last ELSE start + 2)
             d == IF c - 1 < 1 THEN 1 ELSE c - 1
         IN  s \in Int /\ d \in 1..n /\ DrawnAt(n, d, s)
  BY DEF DrawnAt, Shown, profile_hight, pad_show_hight

LEMMA ProfileMoves ==
  ASSUME NEW f \in ProfileForm, Drawn(f)
  PROVE  \A g \in {ProfileUp(f), ProfileDown(f), ProfileLeft(f), ProfileRight(f)} :
           g \in ProfileForm /\ Drawn(g)
<1>1. f.curs_floor \in Floor /\ f.depths \in [Floor -> Depth] /\ f.nfloors \in Floor
  BY DEF ProfileForm
<1>2. ASSUME NEW d \in Depth, NEW g, g = [f EXCEPT !.depths = [f.depths EXCEPT ![f.curs_floor] = d]]
      PROVE  g \in ProfileForm /\ Drawn(g)
  <2>1. [f.depths EXCEPT ![f.curs_floor] = d] \in [Floor -> Depth]
    BY <1>1
  <2>2. g \in ProfileForm
    BY <1>2, <2>1 DEF ProfileForm
  <2>3. g.nfloors = f.nfloors /\ g.curs_floor = f.curs_floor /\ g.start_hight = f.start_hight
    BY <1>2 DEF ProfileForm
  <2>. QED
    BY <2>2, <2>3 DEF Drawn
<1>3. ProfileLeft(f) \in ProfileForm /\ Drawn(ProfileLeft(f))
  BY <1>1, <1>2, DepthsInRange DEF ProfileLeft
<1>4. ProfileRight(f) \in ProfileForm /\ Drawn(ProfileRight(f))
  BY <1>1, <1>2, DepthsInRange DEF ProfileRight
<1>5. ASSUME NEW s \in Int, NEW c \in Floor, DrawnAt(f.nfloors, c, s), NEW g,
             g = [f EXCEPT !.start_hight = s, !.curs_floor = c]
      PROVE  g \in ProfileForm /\ Drawn(g)
  <2>1. g \in ProfileForm
    BY <1>5, Zenon DEF ProfileForm
  <2>2. g.nfloors = f.nfloors /\ g.curs_floor = c /\ g.start_hight = s
    BY <1>5 DEF ProfileForm
  <2>. QED
    BY <1>5, <2>1, <2>2 DEF Drawn
<1>6. /\ f.nfloors \in Nat \ {0} /\ f.curs_floor \in Nat /\ f.start_hight \in Int
      /\ DrawnAt(f.nfloors, f.curs_floor, f.start_hight)
      /\ 1..f.nfloors \subseteq Floor
  BY <1>1, FormsAssumption DEF ProfileForm, Floor, Drawn
<1>7. ProfileUp(f) \in ProfileForm /\ Drawn(ProfileUp(f))
  <2> DEFINE s == Shown(f.nfloors, IF f.start_hight - 2 <= 0 THEN 0 ELSE f.start_hight - 2)
             c == IF f.curs_floor + 1 > f.nfloors THEN f.nfloors ELSE f.curs_floor + 1
  <2>1. s \in Int /\ c \in 1..f.nfloors /\ DrawnAt(f.nfloors, c, s)
    BY <1>6, DrawnUp, ZenonT(30)
  <2>2. ProfileUp(f) = [f EXCEPT !.start_hight = s, !.curs_floor = c]
    BY DEF ProfileUp
  <2> HIDE DEF s, c
  <2>. QED
    BY <1>5, <1>6, <2>1, <2>2, Zenon
<1>8. ProfileDown(f) \in ProfileForm /\ Drawn(ProfileDown(f))
  <2> DEFINE last == profile_hight(f.nfloors) - pad_show_hight
             s == Shown(f.nfloors, IF f.start_hight + 2 > last THEN last ELSE f.start_hight + 2)
             c == IF f.curs_floor - 1 < 1 THEN 1 ELSE f.curs_floor - 1
  <2>1. s \in Int /\ c \in 1..f.nfloors /\ DrawnAt(f.nfloors, c, s)
    BY <1>6, DrawnDown
  <2>2. ProfileDown(f) = [f EXCEPT !.start_hight = s, !.curs_floor = c]
    BY DEF ProfileDown
  <2> HIDE DEF s, c
  <2>. QED
    BY <1>5, <1>6, <2>1, <2>2, ZenonT(30)
<1>. QED
  BY <1>3, <1>4, <1>7, <1>8

LEMMA PlaceStarts == ASSUME NEW s \in UserShelf PROVE Placed(s, FirstPlace)
<1>1. s.nfloors \in Floor /\ s.depths \in [Floor -> Depth]
  BY BookManAssumption
<1>2. RowOn(s, 1, 1)
  <2>1. s.depths[1] \in Nat
    BY <1>1, FormsAssumption DEF Floor, Depth
  <2>. QED
    BY <2>1 DEF RowOn
<1>. QED
  BY <1>1, <1>2, FormsAssumption DEF Placed, FirstPlace, PlaceForm, Floor

LEMMA PlaceMoves ==
  ASSUME NEW s, NEW p, Placed(s, p)
  PROVE  \A q \in {PlaceUp(s, p), PlaceDown(s, p), PlaceOver(p)} : Placed(s, q)
<1>1. /\ s \in UserShelf /\ p \in PlaceForm
      /\ s.nfloors \in Floor /\ s.depths \in [Floor -> Depth]
      /\ p.floor \in Floor /\ p.floor \in 1..s.nfloors /\ s.depths[p.floor] \in Depth
      /\ p.depth \in Depth \cup {1}
      /\ MAX_FLOORS \in Nat /\ MAX_DEPTH \in Nat \ {0}
  BY BookManAssumption, FormsAssumption DEF Placed, PlaceForm
<1>2. ASSUME NEW fl \in 1..s.nfloors, NEW d \in Depth \cup {1}, NEW cu \in {"floor", "depth"},
             cu = "floor" => d = 1, RowOn(s, fl, d),
             NEW q, q = [kind |-> "place", floor |-> fl, depth |-> d, cursor |-> cu]
      PROVE  Placed(s, q)
  <2>1. fl \in Floor
    BY <1>1 DEF Floor
  <2>2. q \in PlaceForm
    BY <1>2, <2>1 DEF PlaceForm
  <2>. QED
    BY <1>1, <1>2, <2>2 DEF Placed
<1>3. p = [kind |-> "place", floor |-> p.floor, depth |-> p.depth, cursor |-> p.cursor]
  BY <1>1 DEF PlaceForm
<1>4. p.cursor \in {"floor", "depth"} /\ 1 \in Depth \cup {1}
      /\ (p.cursor = "floor" => p.depth = 1) /\ RowOn(s, p.floor, p.depth)
  BY <1>1 DEF PlaceForm, Placed
<1>9. ASSUME NEW fl \in 1..s.nfloors PROVE RowOn(s, fl, 1)
  <2>1. s.depths[fl] \in Nat
    BY <1>1 DEF Floor, Depth
  <2>. QED
    BY <2>1 DEF RowOn
<1>5. Placed(s, PlaceOver(p))
  <2> DEFINE cu == IF p.cursor = "floor" THEN "depth" ELSE "floor"
  <2>1. PlaceOver(p) = [p EXCEPT !.depth = 1, !.cursor = cu]
    BY DEF PlaceOver
  <2>2. cu \in {"floor", "depth"}
    OBVIOUS
  <2> HIDE DEF cu
  <2>3. PlaceOver(p) = [kind |-> "place", floor |-> p.floor, depth |-> 1, cursor |-> cu]
    <3> DEFINE q == [p EXCEPT !.depth = 1]
    <3>1. q = [kind |-> "place", floor |-> p.floor, depth |-> 1, cursor |-> p.cursor]
      BY <1>1 DEF PlaceForm
    <3>2. PlaceOver(p) = [q EXCEPT !.cursor = cu]
      BY <2>1
    <3> HIDE DEF q
    <3>. QED
      BY <3>1, <3>2
  <2>. QED
    BY <1>1, <1>2, <1>4, <1>9, <2>2, <2>3
<1>6. Placed(s, PlaceUp(s, p))
  <2>1. CASE p.cursor = "floor"
    <3> DEFINE fl == IF p.floor + 1 > s.nfloors THEN s.nfloors ELSE p.floor + 1
    <3>1. PlaceUp(s, p) = [kind |-> "place", floor |-> fl, depth |-> 1, cursor |-> "floor"]
      BY <1>3, <1>4, <2>1 DEF PlaceUp
    <3>2. fl \in 1..s.nfloors
      BY <1>1 DEF Floor
    <3> HIDE DEF fl
    <3>. QED
      BY <1>2, <1>4, <1>9, <3>1, <3>2
  <2>2. CASE p.cursor = "depth"
    <3> DEFINE d == IF p.depth + 1 > s.depths[p.floor] THEN s.depths[p.floor] ELSE p.depth + 1
    <3>1. PlaceUp(s, p) = [kind |-> "place", floor |-> p.floor, depth |-> d, cursor |-> "depth"]
      BY <1>3, <2>2 DEF PlaceUp
    <3>2. d \in Depth \cup {1} /\ RowOn(s, p.floor, d)
      BY <1>1, <1>4 DEF Depth, RowOn
    <3> HIDE DEF d
    <3>. QED
      BY <1>1, <1>2, <3>1, <3>2
  <2>. QED
    BY <1>4, <2>1, <2>2
<1>7. Placed(s, PlaceDown(s, p))
  <2>1. CASE p.cursor = "floor"
    <3> DEFINE fl == IF p.floor - 1 < 1 THEN 1 ELSE p.floor - 1
    <3>1. PlaceDown(s, p) = [kind |-> "place", floor |-> fl, depth |-> 1, cursor |-> "floor"]
      BY <1>3, <1>4, <2>1 DEF PlaceDown
    <3>2. fl \in 1..s.nfloors
      BY <1>1 DEF Floor
    <3> HIDE DEF fl
    <3>. QED
      BY <1>2, <1>4, <1>9, <3>1, <3>2
  <2>2. CASE p.cursor = "depth"
    <3> DEFINE d == IF p.depth - 1 < 1 THEN 1 ELSE p.depth - 1
    <3>1. PlaceDown(s, p) = [kind |-> "place", floor |-> p.floor, depth |-> d, cursor |-> "depth"]
      BY <1>3, <2>2 DEF PlaceDown
    <3>2. d \in Depth \cup {1} /\ RowOn(s, p.floor, d)
      BY <1>1, <1>4 DEF Depth, RowOn
    <3> HIDE DEF d
    <3>. QED
      BY <1>1, <1>2, <3>1, <3>2
  <2>. QED
    BY <1>4, <2>1, <2>2
<1>. QED
  BY <1>5, <1>6, <1>7

\* A shelf that nobody filled in leads to bytes.
LEMMA AstrayMoves ==
  ASSUME NEW s, NEW p, Astray(s, p)
  PROVE  \A q \in {PlaceUp(s, p), PlaceDown(s, p), PlaceOver(p)} : Astray(s, q)
<1>1. /\ s \in StackShelf /\ p \in AnyPlace /\ s.nfloors \in Byte /\ s.depths \in [Byte -> Byte]
      /\ p.floor \in Byte /\ p.depth \in Byte /\ p.cursor \in {"floor", "depth"}
  BY BookManAssumption DEF Astray, AnyPlace
<1>2. ASSUME NEW fl \in Byte PROVE [p EXCEPT !.floor = fl] \in AnyPlace
  BY <1>1, <1>2 DEF AnyPlace
<1>3. ASSUME NEW d \in Byte PROVE [p EXCEPT !.depth = d] \in AnyPlace
  BY <1>1, <1>3 DEF AnyPlace
<1>4. s.depths[p.floor] \in Byte
  BY <1>1
<1>5. ASSUME NEW n \in Byte, NEW m \in Byte
      PROVE  (IF m + 1 > n THEN n ELSE m + 1) \in Byte /\ (IF m - 1 < 1 THEN 1 ELSE m - 1) \in Byte
  BY <1>5 DEF Byte
<1>6. PlaceUp(s, p) \in AnyPlace
  BY <1>1, <1>2, <1>3, <1>4, <1>5, Zenon DEF PlaceUp
<1>7. PlaceDown(s, p) \in AnyPlace
  BY <1>1, <1>2, <1>3, <1>4, <1>5, Zenon DEF PlaceDown
<1>8. PlaceOver(p) \in AnyPlace
  <2> DEFINE q == [p EXCEPT !.depth = 1]
             cu == IF p.cursor = "floor" THEN "depth" ELSE "floor"
  <2>1. q \in AnyPlace /\ cu \in {"floor", "depth"}
    BY <1>3 DEF Byte
  <2>2. PlaceOver(p) = [q EXCEPT !.cursor = cu]
    BY DEF PlaceOver
  <2> HIDE DEF q, cu
  <2>. QED
    BY <2>1, <2>2 DEF AnyPlace
<1>. QED
  BY <1>1, <1>6, <1>7, <1>8 DEF Astray

LEMMA NewBookRows ==
  ASSUME NEW f \in NewBookForm
  PROVE  /\ NextRow(f) \in NewBookForm
         /\ NextRow(f).row = 4 => f.row = 4
         /\ \A k : Typed(f, k) \in NewBookForm /\ Typed(f, k).row = f.row
<1>1. \A k : Typed(f, k) \in NewBookForm /\ Typed(f, k).row = f.row
  BY DEF NewBookForm, Typed, YesNo
<1>2. f.row \in 0..4 /\ f.flag \in 0..2
  BY DEF NewBookForm
<1>3. CASE f.flag = 1 /\ f.row >= 3
  <2> DEFINE g == [f EXCEPT !.flag = 0, !.auto = "no"]
  <2>1. NextRow(f) = g
    BY <1>3 DEF NextRow
  <2>2. g \in NewBookForm /\ g.row = f.row
    <3> DEFINE h == [f EXCEPT !.flag = 0]
    <3>1. h \in NewBookForm /\ h.row = f.row
      BY DEF NewBookForm
    <3>2. g = [h EXCEPT !.auto = "no"]
      OBVIOUS
    <3> HIDE DEF g, h
    <3>. QED
      BY <3>1, <3>2 DEF NewBookForm, YesNo
  <2>. QED
    BY <1>1, <2>1, <2>2
<1>4. CASE f.flag = 1 /\ f.row < 3
  <2>1. NextRow(f) = [f EXCEPT !.row = f.row + 1, !.auto = "yes"]
    BY <1>2, <1>4 DEF NextRow
  <2>2. f.row + 1 \in 0..4 /\ f.row + 1 # 4
    BY <1>2, <1>4
  <2>. QED
    BY <1>1, <2>1, <2>2, ZenonT(30) DEF NewBookForm, YesNo
<1>5. CASE f.flag = 2
  <2> DEFINE g == [f EXCEPT !.flag = 1, !.row = 0, !.auto = "yes"]
  <2>1. NextRow(f) = g
    BY <1>5 DEF NextRow
  <2>2. g \in NewBookForm /\ g.row = 0
    <3> DEFINE e == [f EXCEPT !.flag = 1]
               h == [e EXCEPT !.row = 0]
    <3>0. e \in NewBookForm
      BY DEF NewBookForm
    <3>2. g = [h EXCEPT !.auto = "yes"]
      OBVIOUS
    <3> HIDE DEF e, g
    <3>1. h \in NewBookForm /\ h.row = 0
      BY <3>0 DEF NewBookForm
    <3> HIDE DEF h
    <3>. QED
      BY <3>1, <3>2 DEF NewBookForm, YesNo
  <2>. QED
    BY <1>1, <2>1, <2>2
<1>6. CASE f.flag = 0
  <2>1. NextRow(f) = f
    BY <1>6 DEF NextRow
  <2>. QED
    BY <1>1, <2>1
<1>. QED
  BY <1>2, <1>3, <1>4, <1>5, <1>6

-----------------------------------------------------------------------------
(* The password, and the ways back.                                        *)

LEMMA ChoiceKeeps ==
  ASSUME NEW page, global_pw_verified \in 0..1, get_choice(page)
  PROVE  /\ current_page' = page /\ global_pw_verified' \in 0..1
         /\ global_pw_verified' = 1 => global_pw_verified = 1 /\ current_page = page
  BY DEF get_choice, VerifiedOn

LEMMA VerifyEnds ==
  ASSUME NEW page, global_pw_verified \in 0..1, Remembered(page), NEW v \in verify_identity(page)
  PROVE  /\ v.verified \in 0..1 /\ v.ok \in YesNo
         /\ v.verified = 1 => v.since = "yes"
         /\ v.ok = "yes" => v.verified = 1
         /\ v.ok = "no" => v.since = since
  BY DEF verify_identity, VerifiedOn, Remembered, YesNo

LEMMA HomeInv ==
  ASSUME PagesInv, pc \in Pages, Home, global_pw_verified' \in 0..1, current_page' # "mainmenu",
         UNCHANGED conn, ChangesVerified'
  PROVE  PagesInv'
<1>1. pc' = "menu" /\ form' = NoForm
  BY DEF Home
<1>2. FormInv'
  BY <1>1 DEF FormInv, Pages
<1>3. AccessInv'
  BY <1>1 DEF AccessInv, Remembered
<1>4. ConnInv'
  BY DEF PagesInv, ConnInv, conn
<1>. QED
  BY <1>2, <1>3, <1>4 DEF PagesInv

LEMMA ShelvesInv ==
  ASSUME PagesInv, pc \in Pages, NEW stay, Shelves(stay),
         global_pw_verified' \in 0..1, current_page' # "mainmenu",
         global_pw_verified' = 1 /\ current_page' = "lookthrough" => stay = "yes",
         UNCHANGED conn, ChangesVerified'
  PROVE  PagesInv'
<1>1. CASE Home
  BY <1>1, HomeInv
<1>2. CASE pc' = "shelves" /\ form' = NoForm /\ since' = stay
  <2>1. FormInv'
    BY <1>2 DEF FormInv, Pages
  <2>2. AccessInv'
    BY <1>2 DEF AccessInv, Remembered
  <2>3. ConnInv'
    BY DEF PagesInv, ConnInv, conn
  <2>. QED
    BY <2>1, <2>2, <2>3 DEF PagesInv
<1>. QED
  BY <1>1, <1>2 DEF Shelves

-----------------------------------------------------------------------------
(* Logging in.                                                             *)

LEMMA PagesInit == Init => PagesInv
<1> SUFFICES ASSUME Init PROVE PagesInv
  OBVIOUS
<1>1. pc = "login" /\ form = Login /\ global_pw_verified = 0 /\ op = NoOp
  BY DEF Init
<1>2. Login \in LoginForm /\ Login.bReg = 0
  BY DEF Login, LoginForm, YesNo
<1>3. FormInv /\ ConnInv
  BY <1>1, <1>2 DEF FormInv, ConnInv, Attempt, Pages
<1>4. AccessInv
  BY <1>1 DEF AccessInv
<1>5. ChangesVerified
  BY <1>1 DEF ChangesVerified, NoOp
<1>. QED
  BY <1>3, <1>4, <1>5 DEF PagesInv

\* Steps that stay with the login and the registration, or end in the program's
\* end.
LEMMA OutsideInv ==
  ASSUME PagesInv, pc \notin Pages,
         \/ pc' = "login" /\ form' \in LoginForm /\ Attempt(form')
         \/ pc' \in {"register", "joining", "over", "crashed"},
         pc' \in {"login", "register"} => global_pw_verified' = 0,
         global_pw_verified' \in 0..1, UNCHANGED op
  PROVE  PagesInv'
<1>1. FormInv'
  BY DEF FormInv, Pages
<1>2. AccessInv'
  BY DEF AccessInv
<1>3. ConnInv' /\ ChangesVerified'
  BY DEF PagesInv, ConnInv, ChangesVerified, Pages
<1>. QED
  BY <1>1, <1>2, <1>3 DEF PagesInv

LEMMA LoginInv ==
  ASSUME PagesInv, LoginMove \/ LoginField \/ LoginRegister \/ LoginQuit
  PROVE  PagesInv'
<1>1. /\ pc = "login" /\ pc \notin Pages /\ global_pw_verified = 0
      /\ form \in LoginForm /\ Attempt(form)
  BY ZenonT(30) DEF LoginMove, LoginField, LoginRegister, LoginQuit, PagesInv, FormInv, AccessInv, Pages
<1>2. global_pw_verified' = 0 /\ UNCHANGED op
  BY <1>1, Zenon DEF LoginMove, LoginField, LoginRegister, LoginQuit, Reading, get_choice, VerifiedOn, Goto
<1>3. form.row \in 0..3 /\ form.bReg \in 0..1
  BY <1>1 DEF LoginForm
<1>4. CASE LoginQuit
  BY <1>1, <1>2, <1>4, OutsideInv DEF LoginQuit, Goto
<1>5. CASE LoginRegister
  <2>1. pc' = "login" /\ form' = BeginRegistration
    BY <1>5 DEF LoginRegister, Goto
  <2>2. BeginRegistration = [kind |-> "login", row |-> 0, auto |-> "yes", bReg |-> 1,
                             name |-> "no", password |-> "no"]
    <3> DEFINE h == [Login EXCEPT !.bReg = 1]
    <3>1. h = [kind |-> "login", row |-> 0, auto |-> "no", bReg |-> 1, name |-> "no",
               password |-> "no"]
      BY DEF Login
    <3>2. BeginRegistration = [h EXCEPT !.auto = "yes"]
      BY DEF BeginRegistration
    <3> HIDE DEF h
    <3>. QED
      BY <3>1, <3>2
  <2>3. form' \in LoginForm /\ Attempt(form')
    BY <2>1, <2>2 DEF LoginForm, YesNo, Attempt
  <2>. QED
    BY <1>1, <1>2, <2>1, <2>3, OutsideInv
<1>6. CASE LoginMove
  <2>1. PICK row \in {RowUp(form.row, 3), RowDown(form.row, 3)} :
             pc' = "login" /\ form' = [form EXCEPT !.row = row]
    BY <1>6 DEF LoginMove, Goto
  <2>2. row \in 0..3
    BY <1>3 DEF RowUp, RowDown
  <2>3. form' \in LoginForm /\ form'.bReg = form.bReg
    BY <1>1, <2>1, <2>2 DEF LoginForm
  <2>4. form.bReg # 1
    BY <1>1, <1>6 DEF LoginMove, Attempt
  <2>. QED
    BY <1>1, <1>2, <2>1, <2>3, <2>4, OutsideInv DEF Attempt
<1>7. CASE LoginField
  <2>1. PICK got \in YesNo :
          LET f == IF form.row = 0 THEN [form EXCEPT !.name = got] ELSE [form EXCEPT !.password = got]
              on == \/ form.row = 0 /\ form.password = "no"
                    \/ form.row = 1 /\ form.bReg = 1
          IN  \/ got = "no" /\ form.bReg = 1 /\ Goto("login", Login)
              \/ got = "no" /\ form.bReg = 0 /\ Goto("login", [f EXCEPT !.auto = "no"])
              \/ /\ got = "yes"
                 /\ Goto("login", [f EXCEPT !.row = @ + 1, !.auto = IF on THEN "yes" ELSE "no"])
    BY <1>7, Zenon DEF LoginField
  <2> DEFINE f == IF form.row = 0 THEN [form EXCEPT !.name = got] ELSE [form EXCEPT !.password = got]
             on == \/ form.row = 0 /\ form.password = "no"
                   \/ form.row = 1 /\ form.bReg = 1
             auto == IF on THEN "yes" ELSE "no"
  <2>2. f \in LoginForm /\ f.bReg = form.bReg /\ f.row = form.row
    BY <1>1 DEF LoginForm
  <2>3. CASE got = "no" /\ form.bReg = 1 /\ Goto("login", Login)
    <3>1. Login \in LoginForm /\ Login.bReg = 0
      BY DEF Login, LoginForm, YesNo
    <3>. QED
      BY <1>1, <1>2, <2>3, <3>1, OutsideInv DEF Goto, Attempt
  <2>4. CASE form.bReg = 0 /\ Goto("login", [f EXCEPT !.auto = "no"])
    <3> HIDE DEF f
    <3>1. form' \in LoginForm /\ form'.bReg = 0 /\ pc' = "login"
      BY <2>2, <2>4 DEF Goto, LoginForm, YesNo
    <3>. QED
      BY <1>1, <1>2, <3>1, OutsideInv DEF Attempt
  <2>5. CASE got = "yes" /\ Goto("login", [f EXCEPT !.row = @ + 1, !.auto = auto])
    <3>0. form.row \in {0, 1}
      BY <1>7, Zenon DEF LoginField
    <3>1. form.row \in {0, 1} /\ form.row + 1 \in 0..3 /\ form.row + 1 \in 0..2
      BY <3>0
    <3>2. auto \in YesNo
      BY DEF YesNo
    <3>3. form.bReg = 1 => auto = "yes"
      BY <1>1, <3>1 DEF Attempt
    <3>4. /\ form.row = 0 => f.name = "yes" /\ f.password = form.password
          /\ form.row = 1 => f.name = form.name /\ f.password = "yes"
      BY <1>1, <2>5 DEF LoginForm
    <3>5. form.row = 0 \/ form.name = "yes" \/ form.bReg # 1
      BY <1>1, <3>1 DEF Attempt
    <3> HIDE DEF f, auto
    <3> DEFINE h == [f EXCEPT !.row = f.row + 1]
    <3>6. h \in LoginForm /\ h.bReg = form.bReg /\ h.row = form.row + 1
          /\ h.name = f.name /\ h.password = f.password
      BY <2>2, <3>1 DEF LoginForm
    <3>7. form' = [h EXCEPT !.auto = auto] /\ pc' = "login"
      BY <2>5 DEF Goto
    <3> HIDE DEF h
    <3>8. form' \in LoginForm /\ form'.bReg = form.bReg /\ form'.row = form.row + 1
          /\ form'.name = f.name /\ form'.password = f.password /\ form'.auto = auto
      BY <3>2, <3>6, <3>7 DEF LoginForm
    <3>9. Attempt(form')
      BY <3>1, <3>3, <3>4, <3>5, <3>8 DEF Attempt
    <3>. QED
      BY <1>1, <1>2, <3>7, <3>8, <3>9, OutsideInv
  <2>. QED
    BY <2>1, <2>3, <2>4, <2>5, SMTT(30)
<1>. QED
  BY <1>4, <1>5, <1>6, <1>7

LEMMA LoginGoInv ==
  ASSUME PagesInv, LoginGo
  PROVE  PagesInv'
<1>1. /\ pc = "login" /\ pc \notin Pages /\ global_pw_verified = 0 /\ form.row = 2
      /\ form \in LoginForm /\ Attempt(form)
  BY DEF LoginGo, PagesInv, FormInv, AccessInv, Pages
<1>2. global_pw_verified' = 0 /\ Reading
  BY <1>1 DEF LoginGo, Reading, get_choice, VerifiedOn
<1>3. Login \in LoginForm /\ Attempt(Login) /\ form.bReg \in 0..1
  BY <1>1 DEF Login, LoginForm, YesNo, Attempt
<1>4. CASE /\ form.name = "no" \/ form.password = "no"
           /\ Goto("login", [form EXCEPT !.auto = "no"])
  <2>1. form.bReg = 0
    BY <1>1, <1>3, <1>4 DEF Attempt
  <2>2. form' \in LoginForm /\ form'.bReg = 0 /\ pc' = "login" /\ UNCHANGED op
    BY <1>1, <1>4, <2>1 DEF Goto, LoginForm, YesNo
  <2>. QED
    BY <1>1, <1>2, <2>2, OutsideInv DEF Attempt
<1>5. ASSUME form.bReg = 0, NEW ok \in YesNo, client_start_login(ok),
             IF ok = "yes" THEN Goto("sync", NoForm)
             ELSE Goto("login", [form EXCEPT !.password = "no", !.row = 1, !.auto = "yes"])
      PROVE  PagesInv'
  <2>1. CASE ok = "yes"
    <3>1. /\ pc' = "sync" /\ UNCHANGED op
          /\ Connected /\ owner' = opened' /\ login_user' = "yes"
      BY <1>5, <2>1 DEF Goto, client_start_login
    <3>2. client_sockfd' = owner' /\ owner' \in up'
      BY <3>1 DEF Connected
    <3>3. FormInv' /\ ConnInv' /\ ChangesVerified'
      BY <3>1, <3>2 DEF PagesInv, FormInv, ConnInv, ChangesVerified, Pages
    <3>4. AccessInv'
      BY <1>2, <3>1 DEF AccessInv
    <3>. QED
      BY <3>3, <3>4 DEF PagesInv
  <2>2. CASE ok = "no"
    <3> DEFINE h == [form EXCEPT !.password = "no"]
               g == [h EXCEPT !.row = 1]
    <3>1. pc' = "login" /\ UNCHANGED op /\ form' = [g EXCEPT !.auto = "yes"]
      BY <1>5, <2>2 DEF Goto
    <3>2. h \in LoginForm /\ h.bReg = 0
      BY <1>1, <1>5 DEF LoginForm, YesNo
    <3> HIDE DEF h
    <3>3. g \in LoginForm /\ g.bReg = 0
      BY <3>2 DEF LoginForm
    <3> HIDE DEF g
    <3>4. form' \in LoginForm /\ form'.bReg = 0
      BY <3>1, <3>3 DEF LoginForm, YesNo
    <3>. QED
      BY <1>1, <1>2, <3>1, <3>4, OutsideInv DEF Attempt
  <2>. QED
    BY <2>1, <2>2 DEF YesNo
<1>6. ASSUME NEW ok \in YesNo,
             IF ok = "yes" THEN Goto("register", Register) ELSE Goto("login", Login)
      PROVE  PagesInv'
  <2>1. \/ pc' = "login" /\ form' = Login
        \/ pc' = "register"
    BY <1>6, Zenon DEF Goto
  <2>2. UNCHANGED op
    BY <1>6, Zenon DEF Goto
  <2>. QED
    BY <1>1, <1>2, <1>3, <2>1, <2>2, OutsideInv
<1>. QED
  BY <1>4, <1>5, <1>6 DEF LoginGo

LEMMA RegisterInv ==
  ASSUME PagesInv, RegisterKey
  PROVE  PagesInv'
<1>1. pc = "register" /\ pc \notin Pages /\ global_pw_verified = 0
  BY DEF RegisterKey, PagesInv, AccessInv, Pages
<1>2. global_pw_verified' = 0
  BY <1>1 DEF RegisterKey, get_choice, VerifiedOn
<1>3. Login \in LoginForm /\ Attempt(Login)
  BY DEF Login, LoginForm, YesNo, Attempt
<1>4. UNCHANGED op /\ (pc' = "register" \/ (pc' = "login" /\ form' = Login))
  <2>1. ASSUME NEW f, Goto("register", f) PROVE UNCHANGED op /\ pc' = "register"
    BY <2>1 DEF Goto
  <2>2. ASSUME Goto("login", Login) PROVE UNCHANGED op /\ pc' = "login" /\ form' = Login
    BY <2>2 DEF Goto
  <2>3. ASSUME NEW ok \in YesNo,
               IF ok = "yes" THEN Goto("login", Login) ELSE Goto("register", [form EXCEPT !.row = 0])
        PROVE  UNCHANGED op /\ (pc' = "register" \/ (pc' = "login" /\ form' = Login))
    BY <2>1, <2>2, <2>3, Zenon
  <2>. QED
    BY <2>1, <2>2, <2>3, Zenon DEF RegisterKey
<1>. QED
  BY <1>1, <1>2, <1>3, <1>4, OutsideInv

LEMMA ThreadInv ==
  ASSUME PagesInv, ncgui_sync_from_server \/ thread_heartbeat \/ Join
  PROVE  PagesInv'
<1>1. CASE thread_heartbeat
  <2>1. UNCHANGED <<pc, form, place, user_shelf, purpose, current_page, global_pw_verified, since,
                    client_sockfd, up, login_user, owner, op>>
    BY <1>1 DEF thread_heartbeat, access, conn
  <2>. QED
    BY <2>1 DEF PagesInv, FormInv, AccessInv, Remembered, ConnInv, ChangesVerified
<1>2. CASE Join
  <2>1. pc' \in {"over", "crashed"} /\ UNCHANGED <<op, global_pw_verified>> /\ pc \notin Pages
    BY <1>2 DEF Join, Goto, access, Pages
  <2>. QED
    BY <2>1, OutsideInv DEF PagesInv, AccessInv
<1>3. CASE ncgui_sync_from_server
  <2>1. pc = "sync" /\ UNCHANGED <<op, global_pw_verified, conn>> /\ pc \notin Pages
    BY <1>3 DEF ncgui_sync_from_server, Goto, access, Pages
  <2>2. global_pw_verified = 0
    BY <2>1 DEF PagesInv, AccessInv
  <2>3. CASE pc' = "over"
    BY <2>1, <2>2, <2>3, OutsideInv
  <2>4. CASE pc' = "menu" /\ form' = NoForm
    <3>1. FormInv' /\ AccessInv'
      BY <2>1, <2>2, <2>4 DEF FormInv, AccessInv, Remembered, Pages
    <3>2. ConnInv' /\ ChangesVerified'
      BY <2>1, <2>4 DEF PagesInv, ConnInv, conn, ChangesVerified
    <3>. QED
      BY <3>1, <3>2 DEF PagesInv
  <2>. QED
    BY <1>3, <2>3, <2>4 DEF ncgui_sync_from_server, Goto
<1>. QED
  BY <1>1, <1>2, <1>3

-----------------------------------------------------------------------------
(* The pages behind the main menu.                                         *)

LEMMA OpKept == ASSUME PagesInv, UNCHANGED op PROVE ChangesVerified'
  BY DEF PagesInv, ChangesVerified

LEMMA OpSent == ASSUME NEW kind, Request(kind, "yes") PROVE ChangesVerified'
  BY DEF Request, ChangesVerified

LEMMA ConnKept == ASSUME PagesInv, pc \in Pages, UNCHANGED Session PROVE ConnInv' /\ UNCHANGED conn
  BY DEF PagesInv, ConnInv, Session, conn

\* A page without a form follows.
LEMMA PlainInv ==
  ASSUME PagesInv, pc \in Pages, UNCHANGED conn, ChangesVerified', AccessInv', form' = NoForm,
         pc' \in Pages \ {"newbook", "place", "height", "profile"}
  PROVE  PagesInv'
<1>1. FormInv'
  BY DEF FormInv, Pages
<1>2. ConnInv'
  BY DEF PagesInv, ConnInv, conn
<1>. QED
  BY <1>1, <1>2 DEF PagesInv

LEMMA MenuInv ==
  ASSUME PagesInv, MenuChoice
  PROVE  PagesInv'
<1>1. /\ pc = "menu" /\ pc \in Pages /\ form = NoForm /\ form' = NoForm /\ UNCHANGED conn
      /\ global_pw_verified \in 0..1 /\ Remembered("mainmenu")
  BY DEF MenuChoice, PagesInv, FormInv, AccessInv, Pages
<1>2. ChangesVerified'
  BY DEF MenuChoice, NoOp, ChangesVerified
<1>3. CASE get_choice("mainmenu") /\ UNCHANGED since /\ pc' \in {"shelves", "menu", "search"}
  <2>1. AccessInv'
    BY <1>1, <1>3, ChoiceKeeps DEF AccessInv, Remembered
  <2>. QED
    BY <1>1, <1>2, <1>3, <2>1, PlainInv DEF Pages
<1>4. CASE get_choice("mainmenu") /\ pc' = "joining"
  <2>1. AccessInv'
    BY <1>1, <1>4, ChoiceKeeps DEF AccessInv
  <2>. QED
    BY <1>2, <1>4, <2>1 DEF PagesInv, FormInv, ConnInv, Pages
<1>5. ASSUME NEW v \in verify_identity("mainmenu"), Verified("mainmenu", v), since' = v.since,
             pc' = IF v.ok = "yes" THEN "name" ELSE "menu"
      PROVE  PagesInv'
  <2>1. AccessInv'
    BY <1>1, <1>5, VerifyEnds DEF AccessInv, Verified, Remembered
  <2>. QED
    BY <1>1, <1>2, <1>5, <2>1, PlainInv DEF Pages
<1>. QED
  BY <1>3, <1>4, <1>5 DEF MenuChoice

LEMMA ShelvesKeyInv ==
  ASSUME PagesInv, ShelvesKey \/ OptionsKey \/ OptionsOpen
  PROVE  PagesInv'
<1>1. /\ pc \in {"shelves", "options"} /\ pc \in Pages /\ form = NoForm /\ UNCHANGED conn
      /\ global_pw_verified \in 0..1 /\ Remembered("lookthrough") /\ get_choice("lookthrough")
  BY ConnKept DEF ShelvesKey, OptionsKey, OptionsOpen, PagesInv, FormInv, AccessInv, Pages
<1>2. UNCHANGED op /\ ChangesVerified'
  BY OpKept DEF ShelvesKey, OptionsKey, OptionsOpen, Within, Goto
<1>3. CASE Shelves(since)
  BY <1>1, <1>2, <1>3, ChoiceKeeps, ShelvesInv DEF Remembered
<1>4. ASSUME NEW p \in {"options", "view"}, Within(p, NoForm)
      PROVE  PagesInv'
  <2>1. AccessInv' /\ pc' = p /\ form' = NoForm
    BY <1>1, <1>4, ChoiceKeeps DEF AccessInv, Remembered, Within, Goto
  <2>. QED
    BY <1>1, <1>2, <1>4, <2>1, PlainInv DEF Pages
<1>5. CASE pc' = "books" /\ UNCHANGED form
  <2>1. AccessInv'
    BY <1>1, <1>5, ChoiceKeeps DEF AccessInv, Remembered
  <2>. QED
    BY <1>1, <1>2, <1>5, <2>1, PlainInv DEF Pages
<1>. QED
  BY <1>3, <1>4, <1>5, Zenon DEF ShelvesKey, OptionsKey, OptionsOpen

LEMMA ViewInv ==
  ASSUME PagesInv, ViewKey
  PROVE  PagesInv'
<1>1. /\ pc = "view" /\ pc \in Pages /\ UNCHANGED conn
      /\ global_pw_verified \in 0..1 /\ get_choice("buildshelf")
  BY ConnKept DEF ViewKey, PagesInv, AccessInv, Pages
<1>2. current_page' = "buildshelf" /\ global_pw_verified' \in 0..1 /\ UNCHANGED op /\ ChangesVerified'
  BY <1>1, ChoiceKeeps, OpKept DEF ViewKey, Within, Goto
<1>3. CASE Shelves(since)
  BY <1>1, <1>2, <1>3, ShelvesInv
<1>4. CASE Within("view", NoForm)
  <2>1. AccessInv' /\ pc' = "view" /\ form' = NoForm
    BY <1>2, <1>4 DEF AccessInv, Within, Goto
  <2>. QED
    BY <1>1, <1>2, <2>1, PlainInv DEF Pages
<1>. QED
  BY <1>3, <1>4 DEF ViewKey

LEMMA OptionsInv ==
  ASSUME PagesInv, OptionsNewBook \/ OptionsDestroy
  PROVE  PagesInv'
<1>1. /\ pc = "options" /\ pc \in Pages /\ UNCHANGED conn /\ ConnInv'
      /\ global_pw_verified \in 0..1 /\ Remembered("lookthrough")
  BY ConnKept DEF OptionsNewBook, OptionsDestroy, PagesInv, AccessInv, Pages
<1>2. ASSUME NEW v \in verify_identity("lookthrough"), Verified("lookthrough", v), Shelves(v.since), ChangesVerified'
      PROVE  PagesInv'
  BY <1>1, <1>2, VerifyEnds, ShelvesInv DEF Verified
<1>3. CASE OptionsNewBook
  <2>1. ChangesVerified'
    BY <1>3, OpKept DEF OptionsNewBook
  <2>2. PICK v \in verify_identity("lookthrough") :
          /\ Verified("lookthrough", v)
          /\ \/ /\ v.ok = "yes"
                /\ pc' = "newbook" /\ form' = NewBook /\ since' = v.since /\ user_shelf' \in UserShelf
             \/ v.ok = "no" /\ Shelves(v.since)
    BY <1>3 DEF OptionsNewBook
  <2>3. CASE /\ v.ok = "yes"
             /\ pc' = "newbook" /\ form' = NewBook /\ since' = v.since /\ user_shelf' \in UserShelf
    <3>1. NewBook \in NewBookForm /\ NewBook.row = 0
      BY DEF NewBook, NewBookForm, YesNo
    <3>2. FormInv'
      BY <2>3, <3>1 DEF FormInv, Pages
    <3>3. AccessInv'
      BY <1>1, <2>2, <2>3, <3>1, VerifyEnds DEF AccessInv, Verified
    <3>. QED
      BY <1>1, <2>1, <3>2, <3>3 DEF PagesInv
  <2>. QED
    BY <1>2, <2>1, <2>2, <2>3
<1>4. CASE OptionsDestroy
  <2>1. PICK v \in verify_identity("lookthrough") :
          /\ Verified("lookthrough", v)
          /\ \/ Shelves(v.since) /\ UNCHANGED op
             \/ v.ok = "yes" /\ Goto("removing", NoForm) /\ since' = v.since
             \/ v.ok = "yes" /\ Shelves(v.since) /\ Request("remove", v.since)
    BY <1>4 DEF OptionsDestroy
  <2>2. CASE Shelves(v.since) /\ UNCHANGED op
    BY <1>2, <2>1, <2>2, OpKept
  <2>3. CASE v.ok = "yes" /\ Shelves(v.since) /\ Request("remove", v.since)
    BY <1>1, <1>2, <2>1, <2>3, OpSent, VerifyEnds
  <2>4. CASE v.ok = "yes" /\ Goto("removing", NoForm) /\ since' = v.since
    <3>1. ChangesVerified' /\ pc' = "removing" /\ form' = NoForm
      BY <2>4, OpKept DEF Goto
    <3>2. AccessInv'
      BY <1>1, <2>1, <2>4, <3>1, VerifyEnds DEF AccessInv, Verified, Remembered
    <3>. QED
      BY <1>1, <3>1, <3>2, PlainInv DEF Pages
  <2>. QED
    BY <2>1, <2>2, <2>3, <2>4
<1>. QED
  BY <1>3, <1>4

LEMMA RemovingInv ==
  ASSUME PagesInv, RemovingKey
  PROVE  PagesInv'
<1>1. /\ pc = "removing" /\ pc \in Pages /\ UNCHANGED conn
      /\ global_pw_verified \in 0..1 /\ since = "yes" /\ get_choice("lookthrough")
  BY ConnKept DEF RemovingKey, PagesInv, AccessInv, Pages
<1>2. CASE Within("removing", NoForm)
  <2>1. ChangesVerified' /\ pc' = "removing" /\ form' = NoForm /\ since' = "yes"
    BY <1>1, <1>2, OpKept DEF Within, Goto
  <2>2. AccessInv'
    BY <1>1, <2>1, ChoiceKeeps DEF AccessInv, Remembered
  <2>. QED
    BY <1>1, <2>1, <2>2, PlainInv DEF Pages
<1>3. CASE Shelves(since) /\ Request("remove", since)
  <2>1. ChangesVerified'
    BY <1>1, <1>3, OpSent
  <2>. QED
    BY <1>1, <1>3, <2>1, ChoiceKeeps, ShelvesInv
<1>. QED
  BY <1>2, <1>3 DEF RemovingKey

LEMMA BooksInv ==
  ASSUME PagesInv, BooksKey
  PROVE  PagesInv'
<1>1. /\ pc = "books" /\ pc \in Pages /\ form = NoForm /\ UNCHANGED conn /\ ConnInv'
      /\ global_pw_verified \in 0..1 /\ Remembered("bookinfo") /\ get_choice("bookinfo")
  BY ConnKept DEF BooksKey, PagesInv, FormInv, AccessInv, Pages
<1>2. UNCHANGED op /\ ChangesVerified'
  BY OpKept DEF BooksKey, Within, Goto
<1>3. ASSUME NEW p \in {"books", "box"}, Within(p, NoForm)
      PROVE  PagesInv'
  <2>1. pc' = p /\ form' = NoForm /\ UNCHANGED since
    BY <1>3 DEF Within, Goto
  <2>2. AccessInv'
    BY <1>1, <1>3, <2>1, ChoiceKeeps DEF AccessInv, Remembered
  <2>. QED
    BY <1>1, <1>2, <1>3, <2>1, <2>2, PlainInv DEF Pages
<1>4. CASE LeaveBooks
  BY <1>1, <1>2, <1>4, ChoiceKeeps, HomeInv, ShelvesInv DEF LeaveBooks
<1>5. CASE /\ pc' = "place" /\ place' = FirstPlace /\ UNCHANGED <<form, purpose, since>>
           /\ user_shelf' \in IF purpose = "search" THEN StackShelf ELSE UserShelf
  <2>0. FirstPlace \in AnyPlace
    BY DEF FirstPlace, AnyPlace, Byte
  <2>1. FormInv'
    BY <1>1, <1>5, <2>0, PlaceStarts DEF FormInv, Pages, Astray
  <2>2. form'.kind = "none"
    BY <1>1, <1>5 DEF NoForm
  <2>3. AccessInv'
    BY <1>1, <1>5, <2>2, ChoiceKeeps DEF AccessInv, Remembered
  <2>. QED
    BY <1>1, <1>2, <2>1, <2>3 DEF PagesInv
<1>. QED
  BY <1>3, <1>4, <1>5 DEF BooksKey

LEMMA BoxInv ==
  ASSUME PagesInv, BoxKey
  PROVE  PagesInv'
<1>1. /\ pc = "box" /\ pc \in Pages /\ form = NoForm /\ UNCHANGED conn
      /\ global_pw_verified \in 0..1 /\ Remembered("bookinfo")
  BY ConnKept DEF BoxKey, PagesInv, FormInv, AccessInv, Pages
<1>2. ASSUME get_choice("bookinfo"), NEW p \in {"books", "box"}, Within(p, NoForm)
      PROVE  PagesInv'
  <2>1. pc' = p /\ form' = NoForm /\ UNCHANGED since /\ ChangesVerified'
    BY <1>2, OpKept DEF Within, Goto
  <2>2. AccessInv'
    BY <1>1, <1>2, <2>1, ChoiceKeeps DEF AccessInv, Remembered
  <2>. QED
    BY <1>1, <1>2, <2>1, <2>2, PlainInv DEF Pages
<1>3. ASSUME NEW v \in verify_identity("bookinfo"), Verified("bookinfo", v), since' = v.since,
             pc' \in {"books", "box"}, form' = NoForm, ChangesVerified'
      PROVE  PagesInv'
  <2>1. AccessInv'
    BY <1>1, <1>3, VerifyEnds DEF AccessInv, Verified, Remembered
  <2>. QED
    BY <1>1, <1>3, <2>1, PlainInv DEF Pages
<1>4. ASSUME NEW v \in verify_identity("bookinfo"), Verified("bookinfo", v), since' = v.since,
             NEW p \in {"books", "box"}, Goto(p, NoForm)
      PROVE  PagesInv'
  BY <1>3, <1>4, OpKept DEF Goto
<1>5. ASSUME NEW v \in verify_identity("bookinfo"), Verified("bookinfo", v), since' = v.since,
             v.ok = "yes", pc' = "books", Request("update", v.since), UNCHANGED form
      PROVE  PagesInv'
  BY <1>1, <1>3, <1>5, OpSent, VerifyEnds
<1>. QED
  BY <1>2, <1>4, <1>5 DEF BoxKey

LEMMA PlaceInv ==
  ASSUME PagesInv, PlaceKey
  PROVE  PagesInv'
<1>1. /\ pc = "place" /\ pc \in Pages /\ ConnInv' /\ UNCHANGED conn
      /\ \/ (form = NoForm \/ form \in NewBookForm) /\ Placed(user_shelf, place)
         \/ purpose = "search" /\ form = NoForm /\ Astray(user_shelf, place)
      /\ UNCHANGED purpose
      /\ UNCHANGED <<current_page, global_pw_verified, since>>
  BY ConnKept DEF PlaceKey, PagesInv, FormInv, Pages, access
<1>2. CASE /\ place' \in {PlaceUp(user_shelf, place), PlaceDown(user_shelf, place), PlaceOver(place)}
           /\ UNCHANGED <<pc, form, user_shelf, op>>
  <2>1. /\ Placed(user_shelf, place) => Placed(user_shelf', place')
        /\ Astray(user_shelf, place) => Astray(user_shelf', place')
    BY <1>2, PlaceMoves, AstrayMoves
  <2>2. FormInv'
    BY <1>1, <1>2, <2>1 DEF FormInv, Pages
  <2>3. AccessInv'
    BY <1>1, <1>2 DEF PagesInv, AccessInv, Remembered
  <2>. QED
    BY <1>1, <1>2, <2>2, <2>3, OpKept DEF PagesInv
<1>3. CASE /\ form.kind = "newbook" /\ pc' = "newbook"
           /\ form' = NextRow([form EXCEPT !.place = PlaceCode(place)])
           /\ UNCHANGED <<user_shelf, op>>
  <2>1. form \in NewBookForm /\ Placed(user_shelf, place)
    BY <1>1, <1>3 DEF NoForm
  <2>2. PlaceCode(place) \in Nat
    <3>1. place.floor \in Nat /\ place.depth \in Nat
      BY <2>1, FormsAssumption DEF Placed, PlaceForm, Floor, Depth
    <3>. QED
      BY <3>1 DEF PlaceCode
  <2> DEFINE g == [form EXCEPT !.place = PlaceCode(place)]
  <2>3. g \in NewBookForm /\ g.row = form.row /\ form' = NextRow(g)
    BY <1>3, <2>1, <2>2 DEF NewBookForm
  <2> HIDE DEF g
  <2>4. form' \in NewBookForm /\ (form'.row = 4 => form.row = 4)
    BY <2>3, NewBookRows
  <2>5. FormInv'
    BY <1>1, <1>3, <2>1, <2>4 DEF FormInv, Pages, Placed
  <2>6. AccessInv'
    BY <1>1, <1>3, <2>4 DEF PagesInv, AccessInv
  <2>. QED
    BY <1>1, <1>3, <2>5, <2>6, OpKept DEF PagesInv
<1>4. CASE form.kind # "newbook" /\ pc' = "books" /\ UNCHANGED form /\ Request("collect", since)
  <2>1. form' = NoForm
    BY <1>1, <1>4 DEF NewBookForm
  <2>2. ChangesVerified'
    BY <1>4 DEF Request, ChangesVerified
  <2>3. AccessInv'
    BY <1>1, <1>4 DEF PagesInv, AccessInv, Remembered
  <2>. QED
    BY <1>1, <1>4, <2>1, <2>2, <2>3, PlainInv DEF Pages
<1>. QED
  BY <1>2, <1>3, <1>4 DEF PlaceKey

\* How the page for a new book takes Enter.
LEMMA NewBookReads ==
  ASSUME PagesInv, pc = "newbook", NEW f, NewBookRead(f)
  PROVE  /\ f \in NewBookForm /\ f.row = form.row
         /\ global_pw_verified' \in 0..1
         /\ current_page' = "newbook" \/ UNCHANGED current_page
<1>1. form \in NewBookForm /\ global_pw_verified \in 0..1
  BY DEF PagesInv, FormInv, AccessInv
<1>2. CASE f = form /\ UNCHANGED <<current_page, global_pw_verified>>
  BY <1>1, <1>2
<1>3. CASE get_choice("newbook") /\ f \in {Typed(form, k) : k \in {"newline", "KEY_ENTER"}}
  BY <1>1, <1>3, ChoiceKeeps, NewBookRows
<1>. QED
  BY <1>2, <1>3 DEF NewBookRead

\* The page goes on with another row.
LEMMA NewBookStays ==
  ASSUME PagesInv, pc = "newbook", UNCHANGED conn, ChangesVerified',
         form' \in NewBookForm, UNCHANGED <<user_shelf, since>>, global_pw_verified' \in 0..1,
         form'.row = 4 => current_page' = "newbook",
         pc' = "newbook" \/ (pc' = "place" /\ place' = FirstPlace)
  PROVE  PagesInv'
<1>1. user_shelf \in UserShelf /\ since = "yes" /\ form'.kind = "newbook"
  BY DEF PagesInv, FormInv, AccessInv, NewBookForm
<1>2. FormInv'
  BY <1>1, PlaceStarts DEF FormInv, Pages
<1>3. AccessInv'
  BY <1>1 DEF AccessInv
<1>4. ConnInv'
  BY DEF PagesInv, ConnInv, conn, Pages
<1>. QED
  BY <1>2, <1>3, <1>4 DEF PagesInv

LEMMA NewBookMoveInv ==
  ASSUME PagesInv, NewBookMove
  PROVE  PagesInv'
<1>1. /\ pc = "newbook" /\ pc \in Pages /\ form \in NewBookForm /\ UNCHANGED conn
      /\ get_choice("newbook") /\ global_pw_verified \in 0..1 /\ UNCHANGED op
  BY ConnKept DEF NewBookMove, PagesInv, FormInv, AccessInv, Pages, Within, Goto
<1>2. current_page' = "newbook" /\ global_pw_verified' \in 0..1 /\ ChangesVerified'
  BY <1>1, ChoiceKeeps, OpKept
<1>3. CASE Shelves("no")
  BY <1>1, <1>2, <1>3, ShelvesInv
<1>4. ASSUME NEW row \in {RowUp(form.row, 4), RowDown(form.row, 4)},
             Within("newbook", [form EXCEPT !.row = row])
      PROVE  PagesInv'
  <2>1. row \in 0..4
    BY <1>1, <1>4 DEF NewBookForm, RowUp, RowDown
  <2>2. form' = [form EXCEPT !.row = row] /\ pc' = "newbook" /\ UNCHANGED <<user_shelf, since>>
    BY <1>4, Zenon DEF Within, Goto
  <2>3. form' \in NewBookForm
    BY <1>1, <2>1, <2>2 DEF NewBookForm
  <2>. QED
    BY <1>1, <1>2, <2>2, <2>3, NewBookStays
<1>. QED
  BY <1>3, <1>4, Zenon DEF NewBookMove

LEMMA NewBookFieldInv ==
  ASSUME PagesInv, NewBookField
  PROVE  PagesInv'
<1>1. /\ pc = "newbook" /\ pc \in Pages /\ UNCHANGED conn /\ form.row < 4 /\ form \in NewBookForm
      /\ UNCHANGED <<user_shelf, since>> /\ ChangesVerified'
  BY ConnKept, OpKept DEF NewBookField, PagesInv, FormInv, Pages
<1>2. pc' = "newbook" \/ (pc' = "place" /\ place' = FirstPlace)
  BY <1>1 DEF NewBookField
<1>3. PICK f : /\ NewBookRead(f)
               /\ \/ \E l \in Letter \cup {0} :
                       \/ f.row = 0 /\ form' = NextRow([f EXCEPT !.name = l])
                       \/ f.row = 1 /\ form' = NextRow([f EXCEPT !.author = l])
                  \/ f.row = 2 /\ form' = f
                  \/ f.row = 3 /\ form' = NextRow(f)
  BY Zenon DEF NewBookField
<1>4. f \in NewBookForm /\ f.row = form.row /\ global_pw_verified' \in 0..1
  BY <1>1, <1>3, NewBookReads
<1>5. f.row # 4
  BY <1>1, <1>4 DEF NewBookForm
<1>6. ASSUME NEW g \in NewBookForm, g.row = f.row, form' = NextRow(g)
      PROVE  form' \in NewBookForm /\ form'.row # 4
  BY <1>5, <1>6, NewBookRows
<1>7. ASSUME NEW l \in Letter \cup {0}
      PROVE  /\ [f EXCEPT !.name = l] \in NewBookForm /\ [f EXCEPT !.name = l].row = f.row
             /\ [f EXCEPT !.author = l] \in NewBookForm /\ [f EXCEPT !.author = l].row = f.row
  BY <1>4, <1>7 DEF NewBookForm
<1>8. form' \in NewBookForm /\ form'.row # 4
  BY <1>3, <1>4, <1>5, <1>6, <1>7, Zenon
<1>. QED
  BY <1>1, <1>2, <1>4, <1>8, NewBookStays

LEMMA NewBookFinishInv ==
  ASSUME PagesInv, NewBookFinish
  PROVE  PagesInv'
<1>1. /\ pc = "newbook" /\ pc \in Pages /\ UNCHANGED conn /\ form.row = 4 /\ form \in NewBookForm
      /\ since = "yes" /\ current_page = "newbook"
  BY ConnKept DEF NewBookFinish, PagesInv, FormInv, AccessInv, NewBookForm, Pages
<1>2. PICK f : /\ NewBookRead(f)
               /\ \/ Within("newbook", NextRow(f))
                  \/ /\ Complete(f)
                     /\ Request("insert", since)
                     /\ \/ /\ pc' = "newbook"
                           /\ \/ form' = NextRow(f)
                              \/ form' = NextRow([NewBook EXCEPT !.flag = 2])
                           /\ UNCHANGED <<place, user_shelf, purpose, since, search>>
                        \/ Shelves("no")
  BY Zenon DEF NewBookFinish
<1>3. /\ f \in NewBookForm /\ f.row = form.row /\ global_pw_verified' \in 0..1
      /\ current_page' = "newbook"
  BY <1>1, <1>2, NewBookReads
<1>4. NextRow(f) \in NewBookForm
  BY <1>3, NewBookRows
<1>5. NextRow([NewBook EXCEPT !.flag = 2]) \in NewBookForm
  <2>1. [NewBook EXCEPT !.flag = 2] \in NewBookForm
    BY DEF NewBook, NewBookForm, YesNo
  <2>. QED
    BY <2>1, NewBookRows
<1>6. CASE Within("newbook", NextRow(f))
  <2>1. /\ form' = NextRow(f) /\ pc' = "newbook" /\ UNCHANGED <<user_shelf, since>> /\ ChangesVerified'
    BY <1>6, OpKept, Zenon DEF Within, Goto
  <2>. QED
    BY <1>1, <1>3, <1>4, <2>1, NewBookStays
<1>7. CASE Complete(f) /\ Request("insert", since)
  <2>1. ChangesVerified'
    BY <1>1, <1>7, OpSent
  <2>2. CASE Shelves("no")
    BY <1>1, <1>3, <2>1, <2>2, ShelvesInv
  <2>3. CASE pc' = "newbook" /\ form' \in NewBookForm /\ UNCHANGED <<user_shelf, since>>
    BY <1>1, <1>3, <2>1, <2>3, NewBookStays
  <2>. QED
    BY <1>2, <1>4, <1>5, <1>7, <2>2, <2>3, <1>6
<1>. QED
  BY <1>2, <1>6, <1>7

LEMMA BuildInv ==
  ASSUME PagesInv, BuildName \/ HeightKey \/ ProfileKey
  PROVE  PagesInv'
<1>1. /\ pc \in {"name", "height", "profile"} /\ pc \in Pages /\ UNCHANGED <<conn, op>>
      /\ ConnInv' /\ ChangesVerified' /\ since = "yes" /\ since' = "yes" /\ global_pw_verified \in 0..1
      /\ pc = "height" => form \in HeightForm
      /\ pc = "profile" => form \in ProfileForm /\ Drawn(form)
  BY ConnKept, OpKept
     DEF BuildName, HeightKey, ProfileKey, PagesInv, FormInv, AccessInv, Pages, access, Within, Goto
<1>2. global_pw_verified' \in 0..1 /\ (pc # "name" => current_page' = "buildshelf")
  BY <1>1, ChoiceKeeps DEF BuildName, HeightKey, ProfileKey, access
<1>3. CASE pc' = "height" /\ form' \in HeightForm
  <2>1. FormInv' /\ AccessInv'
    BY <1>1, <1>2, <1>3 DEF FormInv, AccessInv, Pages
  <2>. QED
    BY <1>1, <2>1 DEF PagesInv
<1>4. CASE pc' = "profile" /\ form' \in ProfileForm /\ Drawn(form')
  <2>1. FormInv' /\ AccessInv'
    BY <1>1, <1>2, <1>4 DEF FormInv, AccessInv, Pages
  <2>. QED
    BY <1>1, <2>1 DEF PagesInv
<1>5. CASE BuildName
  <2>1. pc' = "height" /\ form' = [kind |-> "height", nfloors |-> 1]
    BY <1>5, Zenon DEF BuildName, Goto
  <2>. QED
    BY <1>3, <2>1, FormsAssumption DEF HeightForm, Floor
<1>6. CASE HeightKey
  <2>1. form \in HeightForm /\ form.nfloors \in Floor /\ 1 \in Floor
    BY <1>1, <1>6, FormsAssumption DEF HeightKey, HeightForm, Floor
  <2>2. ASSUME NEW n \in {FloorsUp(form.nfloors), FloorsDown(form.nfloors), 1},
               Within("height", [form EXCEPT !.nfloors = n])
        PROVE  PagesInv'
    <3>1. n \in Floor
      BY <2>1, <2>2, FloorsInRange
    <3>2. form' = [form EXCEPT !.nfloors = n] /\ pc' = "height"
      BY <2>2, Zenon DEF Within, Goto
    <3>. QED
      BY <1>3, <2>1, <3>1, <3>2 DEF HeightForm
  <2>3. CASE Within("profile", Profile(form.nfloors, [i \in Floor |-> 0]))
    <3>1. form' = Profile(form.nfloors, [i \in Floor |-> 0]) /\ pc' = "profile"
      BY <2>3, Zenon DEF Within, Goto
    <3>2. [i \in Floor |-> 0] \in [Floor -> Depth]
      BY FormsAssumption DEF Depth
    <3>3. form' \in ProfileForm /\ Drawn(form')
      BY <2>1, <3>1, <3>2, ProfileStarts
    <3>. QED
      BY <1>4, <3>1, <3>3
  <2>. QED
    BY <1>6, <2>2, <2>3, Zenon DEF HeightKey
<1>7. CASE ProfileKey
  <2>1. /\ pc = "profile" /\ form \in ProfileForm /\ Drawn(form)
        /\ form.nfloors \in Floor /\ form.depths \in [Floor -> Depth]
    BY <1>1, <1>7 DEF ProfileKey, ProfileForm
  <2>2. ASSUME NEW f \in {ProfileUp(form), ProfileDown(form), ProfileLeft(form), ProfileRight(form),
                          Profile(form.nfloors, form.depths)}, Within("profile", f)
        PROVE  PagesInv'
    <3>1. f \in ProfileForm /\ Drawn(f)
      BY <2>1, <2>2, ProfileMoves, ProfileStarts
    <3>. QED
      BY <1>4, <2>2, <3>1 DEF Within, Goto
  <2>3. CASE Within("start", NoForm)
    <3>1. pc' = "start" /\ form' = NoForm
      BY <2>3 DEF Within, Goto
    <3>2. AccessInv'
      BY <1>1, <1>2, <2>1, <3>1 DEF AccessInv
    <3>. QED
      BY <1>1, <3>1, <3>2, PlainInv DEF Pages
  <2>. QED
    BY <1>7, <2>2, <2>3, Zenon DEF ProfileKey
<1>. QED
  BY <1>5, <1>6, <1>7

LEMMA BuildStartInv ==
  ASSUME PagesInv, BuildStart
  PROVE  PagesInv'
<1>1. /\ pc = "start" /\ pc \in Pages /\ UNCHANGED conn /\ since = "yes"
      /\ current_page = "buildshelf" /\ global_pw_verified \in 0..1
  BY ConnKept DEF BuildStart, PagesInv, AccessInv, Pages
<1>2. CASE Request("build", since) /\ Home /\ UNCHANGED <<current_page, global_pw_verified>>
  BY <1>1, <1>2, OpSent, HomeInv
<1>3. CASE Home /\ UNCHANGED <<current_page, global_pw_verified, op>>
  BY <1>1, <1>3, OpKept, HomeInv
<1>4. ASSUME NEW v \in verify_identity(current_page), Verified(current_page, v),
             \/ v.ok = "yes" /\ Goto("name", NoForm) /\ since' = v.since
             \/ v.ok = "no" /\ Home /\ UNCHANGED op
      PROVE  PagesInv'
  <2>1. /\ v.verified \in 0..1 /\ (v.ok = "yes" => v.since = "yes")
        /\ current_page' = "buildshelf" /\ global_pw_verified' \in 0..1
    BY <1>1, <1>4, VerifyEnds DEF Verified, Remembered
  <2>2. CASE v.ok = "yes" /\ Goto("name", NoForm) /\ since' = v.since
    <3>1. pc' = "name" /\ form' = NoForm /\ ChangesVerified'
      BY <2>2, OpKept DEF Goto
    <3>2. AccessInv'
      BY <2>1, <2>2, <3>1 DEF AccessInv
    <3>. QED
      BY <1>1, <3>1, <3>2, PlainInv DEF Pages
  <2>3. CASE v.ok = "no" /\ Home /\ UNCHANGED op
    BY <1>1, <2>1, <2>3, OpKept, HomeInv
  <2>. QED
    BY <1>4, <2>2, <2>3
<1>. QED
  BY <1>2, <1>3, <1>4 DEF BuildStart

LEMMA SearchInv ==
  ASSUME PagesInv, SearchKey \/ SelectKey
  PROVE  PagesInv'
<1>1. /\ pc \in {"search", "select"} /\ pc \in Pages /\ UNCHANGED conn /\ form = NoForm
      /\ global_pw_verified \in 0..1 /\ UNCHANGED op /\ ChangesVerified'
  BY ConnKept, OpKept DEF SearchKey, SelectKey, PagesInv, FormInv, AccessInv, Pages, Within, Goto
<1>2. global_pw_verified' \in 0..1 /\ current_page' \in {"searchbook", "lookthrough"}
  BY <1>1, ChoiceKeeps DEF SearchKey, SelectKey
<1>3. CASE Home
  BY <1>1, <1>2, <1>3, HomeInv
<1>4. CASE pc' \in {"search", "select", "books"} /\ form' = NoForm
  <2>1. AccessInv'
    BY <1>2, <1>4 DEF AccessInv, Remembered
  <2>. QED
    BY <1>1, <1>4, <2>1, PlainInv DEF Pages
<1>. QED
  BY <1>1, <1>3, <1>4, ZenonT(30) DEF SearchKey, SelectKey, Within, Goto

-----------------------------------------------------------------------------
LEMMA PagesStep == PagesInv /\ [Next]_vars => PagesInv'
<1> SUFFICES ASSUME PagesInv, [Next]_vars PROVE PagesInv'
  OBVIOUS
<1>1. CASE LoginPages
  BY <1>1, LoginInv, LoginGoInv, RegisterInv DEF LoginPages
<1>2. CASE ncgui_sync_from_server \/ thread_heartbeat \/ Join
  BY <1>2, ThreadInv
<1>3. CASE MenuChoice
  BY <1>3, MenuInv
<1>4. CASE ShelfPages
  BY <1>4, ShelvesKeyInv, OptionsInv, ViewInv, RemovingInv DEF ShelfPages
<1>5. CASE BookPages
  BY <1>5, BooksInv, BoxInv, PlaceInv, NewBookMoveInv, NewBookFieldInv, NewBookFinishInv DEF BookPages
<1>6. CASE BuildPages
  BY <1>6, BuildInv, BuildStartInv DEF BuildPages
<1>7. CASE SearchPages
  BY <1>7, SearchInv, ZenonT(30) DEF SearchPages
<1>8. CASE UNCHANGED vars
  BY <1>8 DEF vars, access, conn, PagesInv, FormInv, AccessInv, Remembered, ConnInv, ChangesVerified
<1>. QED
  BY <1>1, <1>2, <1>3, <1>4, <1>5, <1>6, <1>7, <1>8 DEF Next

\* PagesInv is inductive.
LEMMA PagesAlways == Spec => []PagesInv
  BY PagesInit, PagesStep, PTL DEF Spec

\* The floor under the cursor is always on the screen, for shelves of every
\* height (set_shelf_parameter).
THEOREM ProfileVisibleAlways == Spec => []ProfileVisible
<1>1. ASSUME NEW n \in Nat \ {0}, NEW c \in Nat, NEW start \in Int, DrawnAt(n, c, start)
      PROVE  profile_hight(n) - 2 * c - start \in 0..pad_show_hight
  BY <1>1 DEF DrawnAt, profile_hight, pad_show_hight
<1>2. PagesInv => ProfileVisible
  <2> SUFFICES ASSUME PagesInv, pc = "profile"
               PROVE  profile_hight(form.nfloors) - 2 * form.curs_floor - form.start_hight \in 0..pad_show_hight
    BY DEF ProfileVisible
  <2>1. form \in ProfileForm /\ DrawnAt(form.nfloors, form.curs_floor, form.start_hight)
    BY DEF PagesInv, FormInv, Drawn
  <2>2. form.nfloors \in Nat \ {0} /\ form.curs_floor \in Nat /\ form.start_hight \in Int
    BY <2>1, FormsAssumption DEF ProfileForm, Floor
  <2>. QED
    BY <1>1, <2>1, <2>2
<1>. QED
  BY <1>2, PagesAlways, PTL

\* The place chosen for a new book, or on the page of the books to collect, is on
\* its shelf, for shelves of every profile; on a floor without rows the row is 0
\* or 1.  Nothing is said of a book collected from the results of a search, for
\* which the shelf is uninitialised memory (select_newbook_floor).
THEOREM PlaceOnShelfAlways == Spec => []PlaceOnShelf
<1>1. PagesInv => PlaceOnShelf
  BY DEF PagesInv, FormInv, Placed, PlaceOnShelf
<1>. QED
  BY <1>1, PagesAlways, PTL

\* Nothing but a collected book is changed without the password of this stay on
\* the page, whichever way the user took through the pages (get_choice,
\* verify_identity).
THEOREM ChangesVerifiedAlways == Spec => []ChangesVerified
<1>1. PagesInv => ChangesVerified
  BY DEF PagesInv
<1>. QED
  BY <1>1, PagesAlways, PTL

\* No key is read while the administrator is being verified
\* (ncgui_display_login_page).
THEOREM AdminModeClosesAlways == Spec => []AdminModeCloses
<1>1. PagesInv => AdminModeCloses
  BY DEF PagesInv, FormInv, Attempt, AdminModeCloses
<1>. QED
  BY <1>1, PagesAlways, PTL

\* The pages use the connection on which the user logged in, however many were
\* made before (client_start_login).
THEOREM SessionConnectedAlways == Spec => []SessionConnected
<1>1. PagesInv => SessionConnected
  BY DEF PagesInv, ConnInv, SessionConnected
<1>. QED
  BY <1>1, PagesAlways, PTL

-----------------------------------------------------------------------------
(* The types.  Next to PagesInv they need the variables it says nothing    *)
(* of: the connections, the thread, and what the pages hand on.            *)

ConnTypes ==
  /\ opened \in 0..MaxConn /\ client_sockfd \in 0..opened /\ up \subseteq 1..opened
  /\ login_user \in YesNo /\ owner \in 0..opened

ThreadTypes == hb \in {"none", "running", "ended"} /\ thread_running \in 0..1

\* Nothing is filled in on the way out of the program.
EndTypes ==
  /\ pc = "register" => form \in RegisterForm
  /\ pc \in {"sync", "joining", "over", "crashed"} => form = NoForm

HandedOn ==
  /\ place = NoPlace \/ place \in PlaceForm \/ place \in AnyPlace
  /\ user_shelf = NoShelf \/ user_shelf \in UserShelf \/ user_shelf \in StackShelf
  /\ purpose \in {"none", "browse", "collect", "search"}
  /\ lock \in Nat /\ locked \in Nat

AccessTypes == current_page \in ReadOn /\ since \in YesNo
OpTypes == op \in [kind : RequestKind, verified : YesNo]
StayTypes == HandedOn /\ AccessTypes /\ OpTypes

\* A connection takes the next descriptor, if there is one.
LEMMA ConnMade ==
  ASSUME ConnTypes, Connected \/ NotConnected \/ ConnectedAndClosed
  PROVE  /\ opened' \in 0..MaxConn /\ opened <= opened'
         /\ client_sockfd' \in 0..opened' /\ up' \subseteq 1..opened'
<1>1. opened \in Nat /\ MaxConn \in Nat /\ opened <= MaxConn /\ up \subseteq 1..opened
  BY BookManAssumption DEF ConnTypes
<1>2. CASE opened < MaxConn /\ opened' = opened + 1 /\ client_sockfd' \in {0, opened + 1}
           /\ up' \in {up, up \cup {opened + 1}}
  BY <1>1, <1>2
<1>3. CASE UNCHANGED <<opened, up>> /\ client_sockfd' = 0
  BY <1>1, <1>3
<1>. QED
  BY <1>2, <1>3 DEF Connected, NotConnected, ConnectedAndClosed

LEMMA ConnStep ==
  ASSUME ConnTypes, Next
  PROVE  ConnTypes'
<1>1. CASE UNCHANGED conn
  BY <1>1 DEF conn, ConnTypes
<1>2. ASSUME Connected \/ NotConnected \/ ConnectedAndClosed, UNCHANGED <<owner, login_user>>
      PROVE  ConnTypes'
  <2>1. /\ opened' \in 0..MaxConn /\ opened <= opened'
        /\ client_sockfd' \in 0..opened' /\ up' \subseteq 1..opened'
    BY <1>2, ConnMade
  <2>2. owner' \in 0..opened'
    BY <1>2, <2>1 DEF ConnTypes
  <2>. QED
    BY <1>2, <2>1, <2>2 DEF ConnTypes
<1>3. ASSUME Connected, owner' = opened', login_user' = "yes"
      PROVE  ConnTypes'
  <2>1. /\ opened' \in 0..MaxConn
        /\ client_sockfd' \in 0..opened' /\ up' \subseteq 1..opened'
    BY <1>3, ConnMade
  <2>2. owner' \in 0..opened'
    BY <1>3, <2>1
  <2>. QED
    BY <1>3, <2>1, <2>2 DEF ConnTypes, YesNo
<1>4. CASE LoginGo
  <2>1. \/ UNCHANGED conn
        \/ \E ok \in YesNo : client_start_login(ok)
        \/ \E ok \in YesNo : VerifyAdmin(ok)
    BY <1>4, Zenon DEF LoginGo
  <2>2. ASSUME NEW ok \in YesNo, client_start_login(ok) PROVE ConnTypes'
    BY <1>2, <1>3, <2>2, Zenon DEF client_start_login
  <2>3. ASSUME NEW ok \in YesNo, VerifyAdmin(ok) PROVE ConnTypes'
    BY <1>2, <2>3, Zenon DEF VerifyAdmin
  <2>. QED
    BY <1>1, <2>1, <2>2, <2>3
<1>5. CASE RegisterKey
  <2>1. UNCHANGED conn \/ \E ok \in YesNo : client_start_register(ok)
    BY <1>5, Zenon DEF RegisterKey
  <2>2. ASSUME NEW ok \in YesNo, client_start_register(ok) PROVE ConnTypes'
    BY <1>2, <2>2, Zenon DEF client_start_register
  <2>. QED
    BY <1>1, <2>1, <2>2
<1>6. CASE LoginMove \/ LoginField \/ LoginRegister \/ LoginQuit
  BY <1>1, <1>6, Zenon DEF LoginMove, LoginField, LoginRegister, LoginQuit
<1>7. CASE ncgui_sync_from_server \/ MenuChoice \/ thread_heartbeat \/ Join
  BY <1>1, <1>7, Zenon DEF ncgui_sync_from_server, MenuChoice, thread_heartbeat, Join
<1>8. CASE ShelfPages
  BY <1>1, <1>8, Zenon
     DEF ShelfPages, ShelvesKey, OptionsKey, OptionsOpen, OptionsNewBook, OptionsDestroy, ViewKey, RemovingKey, Session
<1>9. CASE BookPages
  BY <1>1, <1>9, Zenon
     DEF BookPages, BooksKey, BoxKey, PlaceKey, NewBookMove, NewBookField, NewBookFinish, Session
<1>10. CASE BuildPages \/ SearchPages
  BY <1>1, <1>10, Zenon
     DEF BuildPages, SearchPages, BuildName, HeightKey, ProfileKey, BuildStart, SearchKey, SelectKey, Session
<1>. QED
  BY <1>4, <1>5, <1>6, <1>7, <1>8, <1>9, <1>10, Zenon DEF Next, LoginPages

\* The flag is cleared and never set again; the thread starts once.
LEMMA ThreadStep ==
  ASSUME ThreadTypes, Next
  PROVE  ThreadTypes'
<1>1. CASE UNCHANGED thread
  BY <1>1 DEF thread, ThreadTypes
<1>2. ASSUME hb' \in {hb, "none", "running", "ended"}, thread_running' \in {thread_running, 0}
      PROVE  ThreadTypes'
  BY <1>2 DEF ThreadTypes
<1>3. CASE LoginPages
  <2>1. CASE LoginQuit
    BY <1>2, <2>1, Zenon DEF LoginQuit, Stop
  <2>2. CASE LoginMove \/ LoginField \/ LoginGo \/ LoginRegister \/ RegisterKey
    BY <1>1, <2>2, Zenon DEF LoginMove, LoginField, LoginGo, LoginRegister, RegisterKey
  <2>. QED
    BY <1>3, <2>1, <2>2 DEF LoginPages
<1>4. CASE MenuChoice
  BY <1>2, <1>4, Zenon DEF MenuChoice, Stop
<1>5. CASE ncgui_sync_from_server
  BY <1>2, <1>5 DEF ncgui_sync_from_server
<1>6. CASE thread_heartbeat
  BY <1>2, <1>6 DEF thread_heartbeat
<1>7. CASE Join
  BY <1>1, <1>7, Zenon DEF Join
<1>8. CASE ShelfPages
  BY <1>1, <1>8, Zenon
     DEF ShelfPages, ShelvesKey, OptionsKey, OptionsOpen, OptionsNewBook, OptionsDestroy, ViewKey, RemovingKey, Session
<1>9. CASE BookPages
  BY <1>1, <1>9, Zenon
     DEF BookPages, BooksKey, BoxKey, PlaceKey, NewBookMove, NewBookField, NewBookFinish, Session
<1>10. CASE BuildPages \/ SearchPages
  BY <1>1, <1>10, Zenon
     DEF BuildPages, SearchPages, BuildName, HeightKey, ProfileKey, BuildStart, SearchKey, SelectKey, Session
<1>. QED
  BY <1>3, <1>4, <1>5, <1>6, <1>7, <1>8, <1>9, <1>10, Zenon DEF Next

LEMMA CollectStep == ASSUME bcollect \in 0..1, Next PROVE bcollect' \in 0..1
<1>1. ASSUME NEW p, NEW f, Goto(p, f) PROVE bcollect' \in 0..1
  BY <1>1 DEF Goto
<1>2. CASE UNCHANGED bcollect
  BY <1>2
<1>3. CASE LoginPages \/ ncgui_sync_from_server \/ Join
  BY <1>1, <1>3, Zenon DEF LoginPages, LoginMove, LoginField, LoginGo, LoginRegister, LoginQuit, RegisterKey,
                           ncgui_sync_from_server, Join
<1>4. CASE MenuChoice \/ thread_heartbeat
  BY <1>2, <1>4, Zenon DEF MenuChoice, thread_heartbeat
<1>5. CASE ShelfPages
  <2>1. CASE OptionsOpen
    BY <2>1 DEF OptionsOpen
  <2>. QED
    BY <1>2, <1>5, <2>1, Zenon
       DEF ShelfPages, ShelvesKey, OptionsKey, OptionsNewBook, OptionsDestroy, ViewKey, RemovingKey, Session
<1>6. CASE BookPages
  BY <1>2, <1>6, Zenon
     DEF BookPages, BooksKey, BoxKey, PlaceKey, NewBookMove, NewBookField, NewBookFinish, Session
<1>7. CASE BuildPages \/ SearchPages
  BY <1>2, <1>7, Zenon
     DEF BuildPages, SearchPages, BuildName, HeightKey, ProfileKey, BuildStart, SearchKey, SelectKey, Session
<1>. QED
  BY <1>3, <1>4, <1>5, <1>6, <1>7, Zenon DEF Next

\* A page behind the main menu is followed by a page.
LEMMA PagesFollow ==
  ASSUME ShelfPages \/ BookPages \/ BuildPages \/ SearchPages
  PROVE  pc' \in Pages
<1>1. ASSUME NEW p \in Pages, NEW f, Goto(p, f) \/ Within(p, f) PROVE pc' \in Pages
  BY <1>1, Zenon DEF Goto, Within
<1>2. ASSUME Home PROVE pc' \in Pages
  BY <1>2, Zenon DEF Home, Pages
<1>3. ASSUME NEW stay, Shelves(stay) PROVE pc' \in Pages
  BY <1>2, <1>3, Zenon DEF Shelves, Pages
<1>4. /\ "options" \in Pages /\ "view" \in Pages /\ "removing" \in Pages /\ "books" \in Pages /\ "box" \in Pages
      /\ "place" \in Pages /\ "newbook" \in Pages /\ "name" \in Pages /\ "height" \in Pages
      /\ "profile" \in Pages /\ "start" \in Pages /\ "search" \in Pages /\ "select" \in Pages
  BY DEF Pages
<1>5. CASE ShelfPages
  <2>1. \A p \in {"options", "view"} : p \in Pages
    BY <1>4, Zenon
  <2>. QED
    BY <1>1, <1>3, <1>4, <1>5, <2>1, Zenon
     DEF ShelfPages, ShelvesKey, OptionsKey, OptionsOpen, OptionsNewBook, OptionsDestroy, ViewKey, RemovingKey
<1>6. CASE BooksKey \/ BoxKey \/ PlaceKey
  <2>1. CASE BooksKey
    BY <1>1, <1>2, <1>3, <1>4, <2>1, Zenon DEF BooksKey, LeaveBooks
  <2>2. CASE BoxKey
    <3>1. \A p \in {"books", "box"} : p \in Pages
      BY <1>4, Zenon
    <3>. QED
      BY <1>1, <1>4, <2>2, <3>1, Zenon DEF BoxKey
  <2>3. CASE PlaceKey
    BY <1>4, <2>3, Zenon DEF PlaceKey
  <2>. QED
    BY <1>6, <2>1, <2>2, <2>3
<1>7. CASE NewBookMove \/ NewBookField \/ NewBookFinish
  <2>1. CASE NewBookMove
    BY <1>1, <1>3, <1>4, <2>1, Zenon DEF NewBookMove
  <2>2. CASE NewBookField
    BY <1>4, <2>2, Zenon DEF NewBookField
  <2>3. CASE NewBookFinish
    BY <1>1, <1>3, <1>4, <2>3, Zenon DEF NewBookFinish
  <2>. QED
    BY <1>7, <2>1, <2>2, <2>3
<1>8. CASE BuildPages
  BY <1>1, <1>2, <1>4, <1>8, Zenon DEF BuildPages, BuildName, HeightKey, ProfileKey, BuildStart
<1>9. CASE SearchPages
  <2>1. CASE SearchKey
    BY <1>1, <1>2, <1>4, <2>1, Zenon DEF SearchKey
  <2>2. CASE SelectKey
    <3>1. \A p \in {"select", "search"} : p \in Pages
      BY <1>4, Zenon
    <3>. QED
      BY <1>1, <1>4, <2>2, <3>1, Zenon DEF SelectKey
  <2>. QED
    BY <1>9, <2>1, <2>2 DEF SearchPages
<1>. QED
  BY <1>5, <1>6, <1>7, <1>8, <1>9 DEF BookPages

LEMMA EndStep ==
  ASSUME PagesInv, EndTypes, Next
  PROVE  EndTypes'
<1>1. ASSUME NEW f \in RegisterForm, Goto("register", f) PROVE EndTypes'
  BY <1>1 DEF Goto, EndTypes
<1>2. ASSUME NEW f, Goto("login", f) PROVE EndTypes'
  BY <1>2 DEF Goto, EndTypes
<1>3. ASSUME NEW p, p # "register", Goto(p, NoForm) PROVE EndTypes'
  BY <1>3 DEF Goto, EndTypes
<1>4. CASE LoginMove \/ LoginField \/ LoginRegister \/ LoginQuit
  BY <1>2, <1>3, <1>4, Zenon DEF LoginMove, LoginField, LoginRegister, LoginQuit
<1>5. CASE LoginGo
  <2>1. Register \in RegisterForm
    BY DEF Register, RegisterForm, YesNo
  <2>. QED
    BY <1>1, <1>2, <1>3, <1>5, <2>1, Zenon DEF LoginGo
<1>6. CASE RegisterKey
  <2>1. form \in RegisterForm /\ form.row \in 0..3
    BY <1>6 DEF RegisterKey, EndTypes, RegisterForm
  <2>2. ASSUME NEW row \in 0..3 PROVE [form EXCEPT !.row = row] \in RegisterForm
    BY <2>1, <2>2 DEF RegisterForm
  <2>3. RowUp(form.row, 3) \in 0..3 /\ RowDown(form.row, 3) \in 0..3 /\ 0 \in 0..3
    BY <2>1 DEF RowUp, RowDown
  <2>4. ASSUME NEW got \in YesNo PROVE [form EXCEPT !.name = got] \in RegisterForm
    BY <2>1, <2>4 DEF RegisterForm
  <2>5. ASSUME NEW got \in {"no", "refused", "yes"} PROVE [form EXCEPT !.password = got] \in RegisterForm
    BY <2>1, <2>5 DEF RegisterForm
  <2>. QED
    BY <1>1, <1>2, <1>6, <2>1, <2>2, <2>3, <2>4, <2>5, Zenon DEF RegisterKey
<1>7. CASE ncgui_sync_from_server \/ Join
  <2>1. \A end \in {"over", "crashed"} : end # "register"
    OBVIOUS
  <2>. QED
    BY <1>3, <1>7, <2>1, Zenon DEF ncgui_sync_from_server, Join
<1>8. CASE thread_heartbeat
  BY <1>8 DEF thread_heartbeat, EndTypes
<1>9. CASE MenuChoice
  <2>1. form' = NoForm
    BY <1>9 DEF MenuChoice, PagesInv, FormInv, Pages
  <2>2. pc' # "register"
    BY <1>9, Zenon DEF MenuChoice
  <2>. QED
    BY <2>1, <2>2 DEF EndTypes
<1>10. CASE ShelfPages \/ BookPages \/ BuildPages \/ SearchPages
  BY <1>10, PagesFollow DEF EndTypes, Pages
<1>. QED
  BY <1>4, <1>5, <1>6, <1>7, <1>8, <1>9, <1>10, Zenon DEF Next, LoginPages

LEMMA Names ==
  /\ "login" \in ReadOn /\ "register" \in ReadOn /\ "mainmenu" \in ReadOn
  /\ "lookthrough" \in ReadOn /\ "bookinfo" \in ReadOn /\ "newbook" \in ReadOn
  /\ "buildshelf" \in ReadOn /\ "searchbook" \in ReadOn
  /\ "remove" \in RequestKind /\ "update" \in RequestKind /\ "collect" \in RequestKind
  /\ "insert" \in RequestKind /\ "build" \in RequestKind
  BY DEF ReadOn, RequestKind

\* What the ways from one page to another hand on.
LEMMA WithinStays ==
  ASSUME StayTypes, NEW p, NEW f, Goto(p, f), current_page' \in ReadOn, since' \in YesNo
  PROVE  StayTypes'
<1>1. HandedOn'
  BY DEF StayTypes, HandedOn, Goto, search
<1>2. OpTypes'
  BY DEF StayTypes, OpTypes, Goto
<1>. QED
  BY <1>1, <1>2 DEF StayTypes, AccessTypes

LEMMA HomeStays ==
  ASSUME Home, current_page' \in ReadOn, OpTypes'
  PROVE  StayTypes'
<1>1. HandedOn'
  BY DEF HandedOn, Home, NON_SENSE_INT
<1>2. since' \in YesNo
  BY DEF Home, YesNo
<1>. QED
  BY <1>1, <1>2 DEF StayTypes, AccessTypes

LEMMA ShelvesStays ==
  ASSUME StayTypes, NEW stay \in YesNo, Shelves(stay), current_page' \in ReadOn, OpTypes'
  PROVE  StayTypes'
<1>1. CASE Home
  BY <1>1, HomeStays
<1>2. CASE ~Home
  <2>1. HandedOn'
    BY <1>2 DEF StayTypes, HandedOn, Shelves, search
  <2>2. since' \in YesNo
    BY <1>2 DEF Shelves
  <2>. QED
    BY <2>1, <2>2 DEF StayTypes, AccessTypes
<1>. QED
  BY <1>1, <1>2

LEMMA RequestTypes ==
  ASSUME NEW kind \in RequestKind, NEW verified \in YesNo, Request(kind, verified)
  PROVE  OpTypes'
  BY DEF OpTypes, Request

LEMMA OpStays == ASSUME StayTypes, UNCHANGED op PROVE OpTypes'
  BY DEF StayTypes, OpTypes

LEMMA KeyTypes == ASSUME NEW page \in ReadOn, get_choice(page) PROVE current_page' \in ReadOn
  BY DEF get_choice

LEMMA VerifyTypes ==
  ASSUME StayTypes, NEW page \in ReadOn, NEW v \in verify_identity(page), Verified(page, v)
  PROVE  current_page' \in ReadOn /\ v.since \in YesNo
  BY DEF verify_identity, Verified, StayTypes, AccessTypes, YesNo

LEMMA OutsideStays ==
  ASSUME StayTypes, LoginPages \/ ncgui_sync_from_server \/ Join \/ thread_heartbeat
  PROVE  StayTypes'
<1>1. ASSUME NEW p, NEW f, Goto(p, f), UNCHANGED since,
             current_page' \in {current_page, "login", "register"}
      PROVE  StayTypes'
  BY <1>1, WithinStays, Names DEF StayTypes, AccessTypes
<1>2. Reading => UNCHANGED since /\ current_page' \in {current_page, "login", "register"}
  BY DEF Reading, get_choice
<1>3. CASE LoginMove \/ LoginField \/ LoginRegister \/ LoginQuit
  BY <1>1, <1>2, <1>3, Zenon DEF LoginMove, LoginField, LoginRegister, LoginQuit
<1>4. CASE LoginGo
  BY <1>1, <1>2, <1>4, Zenon DEF LoginGo
<1>5. CASE RegisterKey
  <2>1. UNCHANGED since /\ current_page' \in {current_page, "login", "register"}
    BY <1>5 DEF RegisterKey, get_choice
  <2>. QED
    BY <1>1, <1>5, <2>1, Zenon DEF RegisterKey
<1>6. CASE ncgui_sync_from_server \/ Join
  <2>1. UNCHANGED since /\ current_page' \in {current_page, "login", "register"}
    BY <1>6 DEF ncgui_sync_from_server, Join, access
  <2>. QED
    BY <1>1, <1>6, <2>1, Zenon DEF ncgui_sync_from_server, Join
<1>7. CASE thread_heartbeat
  BY <1>7 DEF thread_heartbeat, StayTypes, HandedOn, AccessTypes, OpTypes, access, search
<1>. QED
  BY <1>3, <1>4, <1>5, <1>6, <1>7 DEF LoginPages

LEMMA MenuStays == ASSUME StayTypes, MenuChoice PROVE StayTypes'
<1>1. HandedOn'
  BY DEF MenuChoice, StayTypes, HandedOn, search
<1>2. OpTypes'
  BY DEF MenuChoice, OpTypes, NoOp, YesNo, RequestKind
<1>3. CASE get_choice("mainmenu") /\ UNCHANGED since
  BY <1>1, <1>2, <1>3, KeyTypes, Names DEF StayTypes, AccessTypes
<1>4. ASSUME NEW v \in verify_identity("mainmenu"), Verified("mainmenu", v), since' = v.since
      PROVE  StayTypes'
  BY <1>1, <1>2, <1>4, VerifyTypes, Names DEF StayTypes, AccessTypes
<1>. QED
  BY <1>3, <1>4, Zenon DEF MenuChoice

LEMMA ShelfStays == ASSUME StayTypes, ShelfPages PROVE StayTypes'
<1>0. since \in YesNo /\ "yes" \in YesNo
  BY DEF StayTypes, AccessTypes, YesNo
<1>1. get_choice("lookthrough") => current_page' \in ReadOn
  BY KeyTypes, Names
<1>2. ASSUME NEW p, NEW f, Within(p, f), get_choice("lookthrough") PROVE StayTypes'
  BY <1>0, <1>1, <1>2, WithinStays DEF Within
<1>3. ASSUME Shelves(since), get_choice("lookthrough"), UNCHANGED op PROVE StayTypes'
  BY <1>0, <1>1, <1>3, ShelvesStays, OpStays
<1>4. CASE ShelvesKey
  BY <1>2, <1>3, <1>4, Zenon DEF ShelvesKey
<1>5. CASE OptionsKey
  BY <1>2, <1>3, <1>5, Zenon DEF OptionsKey
<1>10. CASE OptionsOpen
  <2>1. HandedOn'
    BY <1>10 DEF OptionsOpen, StayTypes, HandedOn, search
  <2>2. since' \in YesNo
    BY <1>10 DEF OptionsOpen, YesNo
  <2>. QED
    BY <1>1, <1>10, <2>1, <2>2, OpStays DEF OptionsOpen, StayTypes, AccessTypes
<1>11. CASE ViewKey
  <2>1. get_choice("buildshelf") => current_page' \in ReadOn
    BY KeyTypes, Names
  <2>2. ASSUME Within("view", NoForm), get_choice("buildshelf") PROVE StayTypes'
    BY <1>0, <2>1, <2>2, WithinStays DEF Within
  <2>3. ASSUME Shelves(since), get_choice("buildshelf"), UNCHANGED op PROVE StayTypes'
    BY <1>0, <2>1, <2>3, ShelvesStays, OpStays
  <2>. QED
    BY <1>11, <2>2, <2>3, Zenon DEF ViewKey
<1>6. ASSUME NEW v \in verify_identity("lookthrough"), Verified("lookthrough", v)
      PROVE  current_page' \in ReadOn /\ v.since \in YesNo
  BY <1>6, VerifyTypes, Names
<1>7. CASE OptionsNewBook
  <2>1. PICK v \in verify_identity("lookthrough") :
          /\ Verified("lookthrough", v)
          /\ \/ /\ v.ok = "yes"
                /\ pc' = "newbook" /\ form' = NewBook /\ since' = v.since
                /\ user_shelf' \in UserShelf
                /\ UNCHANGED <<place, purpose, search>>
             \/ v.ok = "no" /\ Shelves(v.since)
    BY <1>7, Zenon DEF OptionsNewBook
  <2>2. current_page' \in ReadOn /\ v.since \in YesNo
    BY <1>6, <2>1
  <2>3. OpTypes'
    BY <1>7, OpStays DEF OptionsNewBook
  <2>4. CASE since' = v.since /\ user_shelf' \in UserShelf /\ UNCHANGED <<place, purpose, search>>
    <3>1. HandedOn'
      BY <2>4 DEF StayTypes, HandedOn, search
    <3>. QED
      BY <2>2, <2>3, <2>4, <3>1 DEF StayTypes, AccessTypes
  <2>5. CASE Shelves(v.since)
    BY <2>2, <2>3, <2>5, ShelvesStays
  <2>. QED
    BY <2>1, <2>4, <2>5
<1>8. CASE OptionsDestroy
  <2>1. PICK v \in verify_identity("lookthrough") :
          /\ Verified("lookthrough", v)
          /\ \/ Shelves(v.since) /\ UNCHANGED op
             \/ v.ok = "yes" /\ Goto("removing", NoForm) /\ since' = v.since
             \/ v.ok = "yes" /\ Shelves(v.since) /\ Request("remove", v.since)
    BY <1>8, Zenon DEF OptionsDestroy
  <2>2. current_page' \in ReadOn /\ v.since \in YesNo
    BY <1>6, <2>1
  <2>3. CASE Shelves(v.since) /\ UNCHANGED op
    BY <2>2, <2>3, ShelvesStays, OpStays
  <2>4. CASE Goto("removing", NoForm) /\ since' = v.since
    BY <2>2, <2>4, WithinStays
  <2>5. CASE Shelves(v.since) /\ Request("remove", v.since)
    <3>1. OpTypes'
      BY <1>0, <2>2, <2>5, RequestTypes, Names
    <3>. QED
      BY <2>2, <2>5, <3>1, ShelvesStays
  <2>. QED
    BY <2>1, <2>3, <2>4, <2>5
<1>9. CASE RemovingKey
  <2>1. ASSUME Shelves(since), Request("remove", since), get_choice("lookthrough")
        PROVE  StayTypes'
    <3>1. OpTypes'
      BY <1>0, <2>1, RequestTypes, Names
    <3>. QED
      BY <1>0, <1>1, <2>1, <3>1, ShelvesStays
  <2>. QED
    BY <1>2, <1>9, <2>1, Zenon DEF RemovingKey
<1>. QED
  BY <1>4, <1>5, <1>7, <1>8, <1>9, <1>10, <1>11 DEF ShelfPages

LEMMA BookStays == ASSUME StayTypes, PagesInv, PagesInv', BookPages PROVE StayTypes'
<1>0. since \in YesNo /\ "yes" \in YesNo /\ "no" \in YesNo /\ current_page \in ReadOn
  BY DEF StayTypes, AccessTypes, YesNo
<1>1. ASSUME NEW page \in ReadOn, get_choice(page), NEW p, NEW f, Within(p, f) PROVE StayTypes'
  BY <1>0, <1>1, KeyTypes, Names, WithinStays DEF Within
<1>2. ASSUME NEW page \in ReadOn, get_choice(page), Shelves("no"), UNCHANGED op PROVE StayTypes'
  BY <1>0, <1>2, KeyTypes, Names, ShelvesStays, OpStays
<1>3. CASE BooksKey
  <2>1. ASSUME LeaveBooks, UNCHANGED op, get_choice("bookinfo") PROVE StayTypes'
    <3>1. CASE Home
      BY <2>1, <3>1, HomeStays, OpStays, KeyTypes, Names
    <3>. QED
      BY <1>2, <2>1, <3>1, Names DEF LeaveBooks
  <2>2. CASE /\ pc' = "place" /\ place' = FirstPlace
             /\ user_shelf' \in IF purpose = "search" THEN StackShelf ELSE UserShelf
             /\ UNCHANGED <<form, purpose, since, search, op>> /\ get_choice("bookinfo")
    <3>1. place' \in PlaceForm \/ place' \in AnyPlace
      BY <2>2 DEF PagesInv, FormInv, Placed, Astray
    <3>2. HandedOn'
      BY <2>2, <3>1 DEF StayTypes, HandedOn, search
    <3>. QED
      BY <1>0, <2>2, <3>2, OpStays, KeyTypes, Names, ZenonT(30) DEF StayTypes, AccessTypes
  <2>3. ASSUME NEW p, NEW f, Within(p, f), get_choice("bookinfo") PROVE StayTypes'
    BY <1>1, <2>3, Names
  <2>. QED
    BY <1>3, <2>1, <2>2, <2>3, Zenon DEF BooksKey
<1>4. CASE BoxKey
  <2>1. ASSUME NEW p, NEW f, Within(p, f), get_choice("bookinfo") PROVE StayTypes'
    BY <1>1, <2>1, Names
  <2>2. ASSUME NEW v \in verify_identity("bookinfo"), Verified("bookinfo", v), since' = v.since
        PROVE  current_page' \in ReadOn /\ since' \in YesNo
    BY <2>2, VerifyTypes, Names
  <2>3. ASSUME NEW v \in verify_identity("bookinfo"), Verified("bookinfo", v), since' = v.since,
               NEW p, NEW f, Goto(p, f)
        PROVE  StayTypes'
    BY <2>2, <2>3, WithinStays
  <2>4. ASSUME NEW v \in verify_identity("bookinfo"), Verified("bookinfo", v), since' = v.since,
               Request("update", v.since),
               UNCHANGED <<form, place, user_shelf, purpose, search>>
        PROVE  StayTypes'
    <3>1. HandedOn'
      BY <2>4 DEF StayTypes, HandedOn, search
    <3>2. OpTypes'
      BY <1>0, <2>2, <2>4, RequestTypes, Names
    <3>. QED
      BY <2>2, <2>4, <3>1, <3>2 DEF StayTypes, AccessTypes
  <2>. QED
    BY <1>4, <2>1, <2>3, <2>4, Zenon DEF BoxKey
<1>5. CASE PlaceKey
  <2>1. UNCHANGED <<purpose, lock, locked, current_page, since>>
    BY <1>5 DEF PlaceKey, access, search
  <2>2. CASE UNCHANGED <<pc, user_shelf, op>>
    <3>1. place' \in PlaceForm \/ place' \in AnyPlace
      BY <1>5, <2>2 DEF PlaceKey, PagesInv, FormInv, Placed, Astray
    <3>2. HandedOn'
      BY <2>1, <2>2, <3>1 DEF StayTypes, HandedOn
    <3>. QED
      BY <1>0, <2>1, <2>2, <3>2, OpStays DEF StayTypes, AccessTypes
  <2>3. CASE place' = NoPlace /\ UNCHANGED <<user_shelf, op>>
    <3>1. HandedOn'
      BY <2>1, <2>3 DEF StayTypes, HandedOn
    <3>. QED
      BY <1>0, <2>1, <2>3, <3>1, OpStays DEF StayTypes, AccessTypes
  <2>4. CASE place' = NoPlace /\ user_shelf' = NoShelf /\ Request("collect", since)
    <3>1. HandedOn'
      BY <2>1, <2>4 DEF StayTypes, HandedOn
    <3>2. OpTypes'
      BY <1>0, <2>4, RequestTypes, Names
    <3>. QED
      BY <1>0, <2>1, <3>1, <3>2 DEF StayTypes, AccessTypes
  <2>. QED
    BY <1>5, <2>2, <2>3, <2>4, Zenon DEF PlaceKey
<1>6. CASE NewBookMove
  <2>1. ASSUME NEW p, NEW f, Within(p, f), get_choice("newbook") PROVE StayTypes'
    BY <1>1, <2>1, Names
  <2>2. ASSUME Shelves("no"), UNCHANGED op, get_choice("newbook") PROVE StayTypes'
    BY <1>2, <2>2, Names
  <2>. QED
    BY <1>6, <2>1, <2>2, Zenon DEF NewBookMove
<1>7. ASSUME NEW f, NewBookRead(f) PROVE current_page' \in ReadOn
  BY <1>0, <1>7, KeyTypes, Names DEF NewBookRead
<1>8. CASE NewBookField
  <2>1. current_page' \in ReadOn
    BY <1>7, <1>8, Zenon DEF NewBookField
  <2>2. UNCHANGED <<user_shelf, purpose, lock, locked, since, op>>
    BY <1>8, ZenonT(30) DEF NewBookField, search
  <2>3. place' \in PlaceForm \/ place' \in AnyPlace \/ UNCHANGED place
    <3>1. pc' = "place" \/ UNCHANGED place
      BY <1>8 DEF NewBookField
    <3>. QED
      BY <3>1 DEF PagesInv, FormInv, Placed, Astray
  <2>4. HandedOn'
    BY <2>2, <2>3 DEF StayTypes, HandedOn
  <2>. QED
    BY <1>0, <2>1, <2>2, <2>4, OpStays DEF StayTypes, AccessTypes
<1>9. CASE NewBookFinish
  <2>1. ASSUME NEW f, NewBookRead(f), NEW p, NEW g, Within(p, g) PROVE StayTypes'
    BY <1>0, <1>7, <2>1, WithinStays DEF Within
  <2>2. ASSUME Request("insert", since) PROVE OpTypes'
    BY <1>0, <2>2, RequestTypes, Names
  <2>3. ASSUME NEW f, NewBookRead(f), Request("insert", since),
               UNCHANGED <<place, user_shelf, purpose, since, search>>
        PROVE  StayTypes'
    <3>1. HandedOn'
      BY <2>3 DEF StayTypes, HandedOn, search
    <3>. QED
      BY <1>0, <1>7, <2>2, <2>3, <3>1 DEF StayTypes, AccessTypes
  <2>4. ASSUME NEW f, NewBookRead(f), Request("insert", since), Shelves("no")
        PROVE  StayTypes'
    BY <1>0, <1>7, <2>2, <2>4, ShelvesStays
  <2>. QED
    BY <1>9, <2>1, <2>3, <2>4, Zenon DEF NewBookFinish
<1>. QED
  BY <1>3, <1>4, <1>5, <1>6, <1>8, <1>9 DEF BookPages

LEMMA BuildStays == ASSUME StayTypes, BuildPages PROVE StayTypes'
<1>0. since \in YesNo /\ "yes" \in YesNo /\ current_page \in ReadOn
  BY DEF StayTypes, AccessTypes, YesNo
<1>1. ASSUME NEW p, NEW f, Within(p, f), get_choice("buildshelf") PROVE StayTypes'
  BY <1>0, <1>1, KeyTypes, Names, WithinStays DEF Within
<1>2. CASE BuildName
  BY <1>0, <1>2, WithinStays DEF BuildName, access
<1>3. CASE HeightKey \/ ProfileKey
  BY <1>1, <1>3, Zenon DEF HeightKey, ProfileKey
<1>4. CASE BuildStart
  <2>1. ASSUME Request("build", since), Home, UNCHANGED current_page PROVE StayTypes'
    <3>1. OpTypes'
      BY <1>0, <2>1, RequestTypes, Names
    <3>. QED
      BY <1>0, <2>1, <3>1, HomeStays
  <2>2. ASSUME Home, UNCHANGED op, UNCHANGED current_page PROVE StayTypes'
    BY <1>0, <2>2, HomeStays, OpStays
  <2>3. ASSUME NEW v \in verify_identity(current_page), Verified(current_page, v),
               NEW p, NEW f, Goto(p, f), since' = v.since
        PROVE  StayTypes'
    BY <1>0, <2>3, VerifyTypes, Names, WithinStays
  <2>4. ASSUME NEW v \in verify_identity(current_page), Verified(current_page, v), Home, UNCHANGED op
        PROVE  StayTypes'
    BY <1>0, <2>4, VerifyTypes, Names, HomeStays, OpStays
  <2>. QED
    BY <1>4, <2>1, <2>2, <2>3, <2>4, Zenon DEF BuildStart
<1>. QED
  BY <1>2, <1>3, <1>4 DEF BuildPages

LEMMA SearchStays == ASSUME StayTypes, SearchPages PROVE StayTypes'
<1>0. since \in YesNo /\ menu_non_sense_e \in Nat /\ SelectShelf \subseteq Nat
  BY BookManAssumption DEF StayTypes, AccessTypes, menu_non_sense_e
<1>1. get_choice("searchbook") \/ get_choice("lookthrough") => current_page' \in ReadOn
  BY KeyTypes, Names
<1>2. current_page' \in ReadOn
  BY <1>1, Zenon DEF SearchPages, SearchKey, SelectKey
<1>3. ASSUME NEW p, NEW f, Within(p, f) PROVE StayTypes'
  BY <1>0, <1>2, <1>3, WithinStays DEF Within
<1>4. ASSUME Home, UNCHANGED op PROVE StayTypes'
  BY <1>2, <1>4, HomeStays, OpStays
<1>5. ASSUME lock' \in Nat, locked' \in {locked, lock'},
             UNCHANGED <<form, place, user_shelf, purpose, since, op>>
      PROVE  StayTypes'
  <2>1. HandedOn'
    BY <1>5 DEF StayTypes, HandedOn
  <2>. QED
    BY <1>0, <1>2, <1>5, <2>1, OpStays DEF StayTypes, AccessTypes
<1>6. ASSUME purpose' = "search", since' = "no", UNCHANGED <<form, place, user_shelf, search, op>>
      PROVE  StayTypes'
  <2>1. HandedOn'
    BY <1>6 DEF StayTypes, HandedOn, search
  <2>2. since' \in YesNo
    BY <1>6 DEF YesNo
  <2>. QED
    BY <1>2, <1>6, <2>1, <2>2, OpStays DEF StayTypes, AccessTypes
<1>7. CASE SearchKey
  <2>1. CASE lock' = menu_non_sense_e
             /\ UNCHANGED <<pc, form, place, user_shelf, purpose, since, op, locked>>
    BY <1>0, <1>5, <2>1
  <2>. QED
    BY <1>3, <1>4, <1>6, <1>7, <2>1, Zenon DEF SearchKey
<1>8. CASE SelectKey
  <2>1. CASE lock' = menu_non_sense_e
             /\ UNCHANGED <<form, place, user_shelf, purpose, since, op, locked>>
    BY <1>0, <1>5, <2>1
  <2>2. ASSUME NEW t \in SelectShelf, lock' = t, locked' = t,
               UNCHANGED <<form, place, user_shelf, purpose, since, op>>
        PROVE  StayTypes'
    BY <1>0, <1>5, <2>2
  <2>. QED
    BY <1>3, <1>8, <2>1, <2>2, Zenon DEF SelectKey
<1>. QED
  BY <1>7, <1>8 DEF SearchPages

Types == PagesInv /\ ConnTypes /\ ThreadTypes /\ EndTypes /\ StayTypes /\ bcollect \in 0..1

LEMMA TypesInit == Init => Types
<1>. SUFFICES ASSUME Init PROVE Types
  OBVIOUS
<1>1. ConnTypes
  BY BookManAssumption DEF Init, ConnTypes, YesNo
<1>2. ThreadTypes
  BY DEF Init, ThreadTypes
<1>3. EndTypes
  BY DEF Init, EndTypes
<1>4. HandedOn
  BY DEF Init, HandedOn, NON_SENSE_INT
<1>5. AccessTypes
  BY DEF Init, AccessTypes, YesNo, ReadOn
<1>6. OpTypes
  BY DEF Init, OpTypes, NoOp, YesNo, RequestKind
<1>7. bcollect \in 0..1
  BY DEF Init
<1>. QED
  BY <1>1, <1>2, <1>3, <1>4, <1>5, <1>6, <1>7, PagesInit DEF Types, StayTypes

LEMMA TypesStep == Types /\ [Next]_vars => Types'
<1>. SUFFICES ASSUME Types, [Next]_vars PROVE Types'
  OBVIOUS
<1>1. PagesInv /\ ConnTypes /\ ThreadTypes /\ EndTypes /\ StayTypes /\ bcollect \in 0..1
  BY DEF Types
<1>2. PagesInv'
  BY <1>1, PagesStep
<1>3. CASE UNCHANGED vars
  <2>1. ConnTypes' /\ ThreadTypes' /\ bcollect' \in 0..1
    BY <1>1, <1>3 DEF vars, conn, thread, ConnTypes, ThreadTypes
  <2>2. EndTypes'
    BY <1>1, <1>3 DEF vars, EndTypes
  <2>3. StayTypes'
    BY <1>1, <1>3 DEF vars, access, search, StayTypes, HandedOn, AccessTypes, OpTypes
  <2>. QED
    BY <1>2, <2>1, <2>2, <2>3 DEF Types
<1>4. CASE Next
  <2>1. StayTypes'
    BY <1>1, <1>2, <1>4, OutsideStays, MenuStays, ShelfStays, BookStays, BuildStays, SearchStays, ZenonT(30)
       DEF Next
  <2>. QED
    BY <1>1, <1>2, <1>4, <2>1, ConnStep, ThreadStep, EndStep, CollectStep DEF Types
<1>. QED
  BY <1>3, <1>4

LEMMA TypesHold == Types => TypeOK
<1>. SUFFICES ASSUME Types PROVE TypeOK
  OBVIOUS
<1>1. FormInv /\ AccessInv /\ ConnTypes /\ ThreadTypes /\ EndTypes /\ StayTypes /\ bcollect \in 0..1
  BY DEF Types, PagesInv
<1>2. FormOK
  BY <1>1 DEF FormOK, FormInv, EndTypes, Pages
<1>3. pc \in Pages \cup {"login", "register", "sync", "joining", "over", "crashed"}
  BY <1>1 DEF FormInv
<1>4. global_pw_verified \in 0..1
  BY <1>1 DEF AccessInv
<1>5. HandedOn /\ AccessTypes /\ OpTypes
  BY <1>1 DEF StayTypes
<1>. QED
  BY <1>1, <1>2, <1>3, <1>4, <1>5
     DEF TypeOK, ConnTypes, ThreadTypes, HandedOn, AccessTypes, OpTypes

\* Every variable keeps its type on whatever pages the user goes through: what a
\* form leaves behind is what the next page takes up, no form is left on the way
\* out, and a depth that is counted down as an unsigned char stays within
\* 0..MAX_DEPTH (set_shelf_parameter, select_newbook_floor, add_newbook_page).
THEOREM TypeCorrect == Spec => []TypeOK
<1>1. Spec => []Types
  BY TypesInit, TypesStep, PTL DEF Spec
<1>. QED
  BY <1>1, TypesHold, PTL

=============================================================================
