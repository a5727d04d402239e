--------------------------- MODULE AccountsProofs ---------------------------
(***************************************************************************)
(* Names are unique, the number of accounts is bounded, verification is    *)
(* exact and a login has its tables, for every set of names, every limit,  *)
(* and whatever happens to the connection.                                 *)
(***************************************************************************)
EXTENDS Accounts, TLAPS

\* What one step may do to the accounts: nothing, add an account of a new name
\* while there is room, or change columns other than the name.
Keeps == accounts' = accounts
Adds == /\ \E row \in AccountRow : accounts' = Append(accounts, row) /\ Named(row.name) = {}
        /\ Len(accounts) < MAX_USER_NUM
Rewrites == /\ accounts' \in Seq(AccountRow)
            /\ Len(accounts') = Len(accounts)
            /\ \A i \in 1..Len(accounts) : accounts'[i].name = accounts[i].name

\* The inductive invariant.
Inv ==
  /\ TypeOK
  /\ NamesUnique
  /\ UsersWithinLimit

-----------------------------------------------------------------------------
\* A statement leaves the connection in a known state, and one that succeeded
\* was executed.
LEMMA StatementOutcome ==
  ASSUME NEW c \in ConnState, NEW st \in Statement(c)
  PROVE  st.conn \in ConnState /\ (Ok(st) => Executed(st))
<1>0. PICK q \in mysql_query(c) :
        \E d \in mysql_check_connection(q) : st = [q EXCEPT !.conn = d]
  BY DEF Statement
<1>1. PICK d \in mysql_check_connection(q) : st = [q EXCEPT !.conn = d]
  BY <1>0
<1>2. /\ q = [errno |-> q.errno, effect |-> q.effect, conn |-> q.conn]
      /\ q.conn \in {"up", "dead"}
      /\ q.errno = 0 => q.effect = "executed"
  BY UnreliableAssumption
  DEF mysql_query, ConnState, ER_DATA_TOO_LONG, CR_SERVER_LOST, CR_SERVER_GONE_ERROR
<1>3. d \in ConnState
  BY <1>1, <1>2 DEF mysql_check_connection, ConnState
<1>4. st.errno = q.errno /\ st.effect = q.effect /\ st.conn = d
  BY <1>1, <1>2
<1>. QED
  BY <1>2, <1>3, <1>4 DEF Ok, Executed

\* A SELECT, whether it returns its row or not, leaves the connection in a known
\* state.
LEMMA SelectOutcome ==
  ASSUME NEW c \in ConnState, NEW sel \in Select(c)
  PROVE  sel.conn \in ConnState
<1>1. CASE \E st \in {s \in Statement(c) : ~Ok(s)} : sel = [got |-> "error", conn |-> st.conn]
  BY <1>1, StatementOutcome
<1>2. CASE \E st \in {s \in Statement(c) : Ok(s)} : sel \in get_simple_result(st.conn)
  BY <1>2, StatementOutcome, UnreliableAssumption DEF get_simple_result, ConnState
<1>. QED
  BY <1>1, <1>2 DEF Select

\* A failed wrapper changes nothing but the connection.
LEMMA FailEffect ==
  ASSUME TypeOK, NEW req \in Request, NEW text \in ErrorText, NEW c \in ConnState,
         Fail(req, text, c)
  PROVE  Keeps /\ archive' = archive /\ reply' \in Reply /\ conn' \in ConnState
BY DEF Fail, Keeps, Reply

\* A write takes effect or it does not.
LEMMA WriteEffect ==
  ASSUME TypeOK, NEW req \in Request, NEW updated, NEW c \in ConnState,
         Write(req, updated, c)
  PROVE  /\ Keeps \/ accounts' = updated
         /\ archive' = archive /\ reply' \in Reply /\ conn' \in ConnState
<1>1. PICK st \in Statement(c) :
        /\ accounts' = IF Executed(st) THEN updated ELSE accounts
        /\ reply' = [req |-> req, response |-> IF Ok(st) THEN "r_success" ELSE "r_failed",
                     error_text |-> ""]
        /\ conn' = st.conn
        /\ UNCHANGED archive
  BY DEF Write
<1>2. conn' \in ConnState
  BY <1>1, StatementOutcome
<1>3. reply' \in Reply
  BY <1>1 DEF Reply, ErrorText
<1>. QED
  BY <1>1, <1>2, <1>3 DEF Keeps

\* A registration adds an account only after both of its checks.
LEMMA RegisterEffect ==
  ASSUME TypeOK, NEW req \in Request, NEW c \in ConnState, srvdb_account_register(req, c)
  PROVE  /\ Keeps \/ Adds
         /\ archive' = archive /\ reply' \in Reply /\ conn' \in ConnState
<1> USE AccountsAssumption
<1> DEFINE Goal == /\ Keeps \/ Adds
                   /\ archive' = archive /\ reply' \in Reply /\ conn' \in ConnState
<1>0. {"", "limit", "exists"} \subseteq ErrorText
  BY DEF ErrorText
<1>1. ASSUME NEW d \in ConnState, NEW text \in {"", "limit", "exists"}, Fail(req, text, d)
      PROVE  Goal
  BY <1>0, <1>1, FailEffect
<1>2. PICK cnt \in Select(c) :
        \/ cnt.got # "row" /\ Fail(req, "", cnt.conn)
        \/ cnt.got = "row" /\ TooManyUsers(Len(accounts)) /\ Fail(req, "limit", cnt.conn)
        \/ cnt.got = "row" /\ ~TooManyUsers(Len(accounts)) /\ CheckDuplicate(req, cnt.conn)
  BY DEF srvdb_account_register
<1>3. cnt.conn \in ConnState
  BY SelectOutcome
<1>4. CASE ~TooManyUsers(Len(accounts)) /\ CheckDuplicate(req, cnt.conn)
  <2>1. PICK dup \in Select(cnt.conn) :
          \/ dup.got # "row" /\ Fail(req, "", dup.conn)
          \/ dup.got = "row" /\ Named(req.name) # {} /\ Fail(req, "exists", dup.conn)
          \/ dup.got = "row" /\ Named(req.name) = {} /\ InsertAccount(req, dup.conn)
    BY <1>4 DEF CheckDuplicate
  <2>2. dup.conn \in ConnState
    BY <1>3, SelectOutcome
  <2>3. CASE Named(req.name) = {} /\ InsertAccount(req, dup.conn)
    <3> DEFINE row == [name |-> req.name, type |-> req.type,
                       password |-> bcrypt_hashpw(req.password)]
    <3>1. CASE Fail(req, "", dup.conn)
      BY <1>1, <2>2, <3>1
    <3>2. CASE Write(req, Append(accounts, row), dup.conn)
      <4>1. row \in AccountRow /\ row.name = req.name
        BY DEF AccountRow, Request, bcrypt_hashpw
      <4>2. Len(accounts) < MAX_USER_NUM
        BY <1>4 DEF TooManyUsers, TypeOK
      <4>3. accounts' = Append(accounts, row) => Adds
        BY <2>3, <4>1, <4>2 DEF Adds
      <4>. QED
        BY <2>2, <3>2, <4>3, WriteEffect, Zenon
    <3>. QED
      BY <2>3, <3>1, <3>2 DEF InsertAccount
  <2>. QED
    BY <1>1, <2>1, <2>2, <2>3
<1>. QED
  BY <1>1, <1>2, <1>3, <1>4

\* The creation of a user's tables leaves the accounts alone.
LEMMA ArchiveEffect ==
  ASSUME TypeOK, NEW req \in Request, NEW c \in ConnState, srvdb_user_archive_init(req, c)
  PROVE  /\ Keeps
         /\ archive' \subseteq archive \cup Tables(req.name)
         /\ reply' \in Reply /\ conn' \in ConnState
<1>1. PICK st1 \in Statement(c) :
        \E st2 \in IF Ok(st1) THEN Statement(st1.conn) ELSE {st1} :
          /\ archive' = archive
               \cup (IF Executed(st1) THEN {<<req.name, "shelves">>} ELSE {})
               \cup (IF Ok(st1) /\ Executed(st2) THEN {<<req.name, "books">>} ELSE {})
          /\ reply' = [req |-> req, response |-> IF Ok(st2) THEN "r_success" ELSE "r_failed",
                       error_text |-> ""]
          /\ conn' = st2.conn
          /\ UNCHANGED accounts
  BY DEF srvdb_user_archive_init
<1>2. PICK st2 \in IF Ok(st1) THEN Statement(st1.conn) ELSE {st1} :
        /\ archive' = archive
             \cup (IF Executed(st1) THEN {<<req.name, "shelves">>} ELSE {})
             \cup (IF Ok(st1) /\ Executed(st2) THEN {<<req.name, "books">>} ELSE {})
        /\ reply' = [req |-> req, response |-> IF Ok(st2) THEN "r_success" ELSE "r_failed",
                     error_text |-> ""]
        /\ conn' = st2.conn
        /\ UNCHANGED accounts
  BY <1>1
<1>3. st1.conn \in ConnState
  BY StatementOutcome
<1>4. conn' \in ConnState
  BY <1>2, <1>3, StatementOutcome
<1>5. reply' \in Reply
  BY <1>2 DEF Reply, ErrorText
<1>. QED
  BY <1>2, <1>4, <1>5 DEF Keeps, Tables

\* A verification leaves the accounts alone.
LEMMA VerifyEffect ==
  ASSUME TypeOK, NEW req \in Request, NEW c \in ConnState, VerifyAccount(req, c)
  PROVE  /\ Keeps
         /\ archive' \subseteq archive \cup Tables(req.name)
         /\ reply' \in Reply /\ conn' \in ConnState
<1> DEFINE Goal == /\ Keeps
                   /\ archive' \subseteq archive \cup Tables(req.name)
                   /\ reply' \in Reply /\ conn' \in ConnState
<1>1. ASSUME NEW d \in ConnState, NEW text \in {"", "mismatch"}, Fail(req, text, d)
      PROVE  Goal
  <2>1. text \in ErrorText
    BY DEF ErrorText
  <2>. QED
    BY <1>1, <2>1, FailEffect
<1>2. ASSUME NEW d \in ConnState, Verified(req, d) PROVE Goal
  <2>1. CASE srvdb_user_archive_init(req, d)
    BY <2>1, ArchiveEffect
  <2>2. CASE /\ reply' = [req |-> req, response |-> "r_success", error_text |-> ""]
             /\ conn' = d
             /\ UNCHANGED <<accounts, archive>>
    BY <2>2 DEF Keeps, Reply, ErrorText
  <2>. QED
    BY <1>2, <2>1, <2>2 DEF Verified
<1>3. ASSUME NEW d \in ConnState, NEW i, VerifyPassword(req, i, d) PROVE Goal
  <2>1. PICK pw \in Select(d) : \/ Fail(req, "", pw.conn)
                                \/ Fail(req, "mismatch", pw.conn)
                                \/ Verified(req, pw.conn)
    BY <1>3 DEF VerifyPassword
  <2>2. pw.conn \in ConnState
    BY SelectOutcome
  <2>. QED
    BY <1>1, <1>2, <2>1, <2>2
<1>4. PICK ty \in Select(c) : \/ Fail(req, "", ty.conn)
                              \/ Fail(req, "mismatch", ty.conn)
                              \/ \E i \in Named(req.name) : VerifyPassword(req, i, ty.conn)
  BY DEF VerifyAccount
<1>5. ty.conn \in ConnState
  BY SelectOutcome
<1>. QED
  BY <1>1, <1>3, <1>4, <1>5

\* The new password goes into rows that keep their names.
LEMMA UpdateEffect ==
  ASSUME TypeOK, NEW new \in Password, srvdb_account_update(new)
  PROVE  /\ Keeps \/ Rewrites
         /\ archive' = archive /\ reply' \in Reply /\ conn' \in ConnState
<1> USE AccountsAssumption
<1> DEFINE req == [AdminAccount EXCEPT !.op = "update", !.password = new]
           updated == [i \in 1..Len(accounts) |->
                         IF i \in Named(req.name)
                         THEN [accounts[i] EXCEPT !.password = bcrypt_hashpw(new)]
                         ELSE accounts[i]]
<1>1. req \in Request
  BY Zenon DEF AdminAccount, Request, AccountType
<1>2. PICK cnt \in Select(conn) : Fail(req, "", cnt.conn) \/ Write(req, updated, cnt.conn)
  BY DEF srvdb_account_update
<1>3. cnt.conn \in ConnState
  BY SelectOutcome DEF TypeOK
<1>4. CASE Fail(req, "", cnt.conn)
  <2>1. "" \in ErrorText
    BY DEF ErrorText
  <2>. QED
    BY <1>1, <1>3, <1>4, <2>1, FailEffect
<1>5. CASE Write(req, updated, cnt.conn)
  <2>1. \A i \in 1..Len(accounts) : accounts[i] \in AccountRow
    BY DEF TypeOK
  <2>2. \A i \in 1..Len(accounts) : updated[i] \in AccountRow /\ updated[i].name = accounts[i].name
    BY <2>1 DEF AccountRow, bcrypt_hashpw
  <2>3. updated \in Seq(AccountRow) /\ Len(updated) = Len(accounts)
    <3>1. Len(accounts) \in Nat
      BY DEF TypeOK
    <3>2. updated \in [1..Len(accounts) -> AccountRow]
      BY <2>2
    <3>. QED
      BY <3>1, <3>2
  <2>4. Keeps \/ accounts' = updated
    BY <1>1, <1>3, <1>5, WriteEffect
  <2>5. accounts' = updated => Rewrites
    BY <2>2, <2>3 DEF Rewrites
  <2>. QED
    BY <1>1, <1>3, <1>5, <2>4, <2>5, WriteEffect
<1>. QED
  BY <1>2, <1>4, <1>5

-----------------------------------------------------------------------------
\* Before the first start there is no account.
LEMMA InitInv == Init => Inv
<1> SUFFICES ASSUME Init PROVE Inv
  OBVIOUS
<1>0. accounts = <<>>
  BY DEF Init
<1>1. accounts \in Seq(AccountRow) /\ Len(accounts) = 0
  BY <1>0
<1>2. [AdminAccount EXCEPT !.op = "none"] \in Request
  BY AccountsAssumption DEF AdminAccount, Request, AccountType
<1>3. reply \in Reply
  BY <1>2 DEF Init, Reply, ErrorText
<1>4. TypeOK
  BY <1>1, <1>3 DEF TypeOK, Init, ServerMode, ConnState
<1>. QED
  BY <1>1, <1>4, AccountsAssumption DEF Inv, NamesUnique, UsersWithinLimit

\* What the three kinds of change to the accounts preserve.
LEMMA AccountsPreserved ==
  ASSUME Inv, Keeps \/ Adds \/ Rewrites
  PROVE  accounts' \in Seq(AccountRow) /\ NamesUnique' /\ UsersWithinLimit'
<1>0. accounts \in Seq(AccountRow) /\ NamesUnique /\ UsersWithinLimit
  BY DEF Inv, TypeOK
<1>1. CASE Keeps
  BY <1>0, <1>1 DEF Keeps, NamesUnique, UsersWithinLimit
<1>2. CASE Adds
  <2>1. PICK row \in AccountRow : accounts' = Append(accounts, row) /\ Named(row.name) = {}
    BY <1>2 DEF Adds
  <2>2. /\ accounts' \in Seq(AccountRow)
        /\ Len(accounts') = Len(accounts) + 1
        /\ accounts'[Len(accounts) + 1] = row
        /\ \A i \in 1..Len(accounts) : accounts'[i] = accounts[i]
    BY <1>0, <2>1
  <2>3. \A i \in 1..Len(accounts) : accounts[i].name # row.name
    BY <2>1 DEF Named
  <2>4. NamesUnique'
    BY <1>0, <2>2, <2>3 DEF NamesUnique
  <2>5. UsersWithinLimit'
    BY <1>0, <1>2, <2>2, AccountsAssumption DEF UsersWithinLimit, Adds
  <2>. QED
    BY <2>2, <2>4, <2>5
<1>3. CASE Rewrites
  BY <1>0, <1>3 DEF Rewrites, NamesUnique, UsersWithinLimit
<1>. QED
  BY <1>1, <1>2, <1>3

\* Every request, start, stop and loss of the connection keeps the invariant.
LEMMA StepInv == Inv /\ [Next]_vars => Inv'
<1> SUFFICES ASSUME Inv, [Next]_vars PROVE Inv'
  OBVIOUS
<1> USE AccountsAssumption
<1>0. TypeOK /\ conn \in ConnState /\ server \in ServerMode
  BY DEF Inv, TypeOK
<1>1. ASSUME Keeps \/ Adds \/ Rewrites,
             archive' \subseteq UNION {Tables(name) : name \in Name},
             reply' \in Reply, conn' \in ConnState, server' \in ServerMode
      PROVE  Inv'
  BY <1>1, AccountsPreserved DEF Inv, TypeOK
<1>2. \A name \in Name : archive \cup Tables(name) \subseteq UNION {Tables(n) : n \in Name}
  BY <1>0 DEF TypeOK
<1>3. CASE Start
  <2>1. AdminAccount \in Request
    BY DEF AdminAccount, Request, AccountType
  <2>2. PICK st \in Statement("up") : srvdb_account_register(AdminAccount, st.conn)
    BY <1>3 DEF Start
  <2>3. "up" \in ConnState
    BY DEF ConnState
  <2>4. st.conn \in ConnState
    BY <2>3, StatementOutcome
  <2>5. server' \in ServerMode
    BY <1>3 DEF Start, ServerMode
  <2>. QED
    BY <1>0, <1>1, <1>2, <2>1, <2>2, <2>4, <2>5, RegisterEffect
<1>4. CASE Stop
  <2>1. server' \in ServerMode /\ UNCHANGED <<accounts, archive, reply, conn>>
    BY <1>4 DEF Stop, ServerMode
  <2>. QED
    BY <1>0, <2>1 DEF Inv, TypeOK, NamesUnique, UsersWithinLimit
<1>5. ASSUME NEW name \in Name, NEW password \in Password, Register(name, password)
      PROVE  Inv'
  <2> DEFINE req == [op |-> "register", name |-> name, password |-> password,
                     type |-> "account_user_e", init |-> "no"]
  <2>1. req \in Request
    BY DEF Request, AccountType
  <2>2. srvdb_account_register(req, conn) /\ server' \in ServerMode
    BY <1>0, <1>5 DEF Register
  <2>. QED
    BY <1>0, <1>1, <1>2, <2>1, <2>2, RegisterEffect
<1>6. ASSUME NEW name \in Name, NEW password \in Password, NEW type \in AccountType,
             Login(name, password, type)
      PROVE  Inv'
  <2> DEFINE req == [op |-> "verify", name |-> name, password |-> password, type |-> type,
                     init |-> IF type = "account_user_e" THEN "yes" ELSE "no"]
  <2>1. req \in Request /\ req.name = name
    BY DEF Request
  <2>2. VerifyAccount(req, conn) /\ server' \in ServerMode
    BY <1>0, <1>6 DEF Login
  <2>3. archive' \subseteq archive \cup Tables(name)
    BY <1>0, <2>1, <2>2, VerifyEffect
  <2>. QED
    BY <1>0, <1>1, <1>2, <2>1, <2>2, <2>3, VerifyEffect
<1>7. ASSUME NEW old \in Password, VerifyAdmin(old) PROVE Inv'
  <2> DEFINE req == [AdminAccount EXCEPT !.op = "verify", !.password = old]
  <2>1. req \in Request /\ req.name \in Name
    BY Zenon DEF AdminAccount, Request, AccountType
  <2>2. VerifyAccount(req, conn) /\ server' \in ServerMode
    BY <1>7 DEF VerifyAdmin, ServerMode
  <2>3. archive' \subseteq archive \cup Tables(req.name)
    BY <1>0, <2>1, <2>2, VerifyEffect, Zenon
  <2>. QED
    BY <1>0, <1>1, <1>2, <2>1, <2>2, <2>3, VerifyEffect
<1>8. ASSUME NEW new \in Password, srvdb_account_update(new) PROVE Inv'
  <2>1. server' \in ServerMode
    BY <1>8 DEF srvdb_account_update, ServerMode
  <2>. QED
    BY <1>0, <1>1, <1>2, <1>8, <2>1, UpdateEffect
<1>9. CASE MySqlTimeout
  <2>1. conn' \in ConnState /\ UNCHANGED <<accounts, archive, server, reply>>
    BY <1>9 DEF MySqlTimeout, IdleTimeout, ConnState
  <2>. QED
    BY <1>0, <2>1 DEF Inv, TypeOK, NamesUnique, UsersWithinLimit
<1>10. CASE UNCHANGED vars
  BY <1>10 DEF vars, Inv, TypeOK, NamesUnique, UsersWithinLimit
<1>. QED
  BY <1>3, <1>4, <1>5, <1>6, <1>7, <1>8, <1>9, <1>10 DEF Next

-----------------------------------------------------------------------------
(***************************************************************************)
(* What a verification answers.  The answer is about the accounts as they  *)
(* are when it is given; that it stays true until the next request needs   *)
(* that only requests change the accounts.                                 *)
(***************************************************************************)

\* The reply of a wrapper's last statement is to its request.
LEMMA WriteReply ==
  ASSUME NEW req, NEW updated, NEW c, Write(req, updated, c)
  PROVE  reply'.req = req
<1>1. PICK st \in Statement(c) :
        reply' = [req |-> req, response |-> IF Ok(st) THEN "r_success" ELSE "r_failed",
                  error_text |-> ""]
  BY Zenon DEF Write
<1>2. PICK r : reply' = [req |-> req, response |-> r, error_text |-> ""]
  BY <1>1
<1>. QED
  BY <1>2

\* Whatever a registration comes to, its reply is to the registration.
LEMMA RegisterReply ==
  ASSUME NEW req, NEW c, srvdb_account_register(req, c)
  PROVE  reply'.req = req
<1>1. ASSUME NEW text, NEW d, Fail(req, text, d) PROVE reply'.req = req
  BY <1>1 DEF Fail
<1>2. ASSUME NEW updated, NEW d, Write(req, updated, d) PROVE reply'.req = req
  BY <1>2, WriteReply
<1>3. ASSUME NEW d, InsertAccount(req, d) PROVE reply'.req = req
  BY <1>1, <1>2, <1>3 DEF InsertAccount
<1>4. ASSUME NEW d, CheckDuplicate(req, d) PROVE reply'.req = req
  BY <1>1, <1>3, <1>4 DEF CheckDuplicate
<1>. QED
  BY <1>1, <1>4 DEF srvdb_account_register

\* The same of an update of the administrator's password.
LEMMA UpdateReply ==
  ASSUME NEW new, srvdb_account_update(new)
  PROVE  reply'.req.op = "update"
<1> DEFINE req == [AdminAccount EXCEPT !.op = "update", !.password = new]
<1>1. PICK d, updated : Fail(req, "", d) \/ Write(req, updated, d)
  BY DEF srvdb_account_update
<1>2. reply'.req = req
  <2>1. CASE Fail(req, "", d)
    BY <2>1 DEF Fail
  <2>2. CASE Write(req, updated, d)
    BY <2>2, WriteReply
  <2>. QED
    BY <1>1, <2>1, <2>2
<1>. QED
  BY <1>2 DEF AdminAccount

\* Tables reported as created are there: success of the second statement means
\* that the first succeeded as well, and success means execution.
LEMMA ArchiveReply ==
  ASSUME NEW req \in Request, NEW c \in ConnState, srvdb_user_archive_init(req, c)
  PROVE  /\ reply'.req = req /\ reply'.error_text = ""
         /\ reply'.response = "r_success" => Tables(req.name) \subseteq archive'
<1>1. PICK st1 \in Statement(c) :
        \E st2 \in IF Ok(st1) THEN Statement(st1.conn) ELSE {st1} :
          /\ archive' = archive
               \cup (IF Executed(st1) THEN {<<req.name, "shelves">>} ELSE {})
               \cup (IF Ok(st1) /\ Executed(st2) THEN {<<req.name, "books">>} ELSE {})
          /\ reply' = [req |-> req, response |-> IF Ok(st2) THEN "r_success" ELSE "r_failed",
                       error_text |-> ""]
  BY DEF srvdb_user_archive_init
<1>2. PICK st2 \in IF Ok(st1) THEN Statement(st1.conn) ELSE {st1} :
        /\ archive' = archive
             \cup (IF Executed(st1) THEN {<<req.name, "shelves">>} ELSE {})
             \cup (IF Ok(st1) /\ Executed(st2) THEN {<<req.name, "books">>} ELSE {})
        /\ reply' = [req |-> req, response |-> IF Ok(st2) THEN "r_success" ELSE "r_failed",
                     error_text |-> ""]
  BY <1>1
<1>3. Ok(st2) => Ok(st1)
  BY <1>2
<1>4. st1.conn \in ConnState /\ (Ok(st1) => Executed(st1))
  BY StatementOutcome
<1>5. Ok(st2) => Executed(st1) /\ Executed(st2)
  BY <1>2, <1>3, <1>4, StatementOutcome
<1>6. reply'.response = "r_success" => Ok(st2)
  BY <1>2
<1>. QED
  BY <1>2, <1>3, <1>5, <1>6 DEF Tables

\* A verification is right about the account, and a login it lets in has its
\* tables.  There is one row of that name, so the row looked at is the row meant.
LEMMA VerifyReply ==
  ASSUME Inv, NEW req \in Request, NEW c \in ConnState, VerifyAccount(req, c)
  PROVE  VerifyExact' /\ LoginHasTables'
<1> DEFINE rows == {i \in Named(req.name) : Matches(accounts[i], req)}
           Right == /\ reply'.req = req
                    /\ reply'.response = "r_success" => rows # {}
                    /\ reply'.error_text = "mismatch" => rows = {}
                    /\ reply'.response = "r_success" /\ req.init = "yes" =>
                         Tables(req.name) \subseteq archive'
<1>1. TypeOK /\ \A i, j \in Named(req.name) : i = j
  BY DEF Inv, NamesUnique, Named
<1>2. ASSUME NEW text, NEW d, Fail(req, text, d), text = "mismatch" => rows = {}
      PROVE  Right
  BY <1>2 DEF Fail
<1>3. ASSUME NEW d \in ConnState, Verified(req, d), rows # {} PROVE Right
  <2>1. CASE srvdb_user_archive_init(req, d)
    BY <1>3, <2>1, ArchiveReply
  <2>2. CASE /\ req.init = "no"
             /\ reply' = [req |-> req, response |-> "r_success", error_text |-> ""]
    BY <1>3, <2>2
  <2>. QED
    BY <1>3, <2>1, <2>2 DEF Verified
<1>4. ASSUME NEW d \in ConnState, NEW i \in Named(req.name), accounts[i].type = req.type,
             VerifyPassword(req, i, d)
      PROVE  Right
  <2>1. PICK pw \in Select(d) :
          \/ Fail(req, "", pw.conn)
          \/ ~bcrypt_checkpw(req.password, accounts[i].password) /\ Fail(req, "mismatch", pw.conn)
          \/ bcrypt_checkpw(req.password, accounts[i].password) /\ Verified(req, pw.conn)
    BY <1>4 DEF VerifyPassword
  <2>2. pw.conn \in ConnState
    BY SelectOutcome
  <2>3. IF bcrypt_checkpw(req.password, accounts[i].password) THEN rows # {} ELSE rows = {}
    BY <1>1, <1>4 DEF Matches
  <2> HIDE DEF rows, Right
  <2>. QED
    BY <1>2, <1>3, <2>1, <2>2, <2>3
<1>5. ASSUME NEW d, NEW i \in Named(req.name), accounts[i].type # req.type,
             Fail(req, "mismatch", d)
      PROVE  Right
  <2>1. rows = {}
    BY <1>1, <1>5 DEF Matches
  <2> HIDE DEF rows, Right
  <2>. QED
    BY <1>2, <1>5, <2>1
<1>6. Right
  <2>1. PICK ty \in Select(c) :
          \/ Fail(req, "", ty.conn)
          \/ \E i \in Named(req.name) : accounts[i].type # req.type /\ Fail(req, "mismatch", ty.conn)
          \/ \E i \in Named(req.name) :
               accounts[i].type = req.type /\ VerifyPassword(req, i, ty.conn)
    BY DEF VerifyAccount
  <2>2. ty.conn \in ConnState
    BY SelectOutcome
  <2> HIDE DEF rows, Right
  <2>. QED
    BY <1>2, <1>4, <1>5, <2>1, <2>2
<1>7. accounts' = accounts
  BY <1>1, VerifyEffect DEF Keeps
<1>8. VerifyExact'
  BY <1>6, <1>7 DEF VerifyExact, Named
<1>9. LoginHasTables'
  BY <1>6 DEF LoginHasTables
<1>. QED
  BY <1>8, <1>9

\* Both statements about replies go on to hold.
LEMMA StepReply ==
  Inv /\ VerifyExact /\ LoginHasTables /\ [Next]_vars => VerifyExact' /\ LoginHasTables'
<1> SUFFICES ASSUME Inv, VerifyExact, LoginHasTables, [Next]_vars
             PROVE  VerifyExact' /\ LoginHasTables'
  OBVIOUS
<1> USE AccountsAssumption
<1>0. conn \in ConnState
  BY DEF Inv, TypeOK
<1>1. ASSUME reply'.req.op # "verify" PROVE VerifyExact' /\ LoginHasTables'
  BY <1>1 DEF VerifyExact, LoginHasTables
<1>2. ASSUME UNCHANGED <<accounts, archive, reply>> PROVE VerifyExact' /\ LoginHasTables'
  BY <1>2 DEF VerifyExact, LoginHasTables, Named
<1>3. CASE Start
  <2>1. PICK c : srvdb_account_register(AdminAccount, c)
    BY <1>3 DEF Start
  <2>2. reply'.req = AdminAccount
    BY <2>1, RegisterReply
  <2>. QED
    BY <1>1, <2>2 DEF AdminAccount
<1>4. CASE Stop
  BY <1>2, <1>4 DEF Stop
<1>5. ASSUME NEW name \in Name, NEW password \in Password, Register(name, password)
      PROVE  VerifyExact' /\ LoginHasTables'
  <2>1. reply'.req = [op |-> "register", name |-> name, password |-> password,
                      type |-> "account_user_e", init |-> "no"]
    BY <1>5, RegisterReply DEF Register
  <2>. QED
    BY <1>1, <2>1
<1>6. ASSUME NEW name \in Name, NEW password \in Password, NEW type \in AccountType,
             Login(name, password, type)
      PROVE  VerifyExact' /\ LoginHasTables'
  <2> DEFINE req == [op |-> "verify", name |-> name, password |-> password, type |-> type,
                     init |-> IF type = "account_user_e" THEN "yes" ELSE "no"]
  <2>1. req \in Request
    BY DEF Request
  <2>2. VerifyAccount(req, conn)
    BY <1>6 DEF Login
  <2> HIDE DEF req
  <2>. QED
    BY <1>0, <2>1, <2>2, VerifyReply
<1>7. ASSUME NEW old \in Password, VerifyAdmin(old) PROVE VerifyExact' /\ LoginHasTables'
  <2> DEFINE req == [AdminAccount EXCEPT !.op = "verify", !.password = old]
  <2>1. req \in Request
    BY Zenon DEF AdminAccount, Request, AccountType
  <2>2. VerifyAccount(req, conn)
    BY <1>7 DEF VerifyAdmin
  <2> HIDE DEF req
  <2>. QED
    BY <1>0, <2>1, <2>2, VerifyReply
<1>8. ASSUME NEW new \in Password, srvdb_account_update(new) PROVE VerifyExact' /\ LoginHasTables'
  BY <1>1, <1>8, UpdateReply
<1>9. CASE MySqlTimeout
  BY <1>2, <1>9 DEF MySqlTimeout
<1>10. CASE UNCHANGED vars
  BY <1>2, <1>10 DEF vars
<1>. QED
  BY <1>3, <1>4, <1>5, <1>6, <1>7, <1>8, <1>9, <1>10 DEF Next

\* Before the first request nothing has been verified.
LEMMA InitReply == Init => VerifyExact /\ LoginHasTables
<1> SUFFICES ASSUME Init PROVE VerifyExact /\ LoginHasTables
  OBVIOUS
<1>1. reply.req.op = "none"
  BY DEF Init, AdminAccount
<1>. QED
  BY <1>1 DEF VerifyExact, LoginHasTables

\* The tables and the replies are of their types (srvdb.c writes whole rows).
THEOREM TypeCorrect == Spec => []TypeOK
<1>1. Inv => TypeOK
  BY DEF Inv
<1>. QED
  BY <1>1, InitInv, StepInv, PTL DEF Spec

\* srvdb_account_verify lets in exactly who has an account of that name, type
\* and password, as far as MySQL answers, and never blames the user for a
\* connection that was lost.
THEOREM VerifyExactAlways == Spec => []VerifyExact
BY InitInv, StepInv, InitReply, StepReply, PTL DEF Spec

\* A user whose login succeeded has both tables, although each is created by a
\* statement of its own that may fail or lose its answer.
THEOREM LoginHasTablesAlways == Spec => []LoginHasTables
BY InitInv, StepInv, InitReply, StepReply, PTL DEF Spec

\* Two accounts never have one name: with the check and the insertion in one
\* request of a server that serves one request at a time, the missing UNIQUE
\* of the table does no harm, whatever answers are lost.
THEOREM UniqueNames == Spec => []NamesUnique
<1>1. Inv => NamesUnique
  BY DEF Inv
<1>. QED
  BY <1>1, InitInv, StepInv, PTL DEF Spec

\* The number of accounts never exceeds MAX_USER_NUM.
THEOREM BoundedUsers == Spec => []UsersWithinLimit
<1>1. Inv => UsersWithinLimit
  BY DEF Inv
<1>. QED
  BY <1>1, InitInv, StepInv, PTL DEF Spec
=============================================================================
