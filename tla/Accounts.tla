------------------------------ MODULE Accounts ------------------------------
(***************************************************************************)
(* The accounts of the server: registration, verification, the change of   *)
(* the administrator's password, and the tables a user gets at the first   *)
(* login.  The primary key of the accounts table is (userno, name) with    *)
(* userno generated, so MySQL accepts two rows of one name: that names are *)
(* unique and that there are at most MAX_USER_NUM accounts is up to the    *)
(* checks srvdb_account_register makes before it inserts, on a connection  *)
(* that may be lost between them.                                          *)
(***************************************************************************)
EXTENDS MySql, Sequences

CONSTANTS
  Name, Password,
  ADMIN_DEFAULT_ACCOUNT, ADMIN_DEFAULT_PW,
  MAX_USER_NUM

ASSUME AccountsAssumption ==
  /\ ADMIN_DEFAULT_ACCOUNT \in Name
  /\ ADMIN_DEFAULT_PW \in Password
  /\ MAX_USER_NUM \in Nat \ {0}

VARIABLES
  accounts,    \* the rows of the accounts table, in the order of userno
  archive,     \* the tables of the users: <<name, "shelves">>, <<name, "books">>
  server,      \* how the server process runs
  reply        \* the answer of the wrapper that ran last, with its request

vars == <<accounts, archive, server, reply, conn>>

\* bcrypt: a hash matches the password it was made of and no other.
bcrypt_hashpw(password) == [hash |-> password]
bcrypt_checkpw(password, hash) == hash = bcrypt_hashpw(password)

ServerMode == {"down", "up", "reset", "verified"}
AccountType == {"account_admin_e", "account_user_e"}
AccountRow == [name : Name, password : [hash : Password], type : AccountType]
Request == [op : {"none", "register", "verify", "update"}, name : Name,
            password : Password, type : AccountType, init : {"yes", "no"}]
ErrorText == {"", "limit", "exists", "mismatch"}
Reply == [req : Request, response : {"r_success", "r_failed"}, error_text : ErrorText]

Tables(name) == {<<name, "shelves">>, <<name, "books">>}

Named(name) == {i \in 1..Len(accounts) : accounts[i].name = name}
Matches(row, req) == row.type = req.type /\ bcrypt_checkpw(req.password, row.password)

-----------------------------------------------------------------------------
\* A wrapper returns 0, with a text for the user or without.
Fail(req, text, c) ==
  /\ reply' = [req |-> req, response |-> "r_failed", error_text |-> text]
  /\ conn' = c
  /\ UNCHANGED <<accounts, archive>>

\* A statement that ends the wrapper: its effect on the accounts when executed.
Write(req, updated, c) ==
  \E st \in Statement(c) :
    /\ accounts' = IF Executed(st) THEN updated ELSE accounts
    /\ reply' = [req |-> req, response |-> IF Ok(st) THEN "r_success" ELSE "r_failed",
                 error_text |-> ""]
    /\ conn' = st.conn
    /\ UNCHANGED archive

\* Variant: the password is stored as it came.
InsertAccount_Plain(req, c) ==
  \/ Fail(req, "", c)
  \/ Write(req, Append(accounts, [name |-> req.name, type |-> req.type,
                                  password |-> req.password]), c)

\* The row that is inserted; the salt or the hash may fail to be made.
InsertAccount(req, c) ==
  \/ Fail(req, "", c)
  \/ Write(req, Append(accounts, [name |-> req.name, type |-> req.type,
                                  password |-> bcrypt_hashpw(req.password)]), c)

\* Variant: the check for a duplicate name goes on when its result is lost.
CheckDuplicate_GoesOn(req, c) ==
  \E dup \in Select(c) :
    \/ dup.got = "error" /\ Fail(req, "", dup.conn)
    \/ dup.got = "row" /\ Named(req.name) # {} /\ Fail(req, "exists", dup.conn)
    \/ dup.got = "nothing" /\ InsertAccount(req, "up")
    \/ dup.got = "row" /\ Named(req.name) = {} /\ InsertAccount(req, dup.conn)

CheckDuplicate(req, c) ==
  \E dup \in Select(c) :
    \/ dup.got # "row" /\ Fail(req, "", dup.conn)
    \/ dup.got = "row" /\ Named(req.name) # {} /\ Fail(req, "exists", dup.conn)
    \/ dup.got = "row" /\ Named(req.name) = {} /\ InsertAccount(req, dup.conn)

\* Variant: the comparison with the number of users is off by one.
TooManyUsers_Off(n) == n > MAX_USER_NUM
TooManyUsers(n) == n >= MAX_USER_NUM

srvdb_account_register(req, c) ==
  \E cnt \in Select(c) :
    \/ cnt.got # "row" /\ Fail(req, "", cnt.conn)
    \/ cnt.got = "row" /\ TooManyUsers(Len(accounts)) /\ Fail(req, "limit", cnt.conn)
    \/ cnt.got = "row" /\ ~TooManyUsers(Len(accounts)) /\ CheckDuplicate(req, cnt.conn)

-----------------------------------------------------------------------------
\* Variant: the failure to create the second table is ignored.
srvdb_user_archive_init_Ignores(req, c) ==
  \E st1 \in Statement(c) :
    \E st2 \in IF Ok(st1) THEN Statement(st1.conn) ELSE {st1} :
      /\ archive' = archive
           \cup (IF Executed(st1) THEN {<<req.name, "shelves">>} ELSE {})
           \cup (IF Ok(st1) /\ Executed(st2) THEN {<<req.name, "books">>} ELSE {})
      /\ reply' = [req |-> req, response |-> IF Ok(st1) THEN "r_success" ELSE "r_failed",
                   error_text |-> ""]
      /\ conn' = st2.conn
      /\ UNCHANGED accounts

\* The two tables of a user are created unless they exist; the second is not
\* tried when the first fails.
srvdb_user_archive_init(req, c) ==
  \E st1 \in Statement(c) :
    \E st2 \in IF Ok(st1) THEN Statement(st1.conn) ELSE {st1} :
      /\ archive' = archive
           \cup (IF Executed(st1) THEN {<<req.name, "shelves">>} ELSE {})
           \cup (IF Ok(st1) /\ Executed(st2) THEN {<<req.name, "books">>} ELSE {})
      /\ reply' = [req |-> req, response |-> IF Ok(st2) THEN "r_success" ELSE "r_failed",
                   error_text |-> ""]
      /\ conn' = st2.conn
      /\ UNCHANGED accounts

\* What follows a successful verification: the dispatcher creates the tables
\* when the client asked for it.
Verified(req, c) ==
  \/ req.init = "yes" /\ srvdb_user_archive_init(req, c)
  \/ /\ req.init = "no"
     /\ reply' = [req |-> req, response |-> "r_success", error_text |-> ""]
     /\ conn' = c
     /\ UNCHANGED <<accounts, archive>>

\* The password is fetched and compared once the type has been.
VerifyPassword(req, i, c) ==
  \E pw \in Select(c) :
    \/ pw.got # "row" /\ Fail(req, "", pw.conn)
    \/ /\ pw.got = "row"
       /\ ~bcrypt_checkpw(req.password, accounts[i].password)
       /\ Fail(req, "mismatch", pw.conn)
    \/ /\ pw.got = "row"
       /\ bcrypt_checkpw(req.password, accounts[i].password)
       /\ Verified(req, pw.conn)

\* Variant: the type of the account is not compared.
VerifyAccount_AnyType(req, c) ==
  \E ty \in Select(c) :
    \/ (ty.got # "row" \/ Named(req.name) = {}) /\ Fail(req, "", ty.conn)
    \/ \E i \in Named(req.name) : ty.got = "row" /\ VerifyPassword(req, i, ty.conn)

VerifyAccount(req, c) ==
  \E ty \in Select(c) :
    \/ (ty.got # "row" \/ Named(req.name) = {}) /\ Fail(req, "", ty.conn)
    \/ \E i \in Named(req.name) :
         /\ ty.got = "row"
         /\ accounts[i].type # req.type
         /\ Fail(req, "mismatch", ty.conn)
    \/ \E i \in Named(req.name) :
         /\ ty.got = "row"
         /\ accounts[i].type = req.type
         /\ VerifyPassword(req, i, ty.conn)

-----------------------------------------------------------------------------
AdminAccount ==
  [op |-> "register", name |-> ADMIN_DEFAULT_ACCOUNT, password |-> ADMIN_DEFAULT_PW,
   type |-> "account_admin_e", init |-> "no"]

\* The server starts, to serve or to reset the administrator's password.  Once
\* the accounts table is there (a server that cannot create it exits) the
\* administrator is registered, and the server goes on whatever comes of it.
Start ==
  /\ server = "down"
  /\ \E st \in Statement("up") :
       Ok(st) /\ srvdb_account_register(AdminAccount, st.conn)
  /\ server' \in {"up", "reset"}

\* It is stopped, or dies.
Stop ==
  /\ server # "down"
  /\ server' = "down"
  /\ UNCHANGED <<accounts, archive, reply, conn>>

\* A client registers a user.
Register(name, password) ==
  /\ server = "up"
  /\ srvdb_account_register(
       [op |-> "register", name |-> name, password |-> password,
        type |-> "account_user_e", init |-> "no"], conn)
  /\ UNCHANGED server

\* A client logs in; a user's login asks for the user's tables.
Login(name, password, type) ==
  /\ server = "up"
  /\ VerifyAccount(
       [op |-> "verify", name |-> name, password |-> password, type |-> type,
        init |-> IF type = "account_user_e" THEN "yes" ELSE "no"], conn)
  /\ UNCHANGED server

\* A server started with --admin-reset verifies the administrator, stores the
\* new password, and ends; it also ends when the verification fails.
VerifyAdmin(old) ==
  /\ server = "reset"
  /\ VerifyAccount([AdminAccount EXCEPT !.op = "verify", !.password = old], conn)
  /\ server' = IF reply'.response = "r_success" THEN "verified" ELSE "down"

srvdb_account_update(new) ==
  LET req == [AdminAccount EXCEPT !.op = "update", !.password = new]
  IN  /\ server = "verified"
      /\ \E cnt \in Select(conn) :
           \/ /\ cnt.got # "row" \/ Named(req.name) = {}
              /\ Fail(req, "", cnt.conn)
           \/ /\ cnt.got = "row" /\ Named(req.name) # {}
              /\ \/ Fail(req, "", cnt.conn)
                 \/ Write(req,
                          [i \in 1..Len(accounts) |->
                             IF i \in Named(req.name)
                             THEN [accounts[i] EXCEPT !.password = bcrypt_hashpw(new)]
                             ELSE accounts[i]],
                          cnt.conn)
      /\ server' = "down"

MySqlTimeout ==
  /\ server # "down"
  /\ IdleTimeout
  /\ UNCHANGED <<accounts, archive, server, reply>>

-----------------------------------------------------------------------------
Init ==
  /\ accounts = <<>>
  /\ archive = {}
  /\ server = "down"
  /\ reply = [req |-> [AdminAccount EXCEPT !.op = "none"], response |-> "r_failed",
              error_text |-> ""]
  /\ conn = "up"

Next ==
  \/ Start
  \/ Stop
  \/ \E name \in Name, password \in Password : Register(name, password)
  \/ \E name \in Name, password \in Password, type \in AccountType :
       Login(name, password, type)
  \/ \E old \in Password : VerifyAdmin(old)
  \/ \E new \in Password : srvdb_account_update(new)
  \/ MySqlTimeout

Spec == Init /\ [][Next]_vars

-----------------------------------------------------------------------------
\* The table holds account rows, the archive tables of named users.
TypeOK ==
  /\ accounts \in Seq(AccountRow)
  /\ archive \subseteq UNION {Tables(name) : name \in Name}
  /\ server \in ServerMode
  /\ reply \in Reply
  /\ conn \in ConnState

\* No two accounts have one name, although only srvdb_account_register's own
\* query stands against it, and a registration may have been executed without
\* its caller, or the server at its next start, knowing.
NamesUnique ==
  \A i, j \in 1..Len(accounts) : accounts[i].name = accounts[j].name => i = j

\* There are never more than MAX_USER_NUM accounts.
UsersWithinLimit == Len(accounts) <= MAX_USER_NUM

\* A verification succeeds only for a row with that name, type and password,
\* and "帐号或密码错误" is answered only when there is no such row: a lost
\* connection is not mistaken for a wrong password (srvdb_account_verify).
VerifyExact ==
  reply.req.op = "verify" =>
    LET rows == {i \in Named(reply.req.name) : Matches(accounts[i], reply.req)}
    IN  /\ reply.response = "r_success" => rows # {}
        /\ reply.error_text = "mismatch" => rows = {}

\* A user who is told that the login succeeded has both tables, so that every
\* later request finds them (socket_srv_process_request, req_verify_account_e).
LoginHasTables ==
  reply.req.op = "verify" /\ reply.req.init = "yes" /\ reply.response = "r_success"
    => Tables(reply.req.name) \subseteq archive
=============================================================================
