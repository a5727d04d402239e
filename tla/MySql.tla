------------------------------- MODULE MySql --------------------------------
(***************************************************************************)
(* The server's one connection to MySQL (my_connection in srvdb.c).  MySQL *)
(* closes a connection that has been idle too long, and a connection can   *)
(* be lost while a statement runs; a statement can also be refused on a    *)
(* connection that stays up (a value too long for its column, a lock, a    *)
(* full disk).  Every wrapper of srvdb.c reacts to a failed mysql_query    *)
(* with mysql_check_connection and never repeats the statement.            *)
(*                                                                         *)
(*   "up"     connected                                                    *)
(*   "stale"  closed by MySQL, the client library has not noticed          *)
(*   "dead"   the library knows that there is no connection                *)
(***************************************************************************)
EXTENDS Integers

CONSTANT Unreliable     \* whether MySQL may lose the connection or refuse a statement

ASSUME UnreliableAssumption == Unreliable \in BOOLEAN

VARIABLE conn

ConnState == {"up", "stale", "dead"}

ER_DATA_TOO_LONG == 1406    \* stands for every error that is not the connection's
CR_CONN_HOST_ERROR == 2003
CR_SERVER_GONE_ERROR == 2006
CR_SERVER_LOST == 2013

\* What mysql_query may do on a connection in state c: its errno, the effect of
\* the statement, and the state it leaves.  A statement whose connection is
\* lost while it runs may or may not have been executed.
mysql_query(c) ==
  CASE c = "up" ->
         {[errno |-> 0, effect |-> "executed", conn |-> "up"]}
           \cup (IF Unreliable
                 THEN [errno : {CR_SERVER_LOST}, effect : {"executed", "none"},
                       conn : {"dead"}]
                      \cup {[errno |-> ER_DATA_TOO_LONG, effect |-> "none", conn |-> "up"]}
                 ELSE {})
    [] c = "stale" ->
         [errno : {CR_SERVER_GONE_ERROR, CR_SERVER_LOST}, effect : {"none"},
          conn : {"dead"}]
    [] c = "dead" ->
         {[errno |-> CR_SERVER_GONE_ERROR, effect |-> "none", conn |-> "dead"]}

\* Variant: every error leads to an attempt to reconnect.
mysql_check_connection_Eager(q) ==
  IF q.errno # 0 THEN {"up", "dead"} ELSE {q.conn}

\* mysql_check_connection after the outcome q of a query: on two error codes,
\* a ping that fails (the connection is gone) leads to one attempt to
\* reconnect, which may fail.  The states it may leave.
mysql_check_connection(q) ==
  IF q.errno \in {CR_SERVER_GONE_ERROR, CR_CONN_HOST_ERROR}
  THEN {"up", "dead"}
  ELSE {q.conn}

\* A query followed, when it failed, by mysql_check_connection: the unit every
\* wrapper is built from.
Statement(c) ==
  UNION {{[q EXCEPT !.conn = d] : d \in mysql_check_connection(q)} :
         q \in mysql_query(c)}

Ok(st) == st.errno = 0
Executed(st) == st.effect = "executed"

\* get_simple_result on a connection whose query succeeded: the row arrives,
\* or the connection is lost while it is read.
get_simple_result(c) ==
  {[got |-> "row", conn |-> c]}
    \cup (IF Unreliable THEN {[got |-> "nothing", conn |-> "dead"]} ELSE {})

\* A SELECT of one value and its get_simple_result: "row", "nothing" when the
\* result could not be read, "error" when the query failed.
Select(c) ==
  {[got |-> "error", conn |-> st.conn] : st \in {s \in Statement(c) : ~Ok(s)}}
    \cup UNION {get_simple_result(st.conn) : st \in {s \in Statement(c) : Ok(s)}}

\* The idle connection is closed by MySQL (its wait_timeout).
IdleTimeout ==
  /\ Unreliable
  /\ conn = "up"
  /\ conn' = "stale"
=============================================================================
