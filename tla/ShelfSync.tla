----------------------------- MODULE ShelfSync ------------------------------
(***************************************************************************)
(* A client's copy of its user's shelves.  The copy lives in a dbm file    *)
(* (clidb.c) that outlives the client: one entry per shelf and one for the *)
(* array shelf_record.  Every login brings it up to date                   *)
(* (client_shelves_info_sync in clishell.c); afterwards the client changes *)
(* it along with the shelves it builds and removes.  The same user may     *)
(* work from another client, and this client may end between any two       *)
(* writes to the file.                                                     *)
(*                                                                         *)
(* The server appears as the user's shelves in use.  It gives a new shelf  *)
(* the smallest number not in use, which is what srvdb_shelf_build does on *)
(* dense tables.  Its answers are a stream: what a request leaves unread   *)
(* is read by the next one.                                                *)
(***************************************************************************)
EXTENDS Clisrv, Sequences, FiniteSets, Functions

CONSTANTS
  ShelfInfo,      \* what is written down about a shelf
  NoShelf         \* no shelf under this number

ASSUME SyncAssumption == NoShelf \notin ShelfInfo

ShelfNo == 1..MAX_SHELF_NUM

VARIABLES
  faults,         \* whether clients end anywhere and statements fail; it is the
                  \* same throughout a behaviour
  remote,         \* the server's shelves
  data, saved,    \* the dbm file: the shelves, and the array shelf_record
  shelf_record,   \* the array in memory: 0 unset, 1 set, 2 synchronised
  pc,             \* what the client is doing, "out" when it does not run
  inbox,          \* the server's answers that the client has not read
  shelves_all,    \* the server's count of shelves (gui_sc)
  shelf_cnt,      \* shelves synchronised since the login
  code,           \* the shelf of the pointed request
  quiet,          \* no other client changed the shelves since the login
  unsettled       \* the last run ended inside its synchronisation, or a
                  \* pointed request of this one failed

disk == <<data, saved>>
memory == <<shelf_record, inbox, shelves_all, shelf_cnt, code>>
vars == <<faults, remote, disk, memory, pc, quiet, unsettled>>

InUse == {i \in ShelfNo : remote[i] # NoShelf}
Row(i) == [response |-> "r_success", code |-> i, info |-> remote[i]]
Note(response) == [response |-> response, code |-> 0, info |-> NoShelf]

-----------------------------------------------------------------------------
(* The dbm file.                                                           *)

shelf_record_save(rec) == shelf_record' = rec /\ saved' = rec

\* Variant: an entry that is there is kept (DBM_INSERT for DBM_REPLACE).
dbm_store_Keeps(i, info) == data' = [data EXCEPT ![i] = IF @ = NoShelf THEN info ELSE @]
dbm_store(i, info) == data' = [data EXCEPT ![i] = info]

clidb_shelf_insert(i, info) ==
  dbm_store(i, info) /\ shelf_record_save([shelf_record EXCEPT ![i] = 1])

\* Variant: a synchronised shelf is marked like an inserted one.
clidb_shelf_synchronize_Sets(i, info) ==
  dbm_store(i, info) /\ shelf_record_save([shelf_record EXCEPT ![i] = 1])
clidb_shelf_synchronize(i, info) ==
  dbm_store(i, info) /\ shelf_record_save([shelf_record EXCEPT ![i] = 2])

\* dbm_delete fails when there is no entry, and the record is not touched.
\* Variant: the record is never touched.
clidb_shelf_delete_EntryOnly(i) ==
  data' = [data EXCEPT ![i] = NoShelf] /\ UNCHANGED <<saved, shelf_record>>
clidb_shelf_delete(i) ==
  IF data[i] = NoShelf THEN UNCHANGED <<data, saved, shelf_record>>
  ELSE /\ data' = [data EXCEPT ![i] = NoShelf]
       /\ shelf_record_save([shelf_record EXCEPT ![i] = 0])

\* What clidb_shelf_record_sort makes of the array.  Variant: the marks of this
\* synchronisation stay.
Sorted_Skips == shelf_record
Sorted == [i \in ShelfNo |-> IF shelf_record[i] = 2 THEN 1 ELSE shelf_record[i]]

clidb_shelf_exists(i) == shelf_record[i] > 0
clidb_shelf_not_syncs(i) == shelf_record[i] = 1

-----------------------------------------------------------------------------
(* The end of a run: the process exits and only the file is left.          *)

Exit(un) ==
  /\ pc' = "out"
  /\ shelf_record' = [i \in ShelfNo |-> 0]
  /\ inbox' = <<>>
  /\ shelves_all' = 0 /\ shelf_cnt' = 0 /\ code' = 0
  /\ quiet' = TRUE
  /\ unsettled' = un

\* The process is killed, or quits, between two handlers.
End ==
  /\ pc # "out"
  /\ pc = "in" \/ faults
  /\ Exit(\/ pc \in {"rows", "point", "pointed", "sort"}
          \/ pc \in {"count", "list"} /\ unsettled)
  /\ UNCHANGED <<remote, disk>>

\* It is killed between the entry's write and the record's.
EndInStore(i, info) ==
  faults /\ dbm_store(i, info) /\ UNCHANGED saved /\ Exit(pc # "in")
EndInDelete(i) ==
  /\ faults /\ data[i] # NoShelf
  /\ data' = [data EXCEPT ![i] = NoShelf] /\ UNCHANGED saved
  /\ Exit(pc # "in")

-----------------------------------------------------------------------------
(* client_shelves_info_sync, one action per exchange with the server.      *)

\* After the account is verified clidb_init reads the record.
clidb_init ==
  /\ pc = "out"
  /\ shelf_record' = saved
  /\ pc' = "count"
  /\ UNCHANGED <<remote, disk, inbox, shelves_all, shelf_cnt, code, quiet, unsettled>>

\* A count that fails leaves the old one, and the caller goes on.
client_shelves_count_sync(from, to) ==
  /\ pc = from
  /\ pc' = to
  /\ \/ shelves_all' = Cardinality(InUse)
     \/ faults /\ UNCHANGED shelves_all
  /\ UNCHANGED <<remote, disk, shelf_record, inbox, shelf_cnt, code, quiet, unsettled>>

\* srvdb_shelf_find with code NON_SENSE_INT, in the order of the numbers, and
\* with -code.
Listings ==
  {s \in [1..Cardinality(InUse) -> InUse] :
     /\ Range(s) = InUse
     /\ \A j, k \in DOMAIN s : j < k => s[j] < s[k]}
ListAnswer(s) == Append([k \in DOMAIN s |-> Row(s[k])], Note("r_find_end"))
PointedAnswer(i) ==
  (IF remote[i] = NoShelf THEN <<>> ELSE <<Row(i)>>) \o <<Note("r_find_end")>>

RequestList ==
  /\ pc = "list"
  /\ pc' = "rows"
  /\ \/ \E s \in Listings : inbox' = inbox \o ListAnswer(s)
     \/ faults /\ inbox' = Append(inbox, Note("r_failed"))
  /\ UNCHANGED <<remote, disk, shelf_record, shelves_all, shelf_cnt, code, quiet, unsettled>>

SynchronizeRow(msg, next) ==
  \/ /\ clidb_shelf_synchronize(msg.code, msg.info)
     /\ shelf_cnt' = shelf_cnt + 1
     /\ inbox' = Tail(inbox)
     /\ pc' = next
     /\ UNCHANGED <<remote, shelves_all, code, quiet, unsettled>>
  \/ EndInStore(msg.code, msg.info) /\ UNCHANGED remote

Skip(next) ==
  /\ inbox' = Tail(inbox)
  /\ pc' = next
  /\ UNCHANGED <<remote, disk, shelf_record, shelves_all, shelf_cnt, code, quiet>>

\* The loop ends with r_find_end only: after r_failed it waits for more.
ReceiveRow ==
  /\ pc = "rows" /\ inbox # <<>>
  /\ LET msg == Head(inbox)
     IN  \/ msg.response = "r_success" /\ SynchronizeRow(msg, "rows")
         \/ msg.response = "r_failed" /\ Skip("rows") /\ UNCHANGED unsettled
         \/ msg.response = "r_find_end" /\ Skip("point") /\ UNCHANGED unsettled

\* recv's timeout: the synchronisation fails and the program exits.
ReceiveNothing ==
  /\ pc \in {"rows", "pointed"} /\ inbox = <<>>
  /\ Exit(TRUE)
  /\ UNCHANGED <<remote, disk>>

\* The next shelf of the second loop that was not synchronised.
Unsynced == {i \in ShelfNo : i > code /\ clidb_shelf_not_syncs(i)}

RequestPointed ==
  /\ pc = "point"
  /\ \/ /\ Unsynced = {}
        /\ pc' = "sort"
        /\ UNCHANGED <<inbox, code>>
     \/ \E i \in Unsynced :
          /\ \A j \in Unsynced : i <= j
          /\ code' = i
          /\ pc' = "pointed"
          /\ \/ inbox' = inbox \o PointedAnswer(i)
             \/ faults /\ inbox' = Append(inbox, Note("r_failed"))
  /\ UNCHANGED <<remote, disk, shelf_record, shelves_all, shelf_cnt, quiet, unsettled>>

\* One message is read; a row's r_find_end stays in the stream.
ReceivePointed ==
  /\ pc = "pointed" /\ inbox # <<>>
  /\ LET msg == Head(inbox)
     IN  \/ msg.response = "r_success" /\ SynchronizeRow(msg, "point")
         \/ msg.response = "r_failed" /\ Skip("point") /\ unsettled' = TRUE
         \/ /\ msg.response = "r_find_end" /\ data[code] # NoShelf
            /\ clidb_shelf_delete(code)
            /\ inbox' = Tail(inbox)
            /\ pc' = "point"
            /\ UNCHANGED <<remote, shelves_all, shelf_cnt, code, quiet, unsettled>>
         \/ msg.response = "r_find_end" /\ EndInDelete(code) /\ UNCHANGED remote
         \/ /\ msg.response = "r_find_end" /\ data[code] = NoShelf
            /\ Exit(TRUE)
            /\ UNCHANGED <<remote, disk>>

\* clidb_shelf_record_sort settles and saves the marks, then the number of
\* shelves synchronised is compared with the server's count.
Conclude ==
  /\ pc = "sort"
  /\ \/ /\ shelf_cnt = shelves_all
        /\ shelf_record_save(Sorted)
        /\ pc' = "books"
        /\ UNCHANGED <<remote, data, inbox, shelves_all, shelf_cnt, code, quiet, unsettled>>
     \/ /\ shelf_cnt # shelves_all
        /\ saved' = Sorted
        /\ Exit(FALSE)
        /\ UNCHANGED <<remote, data>>

\* The books are counted.  An unread r_find_end is taken for the answer, and
\* the program exits.
client_books_count_sync ==
  /\ pc = "books"
  /\ \/ /\ inbox = <<>>
        /\ pc' = "in"
        /\ shelf_cnt' = 0 /\ code' = 0
        /\ UNCHANGED <<remote, disk, shelf_record, inbox, shelves_all, quiet, unsettled>>
     \/ /\ inbox # <<>> \/ faults
        /\ Exit(FALSE)
        /\ UNCHANGED <<remote, disk>>

-----------------------------------------------------------------------------
(* The session.  A page that changes shelves ends with a count.            *)

FreeNo == {i \in ShelfNo \ InUse : \A j \in ShelfNo \ InUse : i <= j}

\* Variant: the shelves are not counted again.
Paged_NoCount == pc' = "in" /\ UNCHANGED <<inbox, shelves_all, shelf_cnt, code, quiet, unsettled>>
Paged == pc' = "counting" /\ UNCHANGED <<inbox, shelves_all, shelf_cnt, code, quiet, unsettled>>

\* The answer r_failed does not tell whether the statement took effect; the
\* user may also leave the page without building.
client_build_shelf ==
  /\ pc = "in"
  /\ \/ \E i \in FreeNo, info \in ShelfInfo :
          /\ remote' = [remote EXCEPT ![i] = info]
          /\ \/ clidb_shelf_insert(i, info) /\ Paged
             \/ EndInStore(i, info)
             \/ faults /\ UNCHANGED <<disk, shelf_record>> /\ Paged
     \/ UNCHANGED <<remote, disk, shelf_record>> /\ Paged

client_shelf_delete_itself(i) ==
  \/ /\ remote' = [remote EXCEPT ![i] = NoShelf]
     /\ \/ clidb_shelf_delete(i) /\ Paged
        \/ faults /\ UNCHANGED <<disk, shelf_record>> /\ Paged
        \/ EndInDelete(i)
  \/ faults /\ UNCHANGED <<remote, disk, shelf_record>> /\ Paged

\* The browsing page opens when the server has shelves, shows the first one of
\* the copy (clidb_shelf_realno looks for it in a loop without an end), and
\* may remove one.
display_lookthrough_page ==
  /\ pc = "in" /\ shelves_all # 0
  /\ \A i \in ShelfNo : clidb_shelf_exists(i) => data[i] # NoShelf
  /\ \/ /\ \A i \in ShelfNo : ~clidb_shelf_exists(i)
        /\ pc' = "scanning"
        /\ UNCHANGED <<remote, disk, memory, quiet, unsettled>>
     \/ \E i \in ShelfNo : clidb_shelf_exists(i) /\ client_shelf_delete_itself(i)
     \/ /\ \E i \in ShelfNo : clidb_shelf_exists(i)
        /\ Paged /\ UNCHANGED <<remote, disk, shelf_record>>

\* Another client of the same user builds or removes a shelf.
OtherClient ==
  /\ \/ \E i \in FreeNo, info \in ShelfInfo : remote' = [remote EXCEPT ![i] = info]
     \/ \E i \in InUse : remote' = [remote EXCEPT ![i] = NoShelf]
  /\ quiet' = (pc = "out")
  /\ UNCHANGED <<disk, memory, pc, unsettled>>

-----------------------------------------------------------------------------
Init ==
  /\ faults \in BOOLEAN
  /\ remote = [i \in ShelfNo |-> NoShelf]
  /\ data = [i \in ShelfNo |-> NoShelf]
  /\ saved = [i \in ShelfNo |-> 0]
  /\ shelf_record = [i \in ShelfNo |-> 0]
  /\ pc = "out"
  /\ inbox = <<>>
  /\ shelves_all = 0 /\ shelf_cnt = 0 /\ code = 0
  /\ quiet = TRUE
  /\ unsettled = FALSE

\* The steps of a login after clidb_init.
Sync ==
  \/ client_shelves_count_sync("count", "list")
  \/ RequestList \/ ReceiveRow \/ ReceiveNothing
  \/ RequestPointed \/ ReceivePointed
  \/ Conclude
  \/ client_books_count_sync

Next ==
  /\ \/ clidb_init \/ Sync
     \/ client_build_shelf \/ display_lookthrough_page
     \/ client_shelves_count_sync("counting", "in")
     \/ End
     \/ OtherClient
  /\ UNCHANGED faults

\* The synchronisation has no user in it: it goes on by itself.
Spec == Init /\ [][Next]_vars /\ WF_vars(Sync /\ UNCHANGED faults)

-----------------------------------------------------------------------------
\* The variables are of their types; no shelf is synchronised twice in a login,
\* and the unread answers are bounded.
TypeOK ==
  /\ remote \in [ShelfNo -> ShelfInfo \cup {NoShelf}]
  /\ data \in [ShelfNo -> ShelfInfo \cup {NoShelf}]
  /\ saved \in [ShelfNo -> 0..2] /\ shelf_record \in [ShelfNo -> 0..2]
  /\ shelves_all \in 0..MAX_SHELF_NUM
  /\ shelf_cnt \in 0..MAX_SHELF_NUM
  /\ Len(inbox) <= MAX_SHELF_NUM + 1
  /\ code \in 0..MAX_SHELF_NUM
  /\ quiet \in BOOLEAN /\ unsettled \in BOOLEAN

\* A login that succeeds has every shelf of the server in the copy, as the
\* server has it, whatever was left in the file by earlier runs that ended
\* anywhere, unless another client interfered meanwhile.
CopyComplete ==
  pc = "books" /\ quiet =>
    \A i \in InUse : clidb_shelf_exists(i) /\ data[i] = remote[i]

\* One synchronisation that is not cut off is enough: the login after it
\* leaves no shelf in the copy that the server does not have.
SettledAfterFullSync ==
  pc = "books" /\ quiet /\ ~unsettled =>
    \A i \in ShelfNo : clidb_shelf_exists(i) => i \in InUse

\* Without faults and interference the copy follows the session: on the main page
\* it holds the server's shelves and no others, and the count shown is theirs,
\* whatever was built and removed since the login.
CopyExact ==
  ~faults /\ quiet /\ pc = "in" =>
    /\ data = remote
    /\ \A i \in ShelfNo : clidb_shelf_exists(i) <=> i \in InUse
    /\ shelves_all = Cardinality(InUse)

\* As long as no process ends between the two writes, the record names shelves
\* that are stored in the file, whatever the other clients do.
RecordStored == ~faults => \A i \in ShelfNo : saved[i] > 0 => data[i] # NoShelf

\* The shelves the list did not confirm are asked for again ("未同步数据再次请求"):
\* a login that succeeds leaves none that the server does not have.
NoGhosts ==
  pc = "books" /\ quiet =>
    \A i \in ShelfNo : clidb_shelf_exists(i) => i \in InUse

\* The record names the shelves stored in the file ("记录存入数据库的书架编号").
RecordNamesStored ==
  \A i \in ShelfNo : saved[i] > 0 => data[i] # NoShelf

\* The browsing page is not entered without a shelf to show ("判断书架是否为空").
BrowseFindsShelf == pc # "scanning"

\* Without faults and without interference every login succeeds, whatever the
\* other clients did before it.
LoginSucceeds == (pc = "count" /\ ~faults) ~> (pc = "in" \/ ~quiet)
=============================================================================
