-------------------------- MODULE ShelfSyncProofs ---------------------------
(***************************************************************************)
(* The client's copy of the shelves, for every number of shelves: a login  *)
(* that succeeds has every shelf, and without faults the copy stays exact. *)
(***************************************************************************)
EXTENDS ShelfSync, FiniteSetTheorems, TLAPS

Info == ShelfInfo \cup {NoShelf}
Message ==
  [response : {"r_success"}, code : ShelfNo, info : ShelfInfo]
    \cup [response : {"r_failed", "r_find_end"}, code : {0}, info : {NoShelf}]

Before == {"out", "count", "list"}
During == {"rows", "point", "pointed", "sort"}
After == {"books", "in", "counting", "scanning"}

\* The parts of the types that the argument needs.
Shape ==
  /\ remote \in [ShelfNo -> Info] /\ data \in [ShelfNo -> Info]
  /\ saved \in [ShelfNo -> 0..2] /\ shelf_record \in [ShelfNo -> 0..2]
  /\ pc \in Before \cup During \cup After
  /\ inbox \in Seq(Message)
  /\ code \in 0..MAX_SHELF_NUM

\* The array and its saved form agree while the client runs.
Loaded == pc # "out" => shelf_record = saved

\* A login that starts settled starts without marks, and ends without marks.
NoMarks ==
  (pc \in Before /\ ~unsettled) \/ pc \in After => \A i \in ShelfNo : saved[i] # 2

\* Where a login stands in the stream of answers.
Stream ==
  /\ pc \in Before => inbox = <<>>
  /\ pc \in Before \cup {"rows"} => code = 0
  /\ pc = "rows" => \A k \in 1..Len(inbox) : inbox[k].response = "r_find_end" => k = Len(inbox)
  /\ pc = "pointed" => code \in ShelfNo /\ saved[code] = 1
  /\ pc \in {"point", "pointed"} /\ quiet =>
       \A k \in 1..Len(inbox) : inbox[k].response # "r_success"

\* A shelf of the server is in the copy, or its row is on the way.
Done(i) == saved[i] = 2 /\ data[i] = remote[i]
Listed ==
  pc = "rows" /\ quiet =>
    /\ \A k \in 1..Len(inbox) :
         inbox[k].response = "r_success" => inbox[k].info = remote[inbox[k].code]
    /\ \A k \in 1..Len(inbox) : inbox[k].response = "r_find_end" =>
         \A i \in InUse : Done(i) \/ \E j \in 1..(k - 1) : inbox[j] = Row(i)

\* Behind the list every shelf of the server is synchronised, and nothing that
\* is marked so is anything else.
Confirmed ==
  /\ pc \in {"point", "pointed", "sort"} /\ quiet => \A i \in InUse : Done(i)
  /\ pc \in During /\ quiet /\ ~unsettled => \A i \in ShelfNo : saved[i] = 2 => i \in InUse

\* The shelves asked for one by one are settled as they are passed.
Asked ==
  quiet /\ ~unsettled =>
    /\ pc = "point" => \A i \in 1..code : saved[i] # 1
    /\ pc = "pointed" => \A i \in 1..(code - 1) : saved[i] # 1
    /\ pc = "sort" => \A i \in ShelfNo : saved[i] # 1

\* What faults alone bring about.
Unharmed ==
  ~faults =>
    /\ ~unsettled
    /\ \A i \in ShelfNo : saved[i] > 0 <=> data[i] # NoShelf
    /\ \A k \in 1..Len(inbox) : inbox[k].response # "r_failed"
    /\ pc = "pointed" => inbox # <<>>
    /\ pc = "rows" => \E k \in 1..Len(inbox) : inbox[k].response = "r_find_end"
    /\ quiet /\ pc \notin {"out", "count", "counting"} => shelves_all = Cardinality(InUse)
    /\ quiet /\ pc \in After => data = remote

SyncInv ==
  /\ Shape /\ Loaded /\ NoMarks /\ Stream /\ Listed /\ Confirmed /\ Asked /\ Unharmed
  /\ CopyComplete /\ SettledAfterFullSync

-----------------------------------------------------------------------------
(* Sequences.                                                              *)

LEMMA JoinFacts ==
  ASSUME NEW T, NEW s \in Seq(T), NEW t \in Seq(T)
  PROVE  /\ s \o t \in Seq(T) /\ Len(s \o t) = Len(s) + Len(t)
         /\ \A i \in 1..Len(s) + Len(t) :
              (s \o t)[i] = IF i <= Len(s) THEN s[i] ELSE t[i - Len(s)]
OBVIOUS

LEMMA JoinNothing ==
  ASSUME NEW T, NEW s \in Seq(T)
  PROVE  s \o <<>> = s /\ <<>> \o s = s
OBVIOUS

LEMMA AppendJoins ==
  ASSUME NEW T, NEW s \in Seq(T), NEW x \in T
  PROVE  Append(s, x) = s \o <<x>>
OBVIOUS

LEMMA TailFacts ==
  ASSUME NEW T, NEW s \in Seq(T), s # <<>>
  PROVE  /\ Head(s) = s[1] /\ Head(s) \in T /\ Len(s) \in Nat \ {0}
         /\ Tail(s) \in Seq(T) /\ Len(Tail(s)) = Len(s) - 1
         /\ \A i \in 1..Len(Tail(s)) : Tail(s)[i] = s[i + 1]
OBVIOUS

-----------------------------------------------------------------------------
(* Where every behaviour starts, and what every end of a run leaves.       *)

LEMMA SyncInit == Init => SyncInv
<1> SUFFICES ASSUME Init PROVE SyncInv
  OBVIOUS
<1>1. MAX_SHELF_NUM \in Nat
  BY CapacityAssumption
<1>2. Shape
  BY <1>1 DEF Init, Shape, Info, Before
<1>3. pc = "out" /\ inbox = <<>> /\ code = 0 /\ unsettled = FALSE
  BY DEF Init
<1>4. Loaded /\ Stream /\ Listed /\ Confirmed /\ Asked /\ CopyComplete /\ SettledAfterFullSync
  BY <1>3 DEF Loaded, Stream, Listed, Confirmed, Asked, CopyComplete, SettledAfterFullSync,
              Before, During
<1>5. NoMarks
  BY DEF Init, NoMarks
<1>6. Unharmed
  <2>1. \A i \in ShelfNo : saved[i] > 0 <=> data[i] # NoShelf
    BY DEF Init
  <2>2. Len(inbox) = 0
    BY <1>3
  <2>. QED
    BY <1>3, <2>1, <2>2 DEF Unharmed, After
<1>. QED
  BY <1>2, <1>4, <1>5, <1>6 DEF SyncInv

LEMMA ExitInv ==
  ASSUME SyncInv, NEW un \in BOOLEAN, Exit(un), remote' = remote \/ remote' \in [ShelfNo -> Info],
         faults' = faults,
         data' \in [ShelfNo -> Info], saved' \in [ShelfNo -> 0..2],
         ~un => \A i \in ShelfNo : saved'[i] # 2,
         ~faults => ~un /\ \A i \in ShelfNo : saved'[i] > 0 <=> data'[i] # NoShelf
  PROVE  SyncInv'
<1>1. MAX_SHELF_NUM \in Nat
  BY CapacityAssumption
<1>2. Shape'
  BY <1>1 DEF Exit, SyncInv, Shape, Before
<1>3. pc' = "out" /\ inbox' = <<>> /\ code' = 0 /\ unsettled' = un
  BY DEF Exit
<1>4. (Loaded /\ Stream /\ Listed /\ Confirmed /\ Asked /\ CopyComplete /\ SettledAfterFullSync)'
  BY <1>3 DEF Loaded, Stream, Listed, Confirmed, Asked, CopyComplete, SettledAfterFullSync,
              Before, During
<1>5. NoMarks'
  BY <1>3 DEF NoMarks, After
<1>6. Unharmed'
  <2>2. Len(inbox') = 0
    BY <1>3
  <2>. QED
    BY <1>3, <2>2 DEF Unharmed, After
<1>. QED
  BY <1>2, <1>4, <1>5, <1>6 DEF SyncInv

-----------------------------------------------------------------------------
(* One lemma per handler.                                                  *)

LEMMA InitFileInv ==
  ASSUME SyncInv, clidb_init, UNCHANGED faults
  PROVE  SyncInv'
<1> USE DEF Before, During, After
<1>1. /\ pc = "out" /\ pc' = "count" /\ shelf_record' = saved
      /\ UNCHANGED <<remote, data, saved, inbox, shelves_all, code, quiet, unsettled, faults>>
  BY DEF clidb_init, disk
<1>2. Shape' /\ Loaded' /\ NoMarks'
  BY <1>1 DEF SyncInv, Shape, Loaded, NoMarks
<1>3. Stream' /\ Listed' /\ Confirmed' /\ Asked' /\ CopyComplete' /\ SettledAfterFullSync'
  BY <1>1 DEF SyncInv, Stream, Listed, Confirmed, Asked, CopyComplete, SettledAfterFullSync
<1>4. Unharmed'
  BY <1>1 DEF SyncInv, Unharmed
<1>. QED
  BY <1>2, <1>3, <1>4 DEF SyncInv

LEMMA CountInv ==
  ASSUME SyncInv, NEW from, NEW to, client_shelves_count_sync(from, to), UNCHANGED faults,
         \/ from = "count" /\ to = "list"
         \/ from = "counting" /\ to = "in"
  PROVE  SyncInv'
<1> USE DEF Before, During, After
<1>1. /\ pc = from /\ pc' = to
      /\ UNCHANGED <<remote, data, saved, shelf_record, inbox, code, quiet, unsettled, faults>>
  BY DEF client_shelves_count_sync, disk
<1>2. Shape' /\ Loaded' /\ NoMarks'
  BY <1>1 DEF SyncInv, Shape, Loaded, NoMarks
<1>3. Stream' /\ Listed' /\ Confirmed' /\ Asked' /\ CopyComplete' /\ SettledAfterFullSync'
  BY <1>1 DEF SyncInv, Stream, Listed, Confirmed, Asked, CopyComplete, SettledAfterFullSync
<1>4. InUse' = InUse
  BY <1>1 DEF InUse
<1>5. ~faults => shelves_all' = Cardinality(InUse')
  BY <1>4 DEF client_shelves_count_sync
<1>6. Unharmed'
  BY <1>1, <1>5 DEF SyncInv, Unharmed
<1>. QED
  BY <1>2, <1>3, <1>6 DEF SyncInv

\* A box that answers the list: rows of the server's shelves, all of them before
\* the end.
ListedBox(box) ==
  /\ box \in Seq(Message)
  /\ \A k \in 1..Len(box) :
       /\ box[k].response = "r_find_end" => k = Len(box)
       /\ box[k].response = "r_success" => box[k].info = remote[box[k].code]
       /\ box[k].response = "r_find_end" =>
            \A i \in InUse : \E j \in 1..(k - 1) : box[j] = Row(i)
  /\ ~faults => /\ \A k \in 1..Len(box) : box[k].response # "r_failed"
                /\ \E k \in 1..Len(box) : box[k].response = "r_find_end"

LEMMA ListAnswerBox ==
  ASSUME Shape, NEW s \in Listings
  PROVE  ListedBox(ListAnswer(s))
<1> DEFINE n == Cardinality(InUse)
           rows == [k \in DOMAIN s |-> Row(s[k])]
           end == Note("r_find_end")
           box == Append(rows, end)
<1>1. \A i \in InUse : Row(i) \in Message /\ Row(i).response = "r_success"
                      /\ Row(i).info = remote[Row(i).code]
  BY DEF InUse, Row, Message, Shape, Info
<1>2. end \in Message /\ end.response = "r_find_end"
  BY DEF Note, Message
<1>3. /\ s \in [1..n -> InUse]
      /\ \A i \in InUse : \E k \in 1..n : s[k] = i
  BY DEF Listings, Range
<1>4. InUse \subseteq ShelfNo /\ n \in Nat
  <2>1. IsFiniteSet(ShelfNo)
    BY CapacityAssumption, FS_Interval DEF ShelfNo
  <2>. QED
    BY <2>1, FS_Subset, FS_CardinalityType DEF InUse
<1> HIDE DEF n, end
<1>5. rows \in Seq(Message) /\ Len(rows) = n /\ \A k \in 1..n : rows[k] = Row(s[k]) /\ s[k] \in InUse
  <2>1. rows = [k \in 1..n |-> Row(s[k])]
    BY <1>3
  <2>2. \A k \in 1..n : s[k] \in InUse /\ Row(s[k]) \in Message
    BY <1>1, <1>3
  <2>. QED
    BY <1>4, <2>1, <2>2
<1> HIDE DEF rows
<1>6. /\ box \in Seq(Message) /\ Len(box) = n + 1
      /\ box[n + 1] = end
      /\ \A k \in 1..n : box[k] = Row(s[k])
  BY <1>2, <1>4, <1>5
<1> HIDE DEF box
<1>7. \A k \in 1..Len(box) : k = n + 1 \/ (k \in 1..n /\ box[k].response = "r_success"
                                           /\ box[k].info = remote[box[k].code])
  BY <1>1, <1>4, <1>5, <1>6
<1>8. \A i \in InUse : \E j \in 1..n : box[j] = Row(i)
  BY <1>3, <1>6
<1>9. ListedBox(box)
  BY <1>2, <1>4, <1>6, <1>7, <1>8 DEF ListedBox
<1>. QED
  BY <1>9 DEF ListAnswer, box, rows, end

LEMMA RequestListInv ==
  ASSUME SyncInv, RequestList, UNCHANGED faults
  PROVE  SyncInv'
<1> USE DEF Before, During, After
<1>1. /\ pc = "list" /\ pc' = "rows" /\ inbox = <<>> /\ code = 0
      /\ UNCHANGED <<remote, data, saved, shelf_record, shelves_all, code, quiet, unsettled, faults>>
  BY DEF RequestList, disk, SyncInv, Stream
<1>2. InUse' = InUse /\ \A i : Row(i)' = Row(i)
  BY <1>1 DEF InUse, Row
<1>3. ListedBox(inbox')
  <2>1. CASE faults /\ inbox' = Append(inbox, Note("r_failed"))
    <3>1. inbox' = <<Note("r_failed")>> /\ Note("r_failed") \in Message
      BY <1>1, <2>1 DEF Note, Message
    <3>2. Note("r_failed").response = "r_failed"
      BY DEF Note
    <3>3. /\ inbox' \in Seq(Message) /\ Len(inbox') = 1
          /\ \A k \in 1..Len(inbox') : inbox'[k].response = "r_failed"
      BY <3>1, <3>2
    <3>. QED
      BY <2>1, <3>3 DEF ListedBox
  <2>2. ASSUME NEW s \in Listings, inbox' = inbox \o ListAnswer(s)
        PROVE  ListedBox(inbox')
    <3>1. ListAnswer(s) \in Seq(Message) /\ ListedBox(ListAnswer(s))
      BY ListAnswerBox DEF SyncInv, ListedBox
    <3>2. inbox' = ListAnswer(s)
      BY <1>1, <2>2, <3>1, JoinNothing
    <3>. QED
      BY <3>1, <3>2
  <2>. QED
    BY <2>1, <2>2 DEF RequestList
<1>4. Shape' /\ Loaded' /\ NoMarks' /\ Confirmed'
  BY <1>1, <1>2, <1>3 DEF SyncInv, Shape, Loaded, NoMarks, Confirmed, ListedBox
<1>5. Stream' /\ Listed' /\ Asked' /\ CopyComplete' /\ SettledAfterFullSync'
  BY <1>1, <1>2, <1>3 DEF SyncInv, Stream, Listed, Asked, CopyComplete, SettledAfterFullSync,
                          ListedBox
<1>6. Unharmed'
  BY <1>1, <1>2, <1>3 DEF SyncInv, Unharmed, ListedBox
<1>. QED
  BY <1>4, <1>5, <1>6 DEF SyncInv

\* What is left of the stream when its first message is read.
LEMMA TailBox ==
  ASSUME Shape, inbox # <<>>, inbox' = Tail(inbox)
  PROVE  /\ Head(inbox) = inbox[1] /\ Head(inbox) \in Message
         /\ inbox' \in Seq(Message) /\ Len(inbox) \in Nat \ {0} /\ Len(inbox') = Len(inbox) - 1
         /\ \A k \in 1..Len(inbox') : inbox'[k] = inbox[k + 1] /\ k + 1 \in 1..Len(inbox)
  BY TailFacts DEF Shape

\* A message is read.
Read == inbox # <<>> /\ inbox' = Tail(inbox)

\* The end of the list stays the last message.
LEMMA EndStaysLast ==
  ASSUME SyncInv, pc = "rows", Read
  PROVE  \A k \in 1..Len(inbox') : inbox'[k].response = "r_find_end" => k = Len(inbox')
<1>1. /\ Len(inbox) \in Nat \ {0} /\ Len(inbox') = Len(inbox) - 1
      /\ \A k \in 1..Len(inbox') : inbox'[k] = inbox[k + 1] /\ k + 1 \in 1..Len(inbox)
  BY TailBox DEF SyncInv, Read
<1>2. \A k \in 1..Len(inbox) : inbox[k].response = "r_find_end" => k = Len(inbox)
  BY DEF SyncInv, Stream
<1> SUFFICES ASSUME NEW k \in 1..Len(inbox'), inbox'[k].response = "r_find_end"
             PROVE  k = Len(inbox')
  OBVIOUS
<1>3. k + 1 = Len(inbox)
  BY <1>1, <1>2, Zenon
<1>4. Len(inbox') = Len(inbox) - 1
  BY <1>1
<1>. QED
  BY <1>3, <1>4

\* A row is stored and marked.
LEMMA RowStored ==
  ASSUME Shape, NEW msg \in Message, msg.response = "r_success",
         clidb_shelf_synchronize(msg.code, msg.info), UNCHANGED remote
  PROVE  /\ msg.code \in ShelfNo /\ msg.info \in ShelfInfo /\ msg.info # NoShelf
         /\ shelf_record' = saved' /\ saved' = [shelf_record EXCEPT ![msg.code] = 2]
         /\ saved' \in [ShelfNo -> 0..2]
         /\ data' = [data EXCEPT ![msg.code] = msg.info] /\ data' \in [ShelfNo -> Info]
<1>1. msg.code \in ShelfNo /\ msg.info \in ShelfInfo
  BY DEF Message
<1>. QED
  BY <1>1, SyncAssumption
     DEF Shape, Info, clidb_shelf_synchronize, dbm_store, shelf_record_save

\* The process ends inside the store of an entry, or inside its removal.
LEMMA EndInStoreInv ==
  ASSUME SyncInv, NEW i \in ShelfNo, NEW info \in ShelfInfo, EndInStore(i, info), UNCHANGED faults,
         UNCHANGED remote \/ remote' \in [ShelfNo -> Info],
         pc = "in" \/ pc \in During
  PROVE  SyncInv'
<1>1. /\ faults /\ Exit(pc # "in") /\ saved' = saved
      /\ data' = [data EXCEPT ![i] = info]
  BY DEF EndInStore, dbm_store
<1>2. data' \in [ShelfNo -> Info] /\ saved' \in [ShelfNo -> 0..2]
  BY <1>1 DEF SyncInv, Shape, Info
<1>3. pc = "in" => \A j \in ShelfNo : saved'[j] # 2
  BY <1>1 DEF SyncInv, NoMarks, After
<1>. QED
  BY <1>1, <1>2, <1>3, ExitInv, Zenon

LEMMA EndInDeleteInv ==
  ASSUME SyncInv, NEW i \in ShelfNo, EndInDelete(i), UNCHANGED faults,
         UNCHANGED remote \/ remote' \in [ShelfNo -> Info],
         pc = "in" \/ pc \in During
  PROVE  SyncInv'
<1>1. /\ faults /\ Exit(pc # "in") /\ saved' = saved
      /\ data' = [data EXCEPT ![i] = NoShelf]
  BY DEF EndInDelete
<1>2. data' \in [ShelfNo -> Info] /\ saved' \in [ShelfNo -> 0..2]
  BY <1>1 DEF SyncInv, Shape, Info
<1>3. pc = "in" => \A j \in ShelfNo : saved'[j] # 2
  BY <1>1 DEF SyncInv, NoMarks, After
<1>. QED
  BY <1>1, <1>2, <1>3, ExitInv, Zenon

LEMMA ReceiveRowInv ==
  ASSUME SyncInv, ReceiveRow, UNCHANGED faults
  PROVE  SyncInv'
<1> USE DEF Before, During, After
<1> DEFINE msg == Head(inbox)
<1>1. pc = "rows" /\ inbox # <<>> /\ Shape /\ shelf_record = saved /\ code = 0
  BY DEF ReceiveRow, SyncInv, Loaded, Stream
<1>2. msg \in Message /\ msg = inbox[1] /\ Len(inbox) \in Nat \ {0}
  BY <1>1 DEF Shape
<1>3. ASSUME msg.response = "r_success", EndInStore(msg.code, msg.info), UNCHANGED remote
      PROVE  SyncInv'
  <2>1. msg.code \in ShelfNo /\ msg.info \in ShelfInfo
    BY <1>2, <1>3 DEF Message
  <2>. QED
    BY <1>1, <1>3, <2>1, EndInStoreInv
<1>4. ASSUME msg.response = "r_success", clidb_shelf_synchronize(msg.code, msg.info),
             inbox' = Tail(inbox), pc' = "rows",
             UNCHANGED <<remote, shelves_all, code, quiet, unsettled>>
      PROVE  SyncInv'
  <2>1. InUse' = InUse /\ \A i : Row(i)' = Row(i)
    BY <1>4 DEF InUse, Row
  <2>2. /\ inbox' \in Seq(Message) /\ Len(inbox') = Len(inbox) - 1
        /\ \A k \in 1..Len(inbox') : inbox'[k] = inbox[k + 1] /\ k + 1 \in 1..Len(inbox)
    BY <1>1, <1>4, TailBox
  <2>3. /\ msg.code \in ShelfNo /\ msg.info \in ShelfInfo /\ msg.info # NoShelf
        /\ shelf_record' = saved' /\ saved' = [saved EXCEPT ![msg.code] = 2]
        /\ saved' \in [ShelfNo -> 0..2]
        /\ data' = [data EXCEPT ![msg.code] = msg.info] /\ data' \in [ShelfNo -> Info]
    BY <1>1, <1>2, <1>4, RowStored
  <2>a. msg = inbox[1] /\ msg.response = "r_success"
    BY <1>2, <1>4
  <2> HIDE DEF msg
  <2>4. Shape' /\ Loaded' /\ NoMarks'
    BY <1>1, <1>4, <2>2, <2>3 DEF Shape, Loaded, NoMarks
  <2>5. Stream' /\ Asked' /\ CopyComplete' /\ SettledAfterFullSync'
    <3>1. \A k \in 1..Len(inbox') : inbox'[k].response = "r_find_end" => k = Len(inbox')
      <4>1. Read
        BY <1>1, <1>4 DEF Read
      <4>. QED
        BY <1>1, <4>1, EndStaysLast
    <3>. QED
      BY <1>1, <1>4, <3>1 DEF Stream, Asked, CopyComplete, SettledAfterFullSync
  <2>6. quiet => msg.info = remote[msg.code]
    BY <1>1, <1>2, <2>a, SMTT(30) DEF SyncInv, Listed
  <2>7. Listed'
    <3> SUFFICES ASSUME quiet
                 PROVE  /\ \A k \in 1..Len(inbox') :
                             inbox'[k].response = "r_success" => inbox'[k].info = remote[inbox'[k].code]
                        /\ \A k \in 1..Len(inbox') : inbox'[k].response = "r_find_end" =>
                             \A i \in InUse : (saved'[i] = 2 /\ data'[i] = remote[i])
                                            \/ \E j \in 1..(k - 1) : inbox'[j] = Row(i)
      BY <1>4, <2>1 DEF Listed, Done
    <3>1. ASSUME NEW k \in 1..Len(inbox'), inbox'[k].response = "r_find_end", NEW i \in InUse
          PROVE  (saved'[i] = 2 /\ data'[i] = remote[i]) \/ \E j \in 1..(k - 1) : inbox'[j] = Row(i)
      <4>1. i \in ShelfNo
        BY DEF InUse
      <4>2. CASE Done(i)
        BY <1>1, <2>3, <2>6, <4>1, <4>2 DEF Done, Shape
      <4>3. ASSUME NEW j \in 1..k, inbox[j] = Row(i)
            PROVE  (saved'[i] = 2 /\ data'[i] = remote[i]) \/ \E m \in 1..(k - 1) : inbox'[m] = Row(i)
        <5>1. CASE j = 1
          <6>1. msg.code = i /\ msg.info = remote[i]
            BY <2>a, <4>3, <5>1 DEF Row
          <6>. QED
            BY <1>1, <2>3, <4>1, <6>1 DEF Shape
        <5>2. CASE j # 1
          <6>1. j - 1 \in 1..(k - 1) /\ j - 1 \in 1..Len(inbox') /\ (j - 1) + 1 = j
            BY <5>2, <2>2, <1>2
          <6>2. inbox'[j - 1] = Row(i)
            BY <2>2, <4>3, <6>1
          <6>. QED
            BY <6>1, <6>2
        <5>. QED
          BY <5>1, <5>2
      <4>4. Done(i) \/ \E j \in 1..k : inbox[j] = Row(i)
        <5>1. k + 1 \in 1..Len(inbox) /\ inbox[k + 1].response = "r_find_end" /\ (k + 1) - 1 = k
          BY <2>2, <3>1
        <5>. QED
          BY <1>1, <5>1 DEF SyncInv, Listed
      <4>. QED
        BY <4>2, <4>3, <4>4
    <3>. QED
      BY <1>1, <1>4, <2>2, <3>1, ZenonT(30) DEF SyncInv, Listed
  <2>8. Confirmed'
    BY <1>1, <1>4, <2>1, <2>3, <2>6, ZenonT(30) DEF SyncInv, Confirmed, InUse, Shape
  <2>9. Unharmed'
    <3> SUFFICES ASSUME ~faults PROVE Unharmed'
      BY <1>4, Zenon DEF Unharmed
    <3>1. \A j \in ShelfNo : saved'[j] > 0 <=> data'[j] # NoShelf
      BY <1>1, <2>3 DEF SyncInv, Unharmed, Shape
    <3>2. \E k \in 1..Len(inbox') : inbox'[k].response = "r_find_end"
      <4>1. PICK k \in 1..Len(inbox) : inbox[k].response = "r_find_end"
        BY <1>1 DEF SyncInv, Unharmed
      <4>2. k # 1
        BY <2>a, <4>1
      <4>3. k - 1 \in 1..Len(inbox') /\ (k - 1) + 1 = k
        BY <1>2, <2>2, <4>2
      <4>4. inbox'[k - 1].response = "r_find_end"
        BY <2>2, <4>1, <4>3
      <4>. QED
        BY <4>3, <4>4
    <3>3. \A k \in 1..Len(inbox') : inbox'[k].response # "r_failed"
      BY <2>2 DEF SyncInv, Unharmed
    <3>. QED
      BY <1>1, <1>4, <2>1, <3>1, <3>2, <3>3 DEF SyncInv, Unharmed
  <2>. QED
    BY <2>4, <2>5, <2>7, <2>8, <2>9 DEF SyncInv
<1>5. ASSUME msg.response = "r_failed", Skip("rows"), UNCHANGED unsettled PROVE SyncInv'
  <2>1. /\ inbox' = Tail(inbox) /\ pc' = "rows"
        /\ UNCHANGED <<remote, data, saved, shelf_record, shelves_all, code, quiet, unsettled, faults>>
    BY <1>5 DEF Skip, disk
  <2>2. /\ inbox' \in Seq(Message) /\ Len(inbox') = Len(inbox) - 1
        /\ \A k \in 1..Len(inbox') : inbox'[k] = inbox[k + 1] /\ k + 1 \in 1..Len(inbox)
    BY <1>1, <2>1, TailBox
  <2>3. faults
    BY <1>2, <1>5 DEF SyncInv, Unharmed
  <2>4. InUse' = InUse /\ \A i : Row(i)' = Row(i) /\ Done(i)' = Done(i)
    BY <2>1 DEF InUse, Row, Done
  <2>5. Shape' /\ Loaded' /\ NoMarks' /\ Confirmed' /\ Unharmed'
    BY <1>1, <2>1, <2>2, <2>3, <2>4 DEF SyncInv, Shape, Loaded, NoMarks, Confirmed, Unharmed
  <2>6. Stream' /\ Asked' /\ CopyComplete' /\ SettledAfterFullSync'
    <3>1. \A k \in 1..Len(inbox') : inbox'[k].response = "r_find_end" => k = Len(inbox')
      <4>1. Read
        BY <1>1, <2>1 DEF Read
      <4>. QED
        BY <1>1, <4>1, EndStaysLast
    <3>. QED
      BY <1>1, <2>1, <3>1 DEF Stream, Asked, CopyComplete, SettledAfterFullSync
  <2>7. Listed'
    <3>1. ASSUME quiet, NEW k \in 1..Len(inbox'), inbox'[k].response = "r_find_end", NEW i \in InUse
          PROVE  Done(i) \/ \E j \in 1..(k - 1) : inbox'[j] = Row(i)
      <4>1. k + 1 \in 1..Len(inbox) /\ inbox[k + 1].response = "r_find_end" /\ (k + 1) - 1 = k
        BY <2>2, <3>1
      <4>2. Done(i) \/ \E j \in 1..k : inbox[j] = Row(i)
        BY <1>1, <3>1, <4>1 DEF SyncInv, Listed
      <4>3. ASSUME NEW j \in 1..k, inbox[j] = Row(i) PROVE \E m \in 1..(k - 1) : inbox'[m] = Row(i)
        <5>1. j # 1
          BY <1>2, <1>5, <4>3 DEF Row
        <5>2. j - 1 \in 1..(k - 1) /\ j - 1 \in 1..Len(inbox') /\ (j - 1) + 1 = j
          BY <5>1, <2>2, <1>2
        <5>. QED
          BY <2>2, <4>3, <5>2, Zenon
      <4>. QED
        BY <4>2, <4>3
    <3>2. ASSUME quiet, NEW k \in 1..Len(inbox'), inbox'[k].response = "r_success"
          PROVE  inbox'[k].info = remote[inbox'[k].code]
      BY <1>1, <2>2, <3>2 DEF SyncInv, Listed
    <3>. QED
      BY <2>1, <2>4, <3>1, <3>2 DEF Listed
  <2>. QED
    BY <2>5, <2>6, <2>7 DEF SyncInv
<1>6. ASSUME msg.response = "r_find_end", Skip("point"), UNCHANGED unsettled PROVE SyncInv'
  <2>1. /\ inbox' = Tail(inbox) /\ pc' = "point"
        /\ UNCHANGED <<remote, data, saved, shelf_record, shelves_all, code, quiet, unsettled, faults>>
    BY <1>6 DEF Skip, disk
  <2>2. Len(inbox) = 1
    <3>1. inbox[1].response = "r_find_end" /\ 1 \in 1..Len(inbox)
      BY <1>2, <1>6
    <3>2. \A k \in 1..Len(inbox) : inbox[k].response = "r_find_end" => k = Len(inbox)
      BY <1>1 DEF SyncInv, Stream
    <3>. QED
      BY <3>1, <3>2, ZenonT(30)
  <2>3. inbox' \in Seq(Message) /\ Len(inbox') = 0
    BY <1>1, <2>1, <2>2, TailBox
  <2>4. InUse' = InUse /\ \A i : Done(i)' = Done(i)
    BY <2>1 DEF InUse, Done
  <2>5. quiet => \A i \in InUse : Done(i)
    <3>1. 1 \in 1..Len(inbox) /\ inbox[1].response = "r_find_end" /\ 1..(1 - 1) = {}
      BY <1>2, <1>6, <2>2, SMTT(30)
    <3>. QED
      BY <1>1, <3>1 DEF SyncInv, Listed
  <2>6. Shape' /\ Loaded' /\ NoMarks' /\ Confirmed' /\ Unharmed'
    BY <1>1, <2>1, <2>3, <2>4, <2>5 DEF SyncInv, Shape, Loaded, NoMarks, Confirmed, Unharmed
  <2>7. Stream' /\ Asked' /\ Listed' /\ CopyComplete' /\ SettledAfterFullSync'
    <3>1. 1..0 = {}
      OBVIOUS
    <3>2. pc' = "point" /\ code' = 0 /\ Len(inbox') = 0
      BY <1>1, <2>1, <2>3
    <3>3. Stream'
      BY <3>1, <3>2 DEF Stream
    <3>4. Asked'
      BY <3>1, <3>2 DEF Asked
    <3>. QED
      BY <3>2, <3>3, <3>4 DEF Listed, CopyComplete, SettledAfterFullSync
  <2>. QED
    BY <2>6, <2>7 DEF SyncInv
<1>. QED
  BY <1>3, <1>4, <1>5, <1>6 DEF ReceiveRow, SynchronizeRow

LEMMA ReceiveNothingInv ==
  ASSUME SyncInv, ReceiveNothing, UNCHANGED faults
  PROVE  SyncInv'
<1>1. /\ pc \in {"rows", "pointed"} /\ inbox = <<>> /\ Exit(TRUE)
      /\ UNCHANGED <<remote, data, saved>>
  BY Zenon DEF ReceiveNothing, disk
<1>2. faults
  <2>1. 1..Len(inbox) = {}
    BY <1>1
  <2>. QED
    BY <1>1, <2>1 DEF SyncInv, Unharmed
<1>3. data \in [ShelfNo -> Info] /\ saved \in [ShelfNo -> 0..2]
  BY DEF SyncInv, Shape
<1>. QED
  BY <1>1, <1>2, <1>3, ExitInv, Zenon

LEMMA EndInv ==
  ASSUME SyncInv, End, UNCHANGED faults
  PROVE  SyncInv'
<1> DEFINE un == \/ pc \in {"rows", "point", "pointed", "sort"}
                 \/ pc \in {"count", "list"} /\ unsettled
<1>1. un \in BOOLEAN /\ Exit(un) /\ pc # "out" /\ (pc = "in" \/ faults)
  BY Zenon DEF End
<1>2. UNCHANGED <<remote, data, saved>>
  BY DEF End, disk
<1>3. /\ data' \in [ShelfNo -> Info] /\ saved' \in [ShelfNo -> 0..2]
      /\ pc \in Before \cup During \cup After
  BY <1>2 DEF SyncInv, Shape
<1>4. ~un => \A i \in ShelfNo : saved'[i] # 2
  BY <1>1, <1>2, <1>3 DEF SyncInv, NoMarks, Before, During, After
<1>5. ~faults => ~un /\ \A i \in ShelfNo : saved'[i] > 0 <=> data'[i] # NoShelf
  BY <1>1, <1>2 DEF SyncInv, Unharmed
<1> HIDE DEF un
<1>. QED
  BY <1>1, <1>2, <1>3, <1>4, <1>5, ExitInv

\* An answer joins what is unread.
LEMMA AnswerAdded ==
  ASSUME inbox \in Seq(Message), NEW ans \in Seq(Message), Len(ans) > 0, inbox' = inbox \o ans
  PROVE  /\ inbox' \in Seq(Message) /\ inbox' # <<>>
         /\ \A k \in 1..Len(inbox') : \/ \E m \in 1..Len(inbox) : inbox'[k] = inbox[m]
                                     \/ \E m \in 1..Len(ans) : inbox'[k] = ans[m]
<1>1. /\ inbox' \in Seq(Message) /\ Len(inbox') = Len(inbox) + Len(ans) /\ Len(inbox) \in Nat
      /\ \A k \in 1..Len(inbox') :
           inbox'[k] = IF k <= Len(inbox) THEN inbox[k] ELSE ans[k - Len(inbox)]
  BY JoinFacts
<1>2. \A k \in 1..Len(inbox') :
        k \in 1..Len(inbox) \/ (~(k <= Len(inbox)) /\ k - Len(inbox) \in 1..Len(ans))
  BY <1>1
<1>3. inbox' # <<>>
  BY <1>1
<1>. QED
  BY <1>1, <1>2, <1>3

LEMMA RequestPointedInv ==
  ASSUME SyncInv, RequestPointed, UNCHANGED faults
  PROVE  SyncInv'
<1> USE DEF Before, During, After
<1>1. /\ pc = "point" /\ shelf_record = saved
      /\ UNCHANGED <<remote, data, saved, shelf_record, shelves_all, quiet, unsettled, faults>>
  BY DEF RequestPointed, disk, SyncInv, Loaded
<1>2. InUse' = InUse /\ \A i : Done(i)' = Done(i)
  BY <1>1 DEF InUse, Done
<1>3. MAX_SHELF_NUM \in Nat /\ code \in 0..MAX_SHELF_NUM /\ inbox \in Seq(Message)
  BY CapacityAssumption DEF SyncInv, Shape
<1>4. CASE Unsynced = {} /\ pc' = "sort" /\ UNCHANGED <<inbox, code>>
  <2>1. Shape' /\ Loaded' /\ NoMarks' /\ Confirmed' /\ Unharmed'
    BY <1>1, <1>2, <1>4 DEF SyncInv, Shape, Loaded, NoMarks, Confirmed, Unharmed
  <2>2. Asked'
    <3>1. ASSUME NEW i \in ShelfNo, quiet, ~unsettled PROVE saved[i] # 1
      <4>1. CASE i > code
        BY <1>1, <1>4, <4>1 DEF Unsynced, clidb_shelf_not_syncs
      <4>2. CASE i <= code
        <5>1. i \in 1..code
          BY <1>3, <4>2 DEF ShelfNo
        <5>. QED
          BY <1>1, <3>1, <5>1 DEF SyncInv, Asked
      <4>. QED
        BY <1>3, <4>1, <4>2 DEF ShelfNo
    <3>. QED
      BY <1>1, <1>4, <3>1 DEF Asked
  <2>3. Stream' /\ Listed' /\ CopyComplete' /\ SettledAfterFullSync'
    BY <1>1, <1>4 DEF Stream, Listed, CopyComplete, SettledAfterFullSync
  <2>. QED
    BY <2>1, <2>2, <2>3 DEF SyncInv
<1>5. ASSUME NEW i \in Unsynced, \A j \in Unsynced : i <= j, code' = i, pc' = "pointed",
             \/ inbox' = inbox \o PointedAnswer(i)
             \/ faults /\ inbox' = Append(inbox, Note("r_failed"))
      PROVE  SyncInv'
  <2>1. i \in ShelfNo /\ i > code /\ saved[i] = 1 /\ i \in 1..MAX_SHELF_NUM
    BY <1>1 DEF Unsynced, clidb_shelf_not_syncs, ShelfNo
  <2>2. quiet => remote[i] = NoShelf
    BY <1>1, <2>1 DEF SyncInv, Confirmed, InUse, Done
  <2>3. /\ inbox' \in Seq(Message) /\ inbox' # <<>>
        /\ quiet => \A k \in 1..Len(inbox') : inbox'[k].response # "r_success"
        /\ ~faults => \A k \in 1..Len(inbox') : inbox'[k].response # "r_failed"
    <3>1. /\ quiet => \A k \in 1..Len(inbox) : inbox[k].response # "r_success"
          /\ ~faults => \A k \in 1..Len(inbox) : inbox[k].response # "r_failed"
      BY <1>1 DEF SyncInv, Stream, Unharmed
    <3>2. ASSUME NEW r \in {"r_failed", "r_find_end"}
          PROVE  /\ Note(r) \in Message /\ <<Note(r)>> \in Seq(Message) /\ Len(<<Note(r)>>) = 1
                 /\ \A k \in 1..1 : <<Note(r)>>[k].response = r
      BY DEF Note, Message
    <3>3. CASE faults /\ inbox' = Append(inbox, Note("r_failed"))
      <4>1. inbox' = inbox \o <<Note("r_failed")>>
        BY <1>3, <3>2, <3>3, AppendJoins
      <4>. QED
        BY <1>3, <3>1, <3>2, <3>3, <4>1, AnswerAdded
    <3>4. CASE inbox' = inbox \o PointedAnswer(i) /\ remote[i] = NoShelf
      <4>1. PointedAnswer(i) = <<Note("r_find_end")>>
        BY <3>2, <3>4, JoinNothing DEF PointedAnswer
      <4>. QED
        BY <1>3, <3>1, <3>2, <3>4, <4>1, AnswerAdded
    <3>5. CASE inbox' = inbox \o PointedAnswer(i) /\ remote[i] # NoShelf
      <4>1. Row(i) \in Message /\ Row(i).response = "r_success"
        BY <2>1, <3>5 DEF Row, Message, SyncInv, Shape, Info
      <4>2. PointedAnswer(i) = <<Row(i)>> \o <<Note("r_find_end")>>
        BY <3>5 DEF PointedAnswer
      <4>3. /\ PointedAnswer(i) \in Seq(Message) /\ Len(PointedAnswer(i)) = 2
            /\ PointedAnswer(i)[1] = Row(i) /\ PointedAnswer(i)[2] = Note("r_find_end")
        BY <3>2, <4>1, <4>2
      <4>4. Note("r_find_end").response = "r_find_end"
        BY DEF Note
      <4>5. \A k \in 1..Len(PointedAnswer(i)) : PointedAnswer(i)[k].response # "r_failed"
        BY <4>1, <4>3, <4>4
      <4> DEFINE ans == PointedAnswer(i)
      <4>6. ans \in Seq(Message) /\ Len(ans) > 0 /\ inbox' = inbox \o ans
        BY <3>5, <4>3
      <4>7. /\ inbox' \in Seq(Message) /\ inbox' # <<>>
            /\ \A k \in 1..Len(inbox') : \/ \E m \in 1..Len(inbox) : inbox'[k] = inbox[m]
                                        \/ \E m \in 1..Len(ans) : inbox'[k] = ans[m]
        BY <1>3, <4>6, AnswerAdded, ZenonT(30)
      <4>. QED
        BY <2>2, <3>1, <3>5, <4>5, <4>7
    <3>. QED
      BY <1>5, <3>3, <3>4, <3>5
  <2>4. Shape' /\ Loaded' /\ NoMarks' /\ Confirmed' /\ Unharmed'
    BY <1>1, <1>2, <1>5, <2>1, <2>3 DEF SyncInv, Shape, Loaded, NoMarks, Confirmed, Unharmed
  <2>5. Asked'
    <3>1. ASSUME NEW j \in 1..(i - 1), quiet, ~unsettled PROVE saved[j] # 1
      <4>1. j \in ShelfNo /\ ~(i <= j)
        BY <1>3, <2>1 DEF ShelfNo
      <4>2. CASE j > code
        BY <1>1, <1>5, <4>1, <4>2 DEF Unsynced, clidb_shelf_not_syncs
      <4>3. CASE j <= code
        <5>1. j \in 1..code
          BY <1>3, <4>3, <4>1 DEF ShelfNo
        <5>. QED
          BY <1>1, <3>1, <5>1 DEF SyncInv, Asked
      <4>. QED
        BY <1>3, <4>1, <4>2, <4>3 DEF ShelfNo
    <3>. QED
      BY <1>1, <1>5, <3>1 DEF Asked
  <2>6. Stream' /\ Listed' /\ CopyComplete' /\ SettledAfterFullSync'
    BY <1>1, <1>5, <2>1, <2>3 DEF Stream, Listed, CopyComplete, SettledAfterFullSync
  <2>. QED
    BY <2>4, <2>5, <2>6 DEF SyncInv
<1>. QED
  BY <1>4, <1>5 DEF RequestPointed

LEMMA ReceivePointedInv ==
  ASSUME SyncInv, ReceivePointed, UNCHANGED faults
  PROVE  SyncInv'
<1> USE DEF Before, During, After
<1> DEFINE msg == Head(inbox)
<1>1. /\ pc = "pointed" /\ inbox # <<>> /\ Shape /\ shelf_record = saved
      /\ code \in ShelfNo /\ saved[code] = 1
  BY DEF ReceivePointed, SyncInv, Loaded, Stream
<1>2. msg \in Message /\ msg = inbox[1] /\ 1 \in 1..Len(inbox)
  BY <1>1 DEF Shape
<1>3. /\ quiet => msg.response # "r_success"
      /\ ~faults => msg.response # "r_failed" /\ data[code] # NoShelf
  <2>1. /\ quiet => inbox[1].response # "r_success"
        /\ ~faults => inbox[1].response # "r_failed" /\ data[code] # NoShelf
    BY <1>1, <1>2 DEF SyncInv, Stream, Unharmed
  <2>. QED
    BY <1>2, <2>1
<1>4. ASSUME inbox' = Tail(inbox)
      PROVE  /\ inbox' \in Seq(Message)
             /\ \A k \in 1..Len(inbox') : inbox'[k] = inbox[k + 1] /\ k + 1 \in 1..Len(inbox)
             /\ quiet => \A k \in 1..Len(inbox') : inbox'[k].response # "r_success"
             /\ ~faults => \A k \in 1..Len(inbox') : inbox'[k].response # "r_failed"
  <2>1. /\ inbox' \in Seq(Message)
        /\ \A k \in 1..Len(inbox') : inbox'[k] = inbox[k + 1] /\ k + 1 \in 1..Len(inbox)
    BY <1>1, <1>4, TailBox
  <2>. QED
    BY <1>1, <2>1, ZenonT(30) DEF SyncInv, Stream, Unharmed
<1>5. ASSUME msg.response = "r_success", EndInStore(msg.code, msg.info), UNCHANGED remote
      PROVE  SyncInv'
  <2>1. msg.code \in ShelfNo /\ msg.info \in ShelfInfo
    BY <1>2, <1>5 DEF Message
  <2>. QED
    BY <1>1, <1>5, <2>1, EndInStoreInv
<1>6. ASSUME msg.response = "r_success", clidb_shelf_synchronize(msg.code, msg.info),
             inbox' = Tail(inbox), pc' = "point",
             UNCHANGED <<remote, shelves_all, code, quiet, unsettled>>
      PROVE  SyncInv'
  <2>1. ~quiet
    BY <1>3, <1>6
  <2>2. /\ msg.code \in ShelfNo /\ msg.info \in ShelfInfo /\ msg.info # NoShelf
        /\ shelf_record' = saved' /\ saved' = [saved EXCEPT ![msg.code] = 2]
        /\ saved' \in [ShelfNo -> 0..2]
        /\ data' = [data EXCEPT ![msg.code] = msg.info] /\ data' \in [ShelfNo -> Info]
    BY <1>1, <1>2, <1>6, RowStored
  <2> HIDE DEF msg
  <2>3. Shape' /\ Loaded' /\ NoMarks'
    BY <1>1, <1>4, <1>6, <2>2 DEF Shape, Loaded, NoMarks
  <2>4. Stream' /\ Listed' /\ Confirmed' /\ Asked' /\ CopyComplete' /\ SettledAfterFullSync'
    BY <1>6, <2>1 DEF Stream, Listed, Confirmed, Asked, CopyComplete, SettledAfterFullSync
  <2>5. ~faults => \A j \in ShelfNo : saved'[j] > 0 <=> data'[j] # NoShelf
    BY <1>1, <2>2, SMTT(30) DEF SyncInv, Unharmed, Shape
  <2>6. Unharmed'
    BY <1>1, <1>4, <1>6, <2>1, <2>5 DEF SyncInv, Unharmed
  <2>. QED
    BY <2>3, <2>4, <2>6 DEF SyncInv
<1>7. ASSUME msg.response = "r_failed", Skip("point"), unsettled' = TRUE PROVE SyncInv'
  <2>1. /\ inbox' = Tail(inbox) /\ pc' = "point"
        /\ UNCHANGED <<remote, data, saved, shelf_record, shelves_all, code, quiet, faults>>
    BY <1>7 DEF Skip, disk
  <2>2. faults
    BY <1>3, <1>7
  <2>3. InUse' = InUse /\ \A i : Done(i)' = Done(i)
    BY <2>1 DEF InUse, Done
  <2>4. Shape' /\ Loaded' /\ NoMarks' /\ Confirmed' /\ Unharmed'
    BY <1>1, <1>4, <1>7, <2>1, <2>2, <2>3, ZenonT(30) DEF SyncInv, Shape, Loaded, NoMarks, Confirmed, Unharmed
  <2>5. Stream' /\ Listed' /\ Asked' /\ CopyComplete' /\ SettledAfterFullSync'
    BY <1>4, <1>7, <2>1 DEF Stream, Listed, Asked, CopyComplete, SettledAfterFullSync
  <2>. QED
    BY <2>4, <2>5 DEF SyncInv
<1>8. ASSUME msg.response = "r_find_end", data[code] # NoShelf, clidb_shelf_delete(code),
             inbox' = Tail(inbox), pc' = "point",
             UNCHANGED <<remote, shelves_all, code, quiet, unsettled>>
      PROVE  SyncInv'
  <2>0. /\ data' = [data EXCEPT ![code] = NoShelf]
        /\ saved' = [saved EXCEPT ![code] = 0]
        /\ shelf_record' = saved'
    BY <1>1, <1>8, Zenon DEF clidb_shelf_delete, shelf_record_save
  <2>1. /\ data' = [data EXCEPT ![code] = NoShelf] /\ data' \in [ShelfNo -> Info]
        /\ saved' = [saved EXCEPT ![code] = 0] /\ saved' \in [ShelfNo -> 0..2]
        /\ shelf_record' = saved'
    BY <1>1, <2>0 DEF Shape, Info
  <2>2. InUse' = InUse
    BY <1>8 DEF InUse
  <2>3. Shape' /\ Loaded' /\ NoMarks'
    BY <1>1, <1>4, <1>8, <2>1 DEF Shape, Loaded, NoMarks
  <2>4. Confirmed'
    <3>1. quiet => \A i \in InUse : i \in ShelfNo /\ i # code /\ Done(i)
      BY <1>1 DEF SyncInv, Confirmed, Done, InUse
    <3>2. quiet => \A i \in InUse : Done(i)'
      BY <1>1, <1>8, <2>1, <3>1 DEF Done, Shape
    <3>3. \A i \in ShelfNo : saved'[i] = 2 => saved[i] = 2
      BY <1>1, <2>1 DEF Shape
    <3>. QED
      BY <1>1, <1>8, <2>2, <3>2, <3>3 DEF SyncInv, Confirmed
  <2>5. Asked'
    <3>1. ASSUME quiet, ~unsettled, NEW i \in 1..code PROVE saved'[i] # 1
      <4>0. code \in 1..MAX_SHELF_NUM /\ MAX_SHELF_NUM \in Nat
        BY <1>1, CapacityAssumption DEF ShelfNo
      <4>1. i \in ShelfNo /\ (i = code \/ i \in 1..(code - 1))
        BY <4>0 DEF ShelfNo
      <4>. QED
        BY <1>1, <2>1, <3>1, <4>1 DEF SyncInv, Asked, Shape
    <3>. QED
      BY <1>8, <3>1 DEF Asked
  <2>6. Stream' /\ Listed' /\ CopyComplete' /\ SettledAfterFullSync'
    BY <1>4, <1>8 DEF Stream, Listed, CopyComplete, SettledAfterFullSync
  <2>7. Unharmed'
    <3>1. ~faults => \A j \in ShelfNo : saved'[j] > 0 <=> data'[j] # NoShelf
      BY <1>1, <2>1 DEF SyncInv, Unharmed, Shape
    <3>. QED
      BY <1>1, <1>4, <1>8, <2>2, <3>1 DEF SyncInv, Unharmed
  <2>. QED
    BY <2>3, <2>4, <2>5, <2>6, <2>7 DEF SyncInv
<1>9. ASSUME data[code] = NoShelf, Exit(TRUE), UNCHANGED <<remote, disk>> PROVE SyncInv'
  <2>1. faults /\ UNCHANGED <<remote, data, saved>>
    BY <1>3, <1>9 DEF disk
  <2>. QED
    BY <1>1, <1>9, <2>1, ExitInv, Zenon DEF Shape
<1>10. ASSUME EndInDelete(code), UNCHANGED remote PROVE SyncInv'
  BY <1>1, <1>10, EndInDeleteInv
<1>. QED
  BY <1>5, <1>6, <1>7, <1>8, <1>9, <1>10, Zenon DEF ReceivePointed, SynchronizeRow

LEMMA ConcludeInv ==
  ASSUME SyncInv, Conclude, UNCHANGED faults
  PROVE  SyncInv'
<1> USE DEF Before, During, After
<1>1. /\ pc = "sort" /\ Shape /\ shelf_record = saved /\ UNCHANGED <<remote, data>>
  BY Zenon DEF Conclude, SyncInv, Loaded
<1>2. /\ Sorted \in [ShelfNo -> 0..2]
      /\ \A i \in ShelfNo : Sorted[i] # 2 /\ (Sorted[i] > 0 <=> saved[i] > 0)
  BY <1>1 DEF Sorted, Shape
<1>3. ~faults => ~unsettled /\ \A i \in ShelfNo : Sorted[i] > 0 <=> data[i] # NoShelf
  BY <1>2 DEF SyncInv, Unharmed
<1>4. CASE saved' = Sorted /\ Exit(FALSE)
  BY <1>1, <1>2, <1>3, <1>4, ExitInv, Zenon DEF Shape
<1>5. CASE /\ shelf_record_save(Sorted) /\ pc' = "books"
           /\ UNCHANGED <<inbox, shelves_all, code, quiet, unsettled>>
  <2>1. saved' = Sorted /\ shelf_record' = Sorted
    BY <1>5 DEF shelf_record_save
  <2>2. InUse' = InUse /\ InUse \subseteq ShelfNo
    BY <1>1 DEF InUse
  <2> HIDE DEF Sorted
  <2>3. Shape' /\ Loaded' /\ NoMarks'
    BY <1>1, <1>2, <1>5, <2>1 DEF Shape, Loaded, NoMarks
  <2>4. Stream' /\ Listed' /\ Confirmed' /\ Asked'
    BY <1>5 DEF Stream, Listed, Confirmed, Asked
  <2>5. quiet => \A i \in InUse : saved[i] = 2 /\ data[i] = remote[i]
    BY <1>1 DEF SyncInv, Confirmed, Done
  <2>6. quiet /\ ~unsettled => \A i \in ShelfNo : Sorted[i] > 0 => i \in InUse
    <3>1. ASSUME quiet, ~unsettled, NEW i \in ShelfNo, Sorted[i] > 0 PROVE i \in InUse
      <4>1. saved[i] > 0 /\ saved[i] # 1 /\ saved[i] \in 0..2
        BY <1>1, <1>2, <3>1 DEF SyncInv, Asked, Shape
      <4>2. saved[i] = 2
        BY <4>1
      <4>. QED
        BY <1>1, <3>1, <4>2 DEF SyncInv, Confirmed
    <3>. QED
      BY <3>1
  <2>7. CopyComplete'
    <3>1. quiet => \A i \in InUse : Sorted[i] > 0 /\ data[i] = remote[i]
      BY <1>2, <2>2, <2>5
    <3>. QED
      BY <1>1, <1>5, <2>1, <2>2, <3>1 DEF CopyComplete, clidb_shelf_exists
  <2>8. SettledAfterFullSync'
    BY <1>5, <2>1, <2>2, <2>6, ZenonT(30) DEF SettledAfterFullSync, clidb_shelf_exists
  <2>9. Unharmed'
    <3>1. ASSUME ~faults, quiet PROVE data = remote
      <4>1. \A i \in ShelfNo : data[i] = remote[i]
        BY <1>3, <2>5, <2>6, <3>1 DEF InUse
      <4>. QED
        BY <1>1, <4>1, SMTT(30) DEF Shape
    <3>. QED
      BY <1>1, <1>3, <1>5, <2>1, <2>2, <3>1 DEF SyncInv, Unharmed
  <2>. QED
    BY <2>3, <2>4, <2>7, <2>8, <2>9 DEF SyncInv
<1>. QED
  BY <1>1, <1>4, <1>5, Zenon DEF Conclude

LEMMA BooksInv ==
  ASSUME SyncInv, client_books_count_sync, UNCHANGED faults
  PROVE  SyncInv'
<1> USE DEF Before, During, After
<1>1. pc = "books" /\ UNCHANGED <<remote, data, saved>>
  BY Zenon DEF client_books_count_sync, disk
<1>2. CASE Exit(FALSE)
  <2>1. /\ \A i \in ShelfNo : saved[i] # 2
        /\ ~faults => \A i \in ShelfNo : saved[i] > 0 <=> data[i] # NoShelf
    BY <1>1 DEF SyncInv, NoMarks, Unharmed
  <2>. QED
    BY <1>1, <1>2, <2>1, ExitInv, Zenon DEF SyncInv, Shape
<1>3. CASE /\ pc' = "in" /\ code' = 0
           /\ UNCHANGED <<shelf_record, inbox, shelves_all, quiet, unsettled>>
  <2>1. InUse' = InUse /\ 0 \in 0..MAX_SHELF_NUM
    BY <1>1, CapacityAssumption DEF InUse
  <2>2. Shape' /\ Loaded' /\ NoMarks' /\ Unharmed'
    BY <1>1, <1>3, <2>1, ZenonT(30) DEF SyncInv, Shape, Loaded, NoMarks, Unharmed
  <2>3. Stream' /\ Listed' /\ Confirmed' /\ Asked' /\ CopyComplete' /\ SettledAfterFullSync'
    BY <1>3 DEF Stream, Listed, Confirmed, Asked, CopyComplete, SettledAfterFullSync
  <2>. QED
    BY <2>2, <2>3 DEF SyncInv
<1>. QED
  BY <1>2, <1>3, Zenon DEF client_books_count_sync

\* A page that leaves with a count: it may have changed the server's shelves
\* and, along with them, the copy.
LEMMA PagedInv ==
  ASSUME SyncInv, pc = "in", Paged, UNCHANGED faults,
         remote' \in [ShelfNo -> Info], data' \in [ShelfNo -> Info],
         saved' \in [ShelfNo -> 0..2], shelf_record' = saved',
         \A i \in ShelfNo : saved'[i] # 2,
         ~faults => \A i \in ShelfNo : saved'[i] > 0 <=> data'[i] # NoShelf,
         ~faults /\ quiet => data' = remote'
  PROVE  SyncInv'
<1> USE DEF Before, During, After
<1>1. pc' = "counting" /\ UNCHANGED <<inbox, shelves_all, code, quiet, unsettled>>
  BY DEF Paged
<1>2. Shape' /\ Loaded' /\ NoMarks'
  BY <1>1 DEF SyncInv, Shape, Loaded, NoMarks
<1>3. Stream' /\ Listed' /\ Confirmed' /\ Asked' /\ CopyComplete' /\ SettledAfterFullSync'
  BY <1>1, ZenonT(30) DEF Stream, Listed, Confirmed, Asked, CopyComplete, SettledAfterFullSync
<1>4. Unharmed'
  BY <1>1 DEF SyncInv, Unharmed
<1>. QED
  BY <1>2, <1>3, <1>4 DEF SyncInv

LEMMA BuildInv ==
  ASSUME SyncInv, client_build_shelf, UNCHANGED faults
  PROVE  SyncInv'
<1>1. /\ pc = "in" /\ Shape /\ shelf_record = saved
      /\ \A i \in ShelfNo : saved[i] # 2
      /\ ~faults => \A i \in ShelfNo : saved[i] > 0 <=> data[i] # NoShelf
      /\ ~faults /\ quiet => data = remote
  BY DEF client_build_shelf, SyncInv, Loaded, NoMarks, Unharmed, After
<1>2. CASE UNCHANGED <<remote, disk, shelf_record>> /\ Paged
  BY <1>1, <1>2, PagedInv DEF Shape, disk
<1>3. ASSUME NEW i \in FreeNo, NEW info \in ShelfInfo, remote' = [remote EXCEPT ![i] = info],
             \/ clidb_shelf_insert(i, info) /\ Paged
             \/ EndInStore(i, info)
             \/ faults /\ UNCHANGED <<disk, shelf_record>> /\ Paged
      PROVE  SyncInv'
  <2>1. i \in ShelfNo /\ info # NoShelf /\ remote' \in [ShelfNo -> Info]
    BY <1>1, <1>3, SyncAssumption DEF FreeNo, Shape, Info
  <2>2. CASE EndInStore(i, info)
    BY <1>1, <2>1, <2>2, EndInStoreInv
  <2>3. CASE faults /\ UNCHANGED <<disk, shelf_record>> /\ Paged
    BY <1>1, <2>1, <2>3, PagedInv DEF Shape, disk
  <2>4. CASE clidb_shelf_insert(i, info) /\ Paged
    <3>1. /\ data' = [data EXCEPT ![i] = info] /\ saved' = [saved EXCEPT ![i] = 1]
          /\ shelf_record' = saved'
      BY <1>1, <2>4 DEF clidb_shelf_insert, dbm_store, shelf_record_save
    <3>2. data' \in [ShelfNo -> Info] /\ saved' \in [ShelfNo -> 0..2]
      BY <1>1, <2>1, <3>1 DEF Shape, Info
    <3>3. \A j \in ShelfNo : saved'[j] # 2
      BY <1>1, <2>1, <3>1 DEF Shape
    <3>4. ~faults => \A j \in ShelfNo : saved'[j] > 0 <=> data'[j] # NoShelf
      BY <1>1, <2>1, <3>1 DEF Shape
    <3>5. ~faults /\ quiet => data' = remote'
      BY <1>1, <1>3, <3>1
    <3>. QED
      BY <1>1, <2>1, <2>4, <3>1, <3>2, <3>3, <3>4, <3>5, PagedInv
  <2>. QED
    BY <1>3, <2>2, <2>3, <2>4
<1>. QED
  BY <1>2, <1>3 DEF client_build_shelf

LEMMA BrowseInv ==
  ASSUME SyncInv, display_lookthrough_page, UNCHANGED faults
  PROVE  SyncInv'
<1>1. /\ pc = "in" /\ Shape /\ shelf_record = saved
      /\ \A i \in ShelfNo : saved[i] # 2
      /\ ~faults => \A i \in ShelfNo : saved[i] > 0 <=> data[i] # NoShelf
      /\ ~faults /\ quiet => data = remote
  BY DEF display_lookthrough_page, SyncInv, Loaded, NoMarks, Unharmed, After
<1>2. CASE UNCHANGED <<remote, disk, shelf_record>> /\ Paged
  BY <1>1, <1>2, PagedInv DEF Shape, disk
<1>3. CASE pc' = "scanning" /\ UNCHANGED <<remote, disk, memory, quiet, unsettled>>
  <2> USE DEF Before, During, After
  <2>1. UNCHANGED <<remote, data, saved, shelf_record, inbox, shelves_all, code, quiet, unsettled>>
    BY <1>3 DEF disk, memory
  <2>2. InUse' = InUse
    BY <2>1, ZenonT(30) DEF InUse
  <2>3. Shape' /\ Loaded' /\ NoMarks' /\ Unharmed'
    <3>1. Shape'
      BY <1>1, <1>3, <2>1 DEF Shape
    <3>2. Loaded' /\ NoMarks'
      BY <1>1, <1>3, <2>1 DEF SyncInv, Loaded, NoMarks
    <3>3. Unharmed'
      BY <1>1, <1>3, <2>1, <2>2 DEF SyncInv, Unharmed
    <3>. QED
      BY <3>1, <3>2, <3>3, Zenon
  <2>4. Stream' /\ Listed' /\ Confirmed' /\ Asked' /\ CopyComplete' /\ SettledAfterFullSync'
    BY <1>3 DEF Stream, Listed, Confirmed, Asked, CopyComplete, SettledAfterFullSync
  <2>. QED
    BY <2>3, <2>4 DEF SyncInv
<1>4. ASSUME NEW i \in ShelfNo, remote' = [remote EXCEPT ![i] = NoShelf],
             \/ clidb_shelf_delete(i) /\ Paged
             \/ faults /\ UNCHANGED <<disk, shelf_record>> /\ Paged
             \/ EndInDelete(i)
      PROVE  SyncInv'
  <2>1. remote' \in [ShelfNo -> Info]
    BY <1>1, <1>4 DEF Shape, Info
  <2>2. CASE EndInDelete(i)
    BY <1>1, <2>1, <2>2, EndInDeleteInv
  <2>3. CASE faults /\ UNCHANGED <<disk, shelf_record>> /\ Paged
    BY <1>1, <2>1, <2>3, PagedInv DEF Shape, disk
  <2>4. CASE clidb_shelf_delete(i) /\ Paged /\ data[i] = NoShelf
    <3>1. UNCHANGED <<data, saved, shelf_record>>
      BY <2>4, Zenon DEF clidb_shelf_delete
    <3>2. ~faults /\ quiet => data' = remote'
      BY <1>1, <1>4, <2>4, <3>1 DEF Shape
    <3>. QED
      BY <1>1, <2>1, <2>4, <3>1, <3>2, PagedInv DEF Shape
  <2>5. CASE clidb_shelf_delete(i) /\ Paged /\ data[i] # NoShelf
    <3>1. /\ data' = [data EXCEPT ![i] = NoShelf] /\ saved' = [shelf_record EXCEPT ![i] = 0]
          /\ shelf_record' = saved'
      BY <2>5, Zenon DEF clidb_shelf_delete, shelf_record_save
    <3>2. data' \in [ShelfNo -> Info] /\ saved' \in [ShelfNo -> 0..2]
      BY <1>1, <3>1 DEF Shape, Info
    <3>3. \A j \in ShelfNo : saved'[j] # 2
      BY <1>1, <3>1 DEF Shape
    <3>4. ~faults => \A j \in ShelfNo : saved'[j] > 0 <=> data'[j] # NoShelf
      BY <1>1, <3>1 DEF Shape
    <3>5. ~faults /\ quiet => data' = remote'
      BY <1>1, <1>4, <3>1
    <3>. QED
      BY <1>1, <2>1, <2>5, <3>1, <3>2, <3>3, <3>4, <3>5, PagedInv
  <2>. QED
    BY <1>4, <2>2, <2>3, <2>4, <2>5
<1>. QED
  BY <1>2, <1>3, <1>4 DEF display_lookthrough_page, client_shelf_delete_itself

LEMMA OtherClientInv ==
  ASSUME SyncInv, OtherClient, UNCHANGED faults
  PROVE  SyncInv'
<1> USE DEF Before, During, After
<1>1. /\ quiet' = (pc = "out")
      /\ UNCHANGED <<data, saved, shelf_record, inbox, shelves_all, code, pc, unsettled>>
  BY DEF OtherClient, disk, memory
<1>2. remote' \in [ShelfNo -> Info]
  BY DEF OtherClient, SyncInv, Shape, Info, FreeNo, InUse
<1>3. Shape' /\ Loaded' /\ NoMarks'
  BY <1>1, <1>2 DEF SyncInv, Shape, Loaded, NoMarks
<1>4. quiet' => pc' = "out"
  BY <1>1, Zenon
<1>5. Stream' /\ Listed' /\ Confirmed' /\ Asked' /\ CopyComplete' /\ SettledAfterFullSync'
  BY <1>1, <1>4 DEF SyncInv, Stream, Listed, Confirmed, Asked, CopyComplete, SettledAfterFullSync
<1>6. Unharmed'
  BY <1>1, <1>4 DEF SyncInv, Unharmed
<1>. QED
  BY <1>3, <1>5, <1>6 DEF SyncInv

-----------------------------------------------------------------------------
LEMMA SyncStep == SyncInv /\ [Next]_vars => SyncInv'
<1> SUFFICES ASSUME SyncInv, [Next]_vars PROVE SyncInv'
  OBVIOUS
<1>1. CASE UNCHANGED vars
  <2>1. UNCHANGED <<faults, remote, data, saved, shelf_record, inbox, shelves_all, code, pc, quiet,
                    unsettled>>
    BY <1>1 DEF vars, disk, memory
  <2>2. InUse' = InUse /\ \A i : Row(i)' = Row(i) /\ Done(i)' = Done(i)
    BY <2>1, SMTT(30) DEF InUse, Row, Done
  <2>3. Shape' /\ Loaded' /\ NoMarks' /\ Stream' /\ Unharmed'
    BY <2>1, <2>2, ZenonT(30) DEF SyncInv, Shape, Loaded, NoMarks, Stream, Unharmed
  <2>4. Listed' /\ Confirmed' /\ Asked' /\ CopyComplete' /\ SettledAfterFullSync'
    BY <2>1, <2>2, Zenon DEF SyncInv, Listed, Confirmed, Asked, CopyComplete, SettledAfterFullSync,
                      clidb_shelf_exists
  <2>. QED
    BY <2>3, <2>4 DEF SyncInv
<1>2. CASE Next
  <2>1. UNCHANGED faults
    BY <1>2 DEF Next
  <2>2. ASSUME NEW from, NEW to, client_shelves_count_sync(from, to),
               \/ from = "count" /\ to = "list"
               \/ from = "counting" /\ to = "in"
        PROVE  SyncInv'
    BY <2>1, <2>2, CountInv
  <2>. QED
    BY ZenonT(30), <1>2, <2>1, <2>2, InitFileInv, RequestListInv, ReceiveRowInv, ReceiveNothingInv,
       RequestPointedInv, ReceivePointedInv, ConcludeInv, BooksInv, BuildInv, BrowseInv, EndInv,
       OtherClientInv
    DEF Next, Sync
<1>. QED
  BY <1>1, <1>2

LEMMA SyncAlways == Spec => []SyncInv
<1>. QED
  BY SyncInit, SyncStep, PTL DEF Spec

\* A login that succeeds has every shelf of the server in the copy, whatever
\* ends, failures and interference the file has been through.
THEOREM CopyCompleteAlways == Spec => []CopyComplete
<1>1. SyncInv => CopyComplete
  BY DEF SyncInv
<1>. QED
  BY <1>1, SyncAlways, PTL

\* After one synchronisation that ran to its end the copy has no other shelves.
THEOREM SettledAlways == Spec => []SettledAfterFullSync
<1>1. SyncInv => SettledAfterFullSync
  BY DEF SyncInv
<1>. QED
  BY <1>1, SyncAlways, PTL

\* Without faults the copy follows the builds and removals of a session exactly.
THEOREM CopyExactAlways == Spec => []CopyExact
<1>1. SyncInv => CopyExact
  <2> SUFFICES ASSUME SyncInv, ~faults, quiet, pc = "in" PROVE CopyExact
    BY DEF CopyExact
  <2>1. data = remote /\ shelves_all = Cardinality(InUse) /\ shelf_record = saved
    BY DEF SyncInv, Unharmed, Loaded, After
  <2>2. \A i \in ShelfNo : clidb_shelf_exists(i) <=> i \in InUse
    BY <2>1 DEF SyncInv, Unharmed, clidb_shelf_exists, InUse
  <2>. QED
    BY <2>1, <2>2 DEF CopyExact
<1>. QED
  BY <1>1, SyncAlways, PTL

\* Without faults the record never names a shelf that is not stored.
THEOREM RecordStoredAlways == Spec => []RecordStored
<1>1. SyncInv => RecordStored
  BY DEF SyncInv, Unharmed, RecordStored
<1>. QED
  BY <1>1, SyncAlways, PTL
-----------------------------------------------------------------------------
(***************************************************************************)
(* The types.  That shelf_cnt and the unread answers are bounded is not a  *)
(* matter of one step: no shelf may be counted twice in a login although   *)
(* answers are read one request late and marks of an earlier run are left  *)
(* in the record, and every request for one shelf may leave a message      *)
(* behind.                                                                 *)
(***************************************************************************)
IsRow(msg) == msg.response = "r_success"

\* S are the shelves counted so far: they are marked, and the rows still to be
\* read are of others, each of another one.  The rows that answer the requests
\* for one shelf are of shelves asked for.
Counts(S) ==
  /\ S \subseteq ShelfNo /\ shelf_cnt = Cardinality(S)
  /\ pc \in Before => S = {}
  /\ pc \in {"rows", "point", "pointed"} =>
       /\ \A i \in S : saved[i] = 2
       /\ \A k \in 1..Len(inbox) : IsRow(inbox[k]) => inbox[k].code \notin S
       /\ \A j, k \in 1..Len(inbox) :
            IsRow(inbox[j]) /\ IsRow(inbox[k]) /\ inbox[j].code = inbox[k].code => j = k
  /\ pc \in {"point", "pointed"} =>
       \A k \in 1..Len(inbox) : IsRow(inbox[k]) => inbox[k].code <= code

\* A request for one shelf leaves at most one message more than it found.
Unread ==
  /\ pc = "rows" => Len(inbox) <= MAX_SHELF_NUM + 1
  /\ pc = "point" => Len(inbox) <= code
  /\ pc = "pointed" => Len(inbox) <= code + 1
  /\ pc \in {"sort"} \cup After => Len(inbox) <= MAX_SHELF_NUM

TypeInv ==
  /\ shelves_all \in 0..MAX_SHELF_NUM
  /\ quiet \in BOOLEAN /\ unsettled \in BOOLEAN
  /\ Unread
  /\ \E S : Counts(S)

\* The numbers of shelves are finitely many.
LEMMA SomeShelves ==
  ASSUME NEW S, S \subseteq ShelfNo
  PROVE  IsFiniteSet(S) /\ Cardinality(S) \in 0..MAX_SHELF_NUM
<1>1. IsFiniteSet(ShelfNo) /\ Cardinality(ShelfNo) = MAX_SHELF_NUM /\ MAX_SHELF_NUM \in Nat
  BY CapacityAssumption, FS_Interval DEF ShelfNo
<1>2. IsFiniteSet(S) /\ Cardinality(S) <= MAX_SHELF_NUM
  BY <1>1, FS_Subset
<1>3. Cardinality(S) \in Nat
  BY <1>2, FS_CardinalityType
<1>. QED
  BY <1>1, <1>2, <1>3

\* A run that ends leaves nothing behind but the file.
LEMMA ExitTypes ==
  ASSUME NEW un \in BOOLEAN, Exit(un)
  PROVE  TypeInv'
<1>1. /\ pc' = "out" /\ inbox' = <<>> /\ shelves_all' = 0 /\ shelf_cnt' = 0
      /\ quiet' = TRUE /\ unsettled' = un
  BY DEF Exit
<1>2. Counts({})'
  BY <1>1, FS_EmptySet DEF Counts
<1>3. Unread'
  BY <1>1 DEF Unread, After
<1>4. shelves_all' \in 0..MAX_SHELF_NUM
  BY <1>1, CapacityAssumption
<1>5. quiet' \in BOOLEAN /\ unsettled' \in BOOLEAN
  BY <1>1
<1>. QED
  BY <1>2, <1>3, <1>4, <1>5 DEF TypeInv

\* A step behind the synchronisation that reads no answer.
LEMMA AfterTypes ==
  ASSUME TypeInv, pc \in {"sort"} \cup After, pc' \in After,
         UNCHANGED <<inbox, shelf_cnt, quiet, unsettled>>, shelves_all' \in 0..MAX_SHELF_NUM
  PROVE  TypeInv'
<1>1. PICK S : Counts(S)
  BY DEF TypeInv
<1>2. Counts(S)'
  BY <1>1 DEF Counts, Before, After
<1>3. Unread'
  BY DEF TypeInv, Unread, After
<1>. QED
  BY <1>2, <1>3 DEF TypeInv

\* The rows of the list are of shelves that differ.
LEMMA ListAnswerRows ==
  ASSUME Shape, NEW s \in Listings
  PROVE  LET box == ListAnswer(s)
         IN  /\ box \in Seq(Message) /\ Len(box) <= MAX_SHELF_NUM + 1
             /\ \A j, k \in 1..Len(box) :
                  IsRow(box[j]) /\ IsRow(box[k]) /\ box[j].code = box[k].code => j = k
<1> DEFINE n == Cardinality(InUse)
           rows == [k \in DOMAIN s |-> Row(s[k])]
           end == Note("r_find_end")
           box == Append(rows, end)
<1>1. \A i \in InUse : Row(i) \in Message /\ Row(i).code = i
  BY DEF InUse, Row, Message, Shape, Info
<1>2. end \in Message /\ ~IsRow(end)
  BY DEF Note, Message, IsRow
<1>3. InUse \subseteq ShelfNo /\ n \in 0..MAX_SHELF_NUM /\ n \in Nat /\ MAX_SHELF_NUM \in Nat
  BY SomeShelves, CapacityAssumption DEF InUse
<1>4. /\ s \in [1..n -> InUse]
      /\ \A j, k \in 1..n : j < k => s[j] < s[k]
  BY DEF Listings
<1> HIDE DEF n, end
<1>5. rows \in Seq(Message) /\ Len(rows) = n /\ \A k \in 1..n : rows[k] = Row(s[k]) /\ s[k] \in InUse
  <2>1. rows = [k \in 1..n |-> Row(s[k])]
    BY <1>4
  <2>2. \A k \in 1..n : s[k] \in InUse /\ Row(s[k]) \in Message
    BY <1>1, <1>4
  <2>. QED
    BY <1>3, <2>1, <2>2
<1> HIDE DEF rows
<1>6. /\ box \in Seq(Message) /\ Len(box) = n + 1 /\ box[n + 1] = end
      /\ \A k \in 1..n : box[k] = Row(s[k])
  BY <1>2, <1>3, <1>5
<1> HIDE DEF box
<1>7. \A k \in 1..Len(box) : IsRow(box[k]) => k \in 1..n /\ box[k].code = s[k] /\ s[k] \in Int
  <2>1. \A k \in 1..Len(box) : k = n + 1 \/ k \in 1..n
    BY <1>3, <1>6
  <2>2. \A k \in 1..n : box[k].code = s[k] /\ s[k] \in Int
    <3> SUFFICES ASSUME NEW k \in 1..n PROVE box[k].code = s[k] /\ s[k] \in Int
      OBVIOUS
    <3>1. s[k] \in InUse /\ s[k] \in ShelfNo /\ box[k] = Row(s[k])
      BY <1>3, <1>5, <1>6
    <3>2. s[k] \in Int
      BY <3>1 DEF ShelfNo
    <3>. QED
      BY <1>1, <3>1, <3>2
  <2>. QED
    BY <1>2, <1>6, <2>1, <2>2
<1>8. ASSUME NEW j \in 1..Len(box), NEW k \in 1..Len(box), IsRow(box[j]), IsRow(box[k]),
             box[j].code = box[k].code
      PROVE  j = k
  <2>1. /\ j \in 1..n /\ k \in 1..n /\ s[j] = s[k] /\ s[j] \in Int /\ s[k] \in Int
        /\ j \in Int /\ k \in Int
    BY <1>3, <1>7, <1>8
  <2>. QED
    BY <1>4, <2>1
<1>9. Len(box) <= MAX_SHELF_NUM + 1
  BY <1>3, <1>6
<1>. QED
  BY <1>6, <1>8, <1>9 DEF ListAnswer, box, rows, end

\* A row is read: its shelf was not counted yet.
LEMMA RowTypes ==
  ASSUME SyncInv, TypeInv, Read, IsRow(Head(inbox)),
         clidb_shelf_synchronize(Head(inbox).code, Head(inbox).info),
         shelf_cnt' = shelf_cnt + 1,
         \/ pc = "rows" /\ pc' = "rows"
         \/ pc = "pointed" /\ pc' = "point",
         UNCHANGED <<remote, shelves_all, code, quiet, unsettled>>
  PROVE  TypeInv'
<1> DEFINE msg == Head(inbox)
<1>1. Shape /\ shelf_record = saved /\ saved \in [ShelfNo -> 0..2]
  BY DEF SyncInv, Shape, Loaded
<1>2. /\ msg = inbox[1] /\ msg \in Message
      /\ Len(inbox) \in Nat \ {0} /\ Len(inbox') = Len(inbox) - 1
      /\ \A k \in 1..Len(inbox') : inbox'[k] = inbox[k + 1] /\ k + 1 \in 1..Len(inbox)
  BY <1>1, TailBox DEF Read
<1>3. msg.response = "r_success" /\ clidb_shelf_synchronize(msg.code, msg.info)
  BY DEF IsRow
<1> HIDE DEF msg
<1>4. msg.code \in ShelfNo /\ saved' = [saved EXCEPT ![msg.code] = 2]
  BY <1>1, <1>2, <1>3, RowStored
<1>5. PICK S : Counts(S)
  BY DEF TypeInv
<1>6. /\ S \subseteq ShelfNo /\ shelf_cnt = Cardinality(S)
      /\ \A i \in S : saved[i] = 2
      /\ \A k \in 1..Len(inbox) : IsRow(inbox[k]) => inbox[k].code \notin S
      /\ \A j, k \in 1..Len(inbox) :
           IsRow(inbox[j]) /\ IsRow(inbox[k]) /\ inbox[j].code = inbox[k].code => j = k
      /\ pc = "pointed" => \A k \in 1..Len(inbox) : IsRow(inbox[k]) => inbox[k].code <= code
  BY <1>5 DEF Counts
<1>7. 1 \in 1..Len(inbox) /\ IsRow(inbox[1]) /\ msg.code = inbox[1].code
  BY <1>2, <1>3 DEF IsRow
<1>8. PICK T : T = S \cup {msg.code}
  BY Zenon
<1>9. T \subseteq ShelfNo /\ shelf_cnt' = Cardinality(T)
  <2>1. msg.code \notin S
    BY <1>6, <1>7
  <2>2. IsFiniteSet(S)
    BY <1>6, SomeShelves
  <2>. QED
    BY <1>4, <1>6, <1>8, <2>1, <2>2, FS_AddElement, Zenon
<1>10. \A i \in T : saved'[i] = 2
  BY <1>1, <1>4, <1>6, <1>8, ZenonT(30)
<1>11. ASSUME NEW k \in 1..Len(inbox'), IsRow(inbox'[k])
       PROVE  inbox'[k].code \notin T /\ (pc = "pointed" => inbox'[k].code <= code)
  <2>1. inbox'[k] = inbox[k + 1] /\ k + 1 \in 1..Len(inbox) /\ k + 1 # 1
    BY <1>2
  <2>2. inbox[k + 1].code # msg.code
    BY <1>6, <1>7, <1>11, <2>1
  <2>. QED
    BY <1>6, <1>11, <1>8, <2>1, <2>2
<1>12. ASSUME NEW j \in 1..Len(inbox'), NEW k \in 1..Len(inbox'), IsRow(inbox'[j]), IsRow(inbox'[k]),
              inbox'[j].code = inbox'[k].code
       PROVE  j = k
  <2>1. /\ inbox'[j] = inbox[j + 1] /\ j + 1 \in 1..Len(inbox)
        /\ inbox'[k] = inbox[k + 1] /\ k + 1 \in 1..Len(inbox)
    BY <1>2
  <2>2. j + 1 = k + 1
    BY <1>6, <1>12, <2>1
  <2>. QED
    BY <1>2, <2>2
<1>13. Counts(T)'
  <2>1. \A k \in 1..Len(inbox') : IsRow(inbox'[k]) => inbox'[k].code \notin T
    BY <1>11
  <2>2. pc = "pointed" => \A k \in 1..Len(inbox') : IsRow(inbox'[k]) => inbox'[k].code <= code'
    BY <1>11
  <2>3. \A j, k \in 1..Len(inbox') :
          IsRow(inbox'[j]) /\ IsRow(inbox'[k]) /\ inbox'[j].code = inbox'[k].code => j = k
    BY <1>12
  <2>4. pc' \notin Before /\ (pc' \in {"point", "pointed"} => pc = "pointed")
    BY DEF Before
  <2>5. /\ T \subseteq ShelfNo /\ shelf_cnt' = Cardinality(T)
        /\ pc' \in Before => T = {}
        /\ pc' \in {"rows", "point", "pointed"} =>
             /\ \A i \in T : saved'[i] = 2
             /\ \A k \in 1..Len(inbox') : IsRow(inbox'[k]) => inbox'[k].code \notin T
             /\ \A j, k \in 1..Len(inbox') :
                  IsRow(inbox'[j]) /\ IsRow(inbox'[k]) /\ inbox'[j].code = inbox'[k].code => j = k
        /\ pc' \in {"point", "pointed"} =>
             \A k \in 1..Len(inbox') : IsRow(inbox'[k]) => inbox'[k].code <= code'
    BY <1>9, <1>10, <2>1, <2>2, <2>3, <2>4, Zenon
  <2>. QED
    BY <2>5, Zenon DEF Counts, IsRow
<1>14. Unread'
  <2>1. code \in Nat
    BY <1>1, CapacityAssumption DEF Shape
  <2>2. MAX_SHELF_NUM \in Nat
    BY CapacityAssumption
  <2>. QED
    BY <1>2, <2>1, <2>2 DEF TypeInv, Unread, After
<1>. QED
  BY <1>13, <1>14 DEF TypeInv

\* Another message is read, or nothing is made of it.  At the end of the list
\* nothing is left in the stream.
LEMMA DropTypes ==
  ASSUME SyncInv, TypeInv, Read,
         \/ pc = "rows" /\ pc' = "rows"
         \/ pc = "rows" /\ pc' = "point" /\ Head(inbox).response = "r_find_end"
         \/ pc = "pointed" /\ pc' = "point",
         \A i \in ShelfNo : saved[i] = 2 => saved'[i] = 2,
         unsettled' \in BOOLEAN,
         UNCHANGED <<shelves_all, shelf_cnt, code, quiet>>
  PROVE  TypeInv'
<1>1. Shape /\ code \in Nat /\ MAX_SHELF_NUM \in Nat
  BY CapacityAssumption DEF SyncInv, Shape
<1>2. /\ Head(inbox) = inbox[1]
      /\ Len(inbox) \in Nat \ {0} /\ Len(inbox') = Len(inbox) - 1
      /\ \A k \in 1..Len(inbox') : inbox'[k] = inbox[k + 1] /\ k + 1 \in 1..Len(inbox)
  BY <1>1, TailBox DEF Read
<1>3. pc = "rows" /\ pc' = "point" => Len(inbox') = 0 /\ code = 0
  <2> SUFFICES ASSUME pc = "rows", pc' = "point" PROVE Len(inbox') = 0 /\ code = 0
    OBVIOUS
  <2>1. 1 \in 1..Len(inbox) /\ inbox[1].response = "r_find_end"
    BY <1>2
  <2>2. 1 = Len(inbox) /\ code = 0
    <3>1. pc = "rows" => \A k \in 1..Len(inbox) : inbox[k].response = "r_find_end" => k = Len(inbox)
      BY DEF SyncInv, Stream
    <3>2. pc = "rows" => code = 0
      BY DEF SyncInv, Stream
    <3>3. code = 0
      BY <3>2
    <3>4. 1 = Len(inbox)
      BY <2>1, <3>1, Zenon
    <3>. QED
      BY <3>3, <3>4
  <2>3. Len(inbox') = Len(inbox) - 1
    BY <1>2
  <2>. QED
    BY <2>2, <2>3
<1>4. PICK S : Counts(S)
  BY DEF TypeInv
<1>5. /\ S \subseteq ShelfNo /\ shelf_cnt = Cardinality(S)
      /\ \A i \in S : saved[i] = 2
      /\ \A k \in 1..Len(inbox) : IsRow(inbox[k]) => inbox[k].code \notin S
      /\ \A j, k \in 1..Len(inbox) :
           IsRow(inbox[j]) /\ IsRow(inbox[k]) /\ inbox[j].code = inbox[k].code => j = k
      /\ pc = "pointed" => \A k \in 1..Len(inbox) : IsRow(inbox[k]) => inbox[k].code <= code
  BY <1>4 DEF Counts
<1>6. \A i \in S : saved'[i] = 2
  BY <1>5
<1>7. ASSUME NEW k \in 1..Len(inbox'), IsRow(inbox'[k])
      PROVE  inbox'[k].code \notin S /\ (pc' = "point" => inbox'[k].code <= code)
  BY <1>2, <1>3, <1>5, <1>7, SMTT(30)
<1>8. ASSUME NEW j \in 1..Len(inbox'), NEW k \in 1..Len(inbox'), IsRow(inbox'[j]), IsRow(inbox'[k]),
             inbox'[j].code = inbox'[k].code
      PROVE  j = k
  <2>1. /\ inbox'[j] = inbox[j + 1] /\ j + 1 \in 1..Len(inbox)
        /\ inbox'[k] = inbox[k + 1] /\ k + 1 \in 1..Len(inbox)
    BY <1>2
  <2>2. j + 1 = k + 1
    BY <1>5, <1>8, <2>1, ZenonT(30)
  <2>. QED
    BY <1>2, <2>2
<1>9. Counts(S)'
  BY <1>5, <1>6, <1>7, <1>8 DEF Counts, Before
<1>10. Unread'
  BY <1>1, <1>2, <1>3 DEF TypeInv, Unread, After
<1>. QED
  BY <1>9, <1>10 DEF TypeInv

\* A request for one shelf adds a row of that shelf or none, and one message more.
LEMMA PointedAdds ==
  ASSUME NEW i \in ShelfNo, Shape,
         \/ inbox' = inbox \o PointedAnswer(i)
         \/ inbox' = Append(inbox, Note("r_failed"))
  PROVE  /\ Len(inbox) \in Nat /\ Len(inbox') \in Nat /\ Len(inbox') <= Len(inbox) + 2
         /\ \A k \in 1..Len(inbox') : IsRow(inbox'[k]) =>
              \/ k \in 1..Len(inbox) /\ inbox'[k] = inbox[k]
              \/ k = Len(inbox) + 1 /\ inbox'[k].code = i
<1>1. inbox \in Seq(Message) /\ Len(inbox) \in Nat
  BY DEF Shape
<1>2. \A r \in {"r_failed", "r_find_end"} : Note(r) \in Message /\ ~IsRow(Note(r))
  BY DEF Note, Message, IsRow
<1>3. PICK ans \in Seq(Message) :
        /\ inbox' = inbox \o ans /\ Len(ans) \in 1..2
        /\ \A k \in 1..Len(ans) : IsRow(ans[k]) => k = 1 /\ ans[k].code = i
  <2>1. CASE inbox' = Append(inbox, Note("r_failed"))
    <3> DEFINE m == Note("r_failed")
    <3>1. m \in Message /\ ~IsRow(m)
      BY <1>2
    <3> HIDE DEF m
    <3>2. inbox' = inbox \o <<m>>
      BY <1>1, <2>1, <3>1, AppendJoins DEF m
    <3> DEFINE ans == <<m>>
    <3>3. ans \in Seq(Message) /\ Len(ans) \in 1..2 /\ \A k \in 1..Len(ans) : ans[k] = m
      BY <3>1
    <3>4. inbox' = inbox \o ans
      BY <3>2
    <3> HIDE DEF ans
    <3>5. \A k \in 1..Len(ans) : ~IsRow(ans[k])
      BY <3>1, <3>3
    <3>. QED
      BY <3>3, <3>4, <3>5
  <2>2. CASE inbox' = inbox \o PointedAnswer(i) /\ remote[i] = NoShelf
    <3> DEFINE m == Note("r_find_end")
    <3>1. m \in Message /\ ~IsRow(m)
      BY <1>2
    <3> HIDE DEF m
    <3>2. PointedAnswer(i) = <<m>>
      BY <2>2, <3>1, JoinNothing DEF PointedAnswer, m
    <3> DEFINE ans == <<m>>
    <3>3. ans \in Seq(Message) /\ Len(ans) \in 1..2 /\ \A k \in 1..Len(ans) : ans[k] = m
      BY <3>1
    <3>4. inbox' = inbox \o ans
      BY <2>2, <3>2
    <3> HIDE DEF ans
    <3>5. \A k \in 1..Len(ans) : ~IsRow(ans[k])
      BY <3>1, <3>3
    <3>. QED
      BY <3>3, <3>4, <3>5
  <2>3. CASE inbox' = inbox \o PointedAnswer(i) /\ remote[i] # NoShelf
    <3> DEFINE m == Note("r_find_end")
               r == Row(i)
    <3>1. m \in Message /\ ~IsRow(m)
      BY <1>2
    <3>2. r \in Message /\ r.code = i
      BY <2>3 DEF Row, Message, Shape, Info
    <3>3. PointedAnswer(i) = <<r>> \o <<m>>
      BY <2>3 DEF PointedAnswer
    <3> HIDE DEF m, r
    <3> DEFINE ans == <<r>> \o <<m>>
    <3>4. /\ ans \in Seq(Message) /\ Len(ans) = 2
          /\ ans[1] = r /\ ans[2] = m
      BY <3>1, <3>2
    <3>5. inbox' = inbox \o ans
      BY <2>3, <3>3
    <3> HIDE DEF ans
    <3>6. \A k \in 1..Len(ans) : k = 1 \/ k = 2
      BY <3>4
    <3>7. \A k \in 1..Len(ans) : IsRow(ans[k]) => k = 1 /\ ans[k].code = i
      BY <3>1, <3>2, <3>4, <3>6
    <3>8. ans \in Seq(Message) /\ Len(ans) \in 1..2
      BY <3>4
    <3>. QED
      BY <3>5, <3>7, <3>8, ZenonT(30)
  <2>. QED
    BY <2>1, <2>2, <2>3, Zenon
<1>4. /\ Len(inbox') = Len(inbox) + Len(ans)
      /\ \A k \in 1..Len(inbox) + Len(ans) :
           inbox'[k] = IF k <= Len(inbox) THEN inbox[k] ELSE ans[k - Len(inbox)]
  BY <1>1, <1>3
<1>5. Len(ans) \in Nat /\ Len(ans) <= 2
  BY <1>3
<1>6. ASSUME NEW k \in 1..Len(inbox'), IsRow(inbox'[k])
      PROVE  \/ k \in 1..Len(inbox) /\ inbox'[k] = inbox[k]
             \/ k = Len(inbox) + 1 /\ inbox'[k].code = i
  <2>1. CASE k <= Len(inbox)
    BY <1>1, <1>4, <1>5, <2>1
  <2>2. CASE k > Len(inbox)
    <3>1. k - Len(inbox) \in 1..Len(ans) /\ inbox'[k] = ans[k - Len(inbox)]
      BY <1>1, <1>4, <1>5, <2>2
    <3>2. k - Len(inbox) = 1 /\ ans[k - Len(inbox)].code = i
      BY <1>3, <1>6, <3>1
    <3>. QED
      BY <1>1, <3>1, <3>2
  <2>. QED
    BY <1>1, <1>4, <1>5, <2>1, <2>2
<1>7. Len(inbox') \in Nat /\ Len(inbox') <= Len(inbox) + 2
  BY <1>1, <1>4, <1>5
<1>. QED
  BY <1>1, <1>6, <1>7

\* The first request finds nothing counted and nothing unread.
LEMMA RequestListTypes ==
  ASSUME SyncInv, TypeInv, RequestList
  PROVE  TypeInv'
<1>1. /\ pc = "list" /\ pc' = "rows" /\ inbox = <<>> /\ Shape
      /\ UNCHANGED <<shelves_all, shelf_cnt, quiet, unsettled>>
  BY DEF RequestList, SyncInv, Stream, Before
<1>2. MAX_SHELF_NUM \in Nat
  BY CapacityAssumption
<1>3. PICK S : Counts(S)
  BY DEF TypeInv
<1>4. S = {} /\ shelf_cnt = Cardinality(S)
  BY <1>1, <1>3 DEF Counts, Before
<1>5. /\ Len(inbox') <= MAX_SHELF_NUM + 1
      /\ \A j, k \in 1..Len(inbox') :
           IsRow(inbox'[j]) /\ IsRow(inbox'[k]) /\ inbox'[j].code = inbox'[k].code => j = k
  <2>1. ASSUME NEW s \in Listings, inbox' = inbox \o ListAnswer(s)
        PROVE  <1>5
    <3> DEFINE box == ListAnswer(s)
    <3>1. /\ box \in Seq(Message) /\ Len(box) <= MAX_SHELF_NUM + 1
          /\ \A j, k \in 1..Len(box) :
               IsRow(box[j]) /\ IsRow(box[k]) /\ box[j].code = box[k].code => j = k
      BY <1>1, ListAnswerRows
    <3> HIDE DEF box
    <3>2. inbox' = box
      BY <1>1, <2>1, <3>1, JoinNothing DEF box
    <3>. QED
      BY <3>1, <3>2
  <2>2. CASE inbox' = Append(inbox, Note("r_failed"))
    <3> DEFINE m == Note("r_failed")
    <3>1. inbox' = Append(<<>>, m)
      BY <1>1, <2>2
    <3> HIDE DEF m
    <3>2. Len(inbox') = 1
      BY <3>1
    <3>3. \A j, k \in 1..Len(inbox') : j = k
      BY <3>2
    <3>4. Len(inbox') <= MAX_SHELF_NUM + 1
      BY <1>2, <3>2
    <3>. QED
      BY <3>3, <3>4
  <2>. QED
    BY <2>1, <2>2 DEF RequestList
<1>6. Counts({})'
  BY <1>1, <1>4, <1>5 DEF Counts, Before, IsRow
<1>7. Unread'
  BY <1>1, <1>5 DEF Unread, After
<1>. QED
  BY <1>1, <1>6, <1>7 DEF TypeInv

\* A row, a failure or the end of the list is read.
LEMMA ReceiveRowTypes ==
  ASSUME SyncInv, TypeInv, ReceiveRow
  PROVE  TypeInv'
<1> DEFINE msg == Head(inbox)
<1>1. pc = "rows" /\ unsettled \in BOOLEAN
  BY DEF ReceiveRow, TypeInv
<1>2. CASE msg.response = "r_success" /\ SynchronizeRow(msg, "rows")
  <2>1. CASE EndInStore(msg.code, msg.info)
    BY <1>1, <2>1, ExitTypes, Zenon DEF EndInStore
  <2>2. CASE ~EndInStore(msg.code, msg.info)
    <3>1. /\ clidb_shelf_synchronize(msg.code, msg.info)
          /\ shelf_cnt' = shelf_cnt + 1 /\ pc' = "rows" /\ inbox' = Tail(inbox)
          /\ UNCHANGED <<remote, shelves_all, code, quiet, unsettled>>
      BY <1>2, <2>2 DEF SynchronizeRow
    <3>2. Read /\ IsRow(Head(inbox))
      BY <1>2, <3>1 DEF Read, ReceiveRow, IsRow
    <3>. QED
      BY <1>1, <3>1, <3>2, RowTypes
  <2>. QED
    BY <2>1, <2>2
<1>3. CASE ~(msg.response = "r_success" /\ SynchronizeRow(msg, "rows"))
  <2>1. /\ \/ pc' = "rows"
           \/ pc' = "point" /\ msg.response = "r_find_end"
        /\ inbox' = Tail(inbox) /\ inbox # <<>>
        /\ UNCHANGED <<saved, unsettled, shelves_all, shelf_cnt, code, quiet>>
    BY <1>3 DEF ReceiveRow, Skip, disk
  <2>2. Read
    BY <2>1 DEF Read
  <2>3. (\A i \in ShelfNo : saved[i] = 2 => saved'[i] = 2) /\ unsettled' \in BOOLEAN
    BY <1>1, <2>1
  <2>. QED
    BY <1>1, <2>1, <2>2, <2>3, DropTypes, ZenonT(30)
<1>. QED
  BY <1>2, <1>3

\* A shelf not counted yet is asked for, or none is left to ask for.
LEMMA RequestPointedTypes ==
  ASSUME SyncInv, TypeInv, RequestPointed
  PROVE  TypeInv'
<1>1. /\ pc = "point" /\ shelf_record = saved /\ Shape
      /\ UNCHANGED <<saved, shelves_all, shelf_cnt, quiet, unsettled>>
  BY DEF RequestPointed, disk, SyncInv, Loaded
<1>2. MAX_SHELF_NUM \in Nat /\ code \in 0..MAX_SHELF_NUM /\ Len(inbox) \in Nat /\ Len(inbox) <= code
  BY <1>1, CapacityAssumption DEF Shape, TypeInv, Unread
<1>3. PICK S : Counts(S)
  BY DEF TypeInv
<1>4. /\ S \subseteq ShelfNo /\ shelf_cnt = Cardinality(S)
      /\ \A i \in S : saved[i] = 2
      /\ \A k \in 1..Len(inbox) : IsRow(inbox[k]) => inbox[k].code \notin S /\ inbox[k].code <= code
      /\ \A j, k \in 1..Len(inbox) :
           IsRow(inbox[j]) /\ IsRow(inbox[k]) /\ inbox[j].code = inbox[k].code => j = k
  BY <1>1, <1>3 DEF Counts
<1>5. CASE pc' = "sort" /\ UNCHANGED inbox
  <2>1. Counts(S)'
    BY <1>1, <1>4, <1>5 DEF Counts, Before
  <2>2. Unread'
    BY <1>2, <1>5 DEF Unread, After
  <2>. QED
    BY <1>1, <2>1, <2>2, ZenonT(30) DEF TypeInv
<1>6. ASSUME NEW i \in Unsynced, code' = i, pc' = "pointed",
             \/ inbox' = inbox \o PointedAnswer(i)
             \/ inbox' = Append(inbox, Note("r_failed"))
      PROVE  TypeInv'
  <2>1. i \in ShelfNo /\ i \in Nat /\ i > code /\ saved[i] = 1
    BY <1>1 DEF Unsynced, clidb_shelf_not_syncs, ShelfNo
  <2>2. /\ Len(inbox') \in Nat /\ Len(inbox') <= Len(inbox) + 2
        /\ \A k \in 1..Len(inbox') : IsRow(inbox'[k]) =>
             \/ k \in 1..Len(inbox) /\ inbox'[k] = inbox[k]
             \/ k = Len(inbox) + 1 /\ inbox'[k].code = i
    BY <1>1, <1>6, <2>1, PointedAdds
  <2>3. i \notin S
    BY <1>4, <2>1
  <2>4. ASSUME NEW k \in 1..Len(inbox'), IsRow(inbox'[k])
        PROVE  inbox'[k].code \notin S /\ inbox'[k].code <= i
    <3>1. CASE k = Len(inbox) + 1 /\ inbox'[k].code = i
      BY <2>1, <2>3, <3>1
    <3>2. CASE k \in 1..Len(inbox) /\ inbox'[k] = inbox[k]
      <4>1. inbox[k].code \notin S /\ inbox[k].code <= code /\ inbox[k] \in Message
        BY <1>1, <1>4, <2>4, <3>2 DEF Shape
      <4>2. inbox[k].code \in Int
        BY <1>2, <4>1 DEF Message, ShelfNo
      <4>. QED
        BY <1>2, <2>1, <3>2, <4>1, <4>2, SMTT(30)
    <3>. QED
      BY <2>2, <2>4, <3>1, <3>2, ZenonT(30)
  <2>5. ASSUME NEW j \in 1..Len(inbox'), NEW k \in 1..Len(inbox'), IsRow(inbox'[j]), IsRow(inbox'[k]),
               inbox'[j].code = inbox'[k].code
        PROVE  j = k
    <3>1. ASSUME NEW m \in 1..Len(inbox), IsRow(inbox[m]) PROVE inbox[m].code # i
      <4>1. inbox[m].code <= code /\ inbox[m] \in Message
        BY <1>1, <1>4, <3>1 DEF Shape
      <4>2. inbox[m].code \in Int
        BY <1>2, <4>1 DEF Message, ShelfNo
      <4>. QED
        BY <1>2, <2>1, <4>1, <4>2, SMTT(30)
    <3>. QED
      BY <1>4, <2>2, <2>5, <3>1
  <2>6. Counts(S)'
    <3>1. /\ pc' \notin Before /\ S \subseteq ShelfNo /\ shelf_cnt' = Cardinality(S)
          /\ \A m \in S : saved'[m] = 2
      BY <1>1, <1>4, <1>6, ZenonT(30) DEF Before
    <3>2. \A k \in 1..Len(inbox') : IsRow(inbox'[k]) => inbox'[k].code \notin S /\ inbox'[k].code <= code'
      BY <1>6, <2>4
    <3>3. \A j, k \in 1..Len(inbox') :
            IsRow(inbox'[j]) /\ IsRow(inbox'[k]) /\ inbox'[j].code = inbox'[k].code => j = k
      BY <2>5
    <3>. QED
      BY <3>1, <3>2, <3>3, ZenonT(30) DEF Counts, IsRow
  <2>7. Unread'
    BY <1>2, <1>6, <2>1, <2>2 DEF Unread, After
  <2>. QED
    BY <1>1, <2>6, <2>7 DEF TypeInv
<1>. QED
  BY <1>5, <1>6 DEF RequestPointed

\* The shelf asked for was not counted, so its removal disturbs no mark.
LEMMA ReceivePointedTypes ==
  ASSUME SyncInv, TypeInv, ReceivePointed
  PROVE  TypeInv'
<1> DEFINE msg == Head(inbox)
<1>1. /\ pc = "pointed" /\ inbox # <<>> /\ unsettled \in BOOLEAN
      /\ shelf_record = saved /\ saved \in [ShelfNo -> 0..2] /\ saved[code] = 1
  BY DEF ReceivePointed, TypeInv, SyncInv, Shape, Loaded, Stream
<1>2. CASE Exit(TRUE) \/ EndInDelete(code) \/ EndInStore(msg.code, msg.info)
  <2>1. (pc # "in") \in BOOLEAN
    OBVIOUS
  <2>. QED
    BY <1>2, <2>1, ExitTypes, Zenon DEF EndInDelete, EndInStore
<1>3. CASE /\ msg.response = "r_success"
           /\ SynchronizeRow(msg, "point") /\ ~EndInStore(msg.code, msg.info)
  <2>1. /\ clidb_shelf_synchronize(msg.code, msg.info)
        /\ shelf_cnt' = shelf_cnt + 1 /\ pc' = "point" /\ inbox' = Tail(inbox)
        /\ UNCHANGED <<remote, shelves_all, code, quiet, unsettled>>
    BY <1>3 DEF SynchronizeRow
  <2>2. Read /\ IsRow(Head(inbox))
    BY <1>1, <1>3, <2>1 DEF Read, IsRow
  <2>. QED
    BY <1>1, <2>1, <2>2, RowTypes, ZenonT(30)
<1>4. ASSUME inbox' = Tail(inbox), pc' = "point", unsettled' \in BOOLEAN,
             \/ UNCHANGED saved
             \/ saved' = [saved EXCEPT ![code] = 0],
             UNCHANGED <<shelves_all, shelf_cnt, code, quiet>>
      PROVE  TypeInv'
  <2>1. Read
    BY <1>1, <1>4 DEF Read
  <2>2. \A i \in ShelfNo : saved[i] = 2 => saved'[i] = 2
    BY <1>1, <1>4
  <2>. QED
    BY <1>1, <1>4, <2>1, <2>2, DropTypes
<1>5. CASE Skip("point") /\ unsettled' = TRUE
  BY <1>4, <1>5 DEF Skip, disk
<1>6. CASE /\ data[code] # NoShelf /\ clidb_shelf_delete(code)
           /\ inbox' = Tail(inbox) /\ pc' = "point"
           /\ UNCHANGED <<remote, shelves_all, shelf_cnt, code, quiet, unsettled>>
  <2>1. saved' = [saved EXCEPT ![code] = 0]
    BY <1>1, <1>6 DEF clidb_shelf_delete, shelf_record_save
  <2>. QED
    BY <1>1, <1>4, <1>6, <2>1
<1>. QED
  BY <1>2, <1>3, <1>5, <1>6, Zenon DEF ReceivePointed, SynchronizeRow

\* The page of a session that builds or removes a shelf.
LEMMA PagedTypes ==
  ASSUME TypeInv, pc = "in", Paged
  PROVE  TypeInv'
<1>1. pc' = "counting" /\ UNCHANGED <<inbox, shelves_all, shelf_cnt, quiet, unsettled>>
  BY DEF Paged
<1>2. shelves_all' \in 0..MAX_SHELF_NUM /\ pc \in {"sort"} \cup After /\ pc' \in After
  BY <1>1 DEF TypeInv, After
<1>. QED
  BY <1>1, <1>2, AfterTypes

\* The steps that read no answer of the synchronisation.
LEMMA OtherTypes ==
  ASSUME SyncInv, TypeInv,
         \/ clidb_init
         \/ client_shelves_count_sync("count", "list")
         \/ client_shelves_count_sync("counting", "in")
         \/ ReceiveNothing \/ End
         \/ Conclude \/ client_books_count_sync
         \/ client_build_shelf \/ display_lookthrough_page
         \/ OtherClient
  PROVE  TypeInv'
<1>1. unsettled \in BOOLEAN /\ quiet \in BOOLEAN /\ shelves_all \in 0..MAX_SHELF_NUM /\ MAX_SHELF_NUM \in Nat
  BY CapacityAssumption DEF TypeInv
<1>2. PICK S : Counts(S)
  BY DEF TypeInv
<1>3. CASE clidb_init
  <2>1. /\ pc = "out" /\ pc' = "count"
        /\ UNCHANGED <<inbox, shelf_cnt, shelves_all, quiet, unsettled>>
    BY <1>3, ZenonT(30) DEF clidb_init
  <2>2. Counts(S)'
    BY <1>2, <2>1 DEF Counts, Before
  <2>3. Unread'
    BY <2>1 DEF Unread, After
  <2>. QED
    BY <1>1, <2>1, <2>2, <2>3 DEF TypeInv
<1>4. ASSUME NEW from, NEW to, client_shelves_count_sync(from, to)
      PROVE  shelves_all' \in 0..MAX_SHELF_NUM
  <2>1. InUse \subseteq ShelfNo
    BY DEF InUse
  <2>. QED
    BY <1>1, <1>4, <2>1, SomeShelves DEF client_shelves_count_sync
<1>5. CASE client_shelves_count_sync("count", "list")
  <2>1. /\ pc = "count" /\ pc' = "list"
        /\ UNCHANGED <<inbox, shelf_cnt, quiet, unsettled>>
    BY <1>5, ZenonT(30) DEF client_shelves_count_sync
  <2>2. Counts(S)'
    BY <1>2, <2>1 DEF Counts, Before
  <2>3. Unread'
    BY <2>1 DEF Unread, After
  <2>. QED
    BY <1>1, <1>4, <1>5, <2>1, <2>2, <2>3, ZenonT(30) DEF TypeInv
<1>6. CASE client_shelves_count_sync("counting", "in")
  <2>1. /\ pc = "counting" /\ pc' = "in"
        /\ UNCHANGED <<inbox, shelf_cnt, quiet, unsettled>>
    BY <1>6 DEF client_shelves_count_sync
  <2>2. pc \in {"sort"} \cup After /\ pc' \in After
    BY <2>1 DEF After
  <2>. QED
    BY <1>4, <1>6, <2>1, <2>2, AfterTypes
<1>7. CASE ReceiveNothing
  BY <1>7, ExitTypes, Zenon DEF ReceiveNothing
<1>8. CASE End
  <2> DEFINE un == \/ pc \in {"rows", "point", "pointed", "sort"}
                   \/ pc \in {"count", "list"} /\ unsettled
  <2>1. un \in BOOLEAN /\ Exit(un)
    BY <1>8, Zenon DEF End
  <2>. QED
    BY <2>1, ExitTypes, Zenon
<1>9. CASE Conclude
  <2>1. CASE Exit(FALSE)
    BY <2>1, ExitTypes, Zenon
  <2>2. CASE ~Exit(FALSE)
    <3>1. /\ pc = "sort" /\ pc' = "books"
          /\ UNCHANGED <<inbox, shelf_cnt, shelves_all, quiet, unsettled>>
      BY <1>9, <2>2, Zenon DEF Conclude
    <3>2. pc \in {"sort"} \cup After /\ pc' \in After
      BY <3>1 DEF After
    <3>. QED
      BY <1>1, <3>1, <3>2, AfterTypes
  <2>. QED
    BY <2>1, <2>2, Zenon
<1>10. CASE client_books_count_sync
  <2>1. CASE Exit(FALSE)
    BY <2>1, ExitTypes, ZenonT(30)
  <2>2. CASE ~Exit(FALSE)
    <3>1. /\ pc' = "in" /\ inbox' = <<>> /\ shelf_cnt' = 0
          /\ UNCHANGED <<shelves_all, quiet, unsettled>>
      BY <1>10, <2>2, Zenon DEF client_books_count_sync
    <3>2. Counts({})'
      BY <3>1, FS_EmptySet DEF Counts, Before
    <3>3. Unread'
      BY <1>1, <3>1 DEF Unread, After
    <3>. QED
      BY <1>1, <3>1, <3>2, <3>3 DEF TypeInv
  <2>. QED
    BY <2>1, <2>2
<1>11. (pc # "in") \in BOOLEAN
  OBVIOUS
<1>12. CASE client_build_shelf
  <2>1. pc = "in" /\ (Paged \/ Exit(pc # "in"))
    BY <1>12 DEF client_build_shelf, EndInStore
  <2>. QED
    BY <1>11, <2>1, PagedTypes, ExitTypes, Zenon
<1>13. CASE display_lookthrough_page
  <2>1. CASE Paged \/ Exit(pc # "in")
    BY <1>11, <1>13, <2>1, PagedTypes, ExitTypes, Zenon DEF display_lookthrough_page
  <2>2. CASE ~(Paged \/ Exit(pc # "in"))
    <3>1. /\ pc = "in" /\ pc' = "scanning"
          /\ UNCHANGED <<inbox, shelf_cnt, shelves_all, quiet, unsettled>>
      BY <1>13, <2>2 DEF display_lookthrough_page, client_shelf_delete_itself, EndInDelete, memory
    <3>2. pc \in {"sort"} \cup After /\ pc' \in After
      BY <3>1 DEF After
    <3>. QED
      BY <1>1, <3>1, <3>2, AfterTypes, ZenonT(30)
  <2>. QED
    BY <2>1, <2>2
<1>14. CASE OtherClient
  <2>1. /\ UNCHANGED <<saved, inbox, shelves_all, shelf_cnt, code, pc, unsettled>>
        /\ quiet' \in BOOLEAN
    BY <1>14, ZenonT(30) DEF OtherClient, disk, memory
  <2>2. Counts(S)' /\ Unread'
    BY <1>2, <2>1 DEF Counts, TypeInv, Unread
  <2>. QED
    BY <1>1, <2>1, <2>2 DEF TypeInv
<1>. QED
  BY <1>3, <1>5, <1>6, <1>7, <1>8, <1>9, <1>10, <1>12, <1>13, <1>14, ZenonT(30)

LEMMA TypeStep == SyncInv /\ TypeInv /\ [Next]_vars => TypeInv'
<1> SUFFICES ASSUME SyncInv, TypeInv, [Next]_vars PROVE TypeInv'
  OBVIOUS
<1>1. CASE Next
  BY <1>1, RequestListTypes, ReceiveRowTypes, RequestPointedTypes, ReceivePointedTypes, OtherTypes
     DEF Next, Sync
<1>2. CASE UNCHANGED vars
  <2>1. UNCHANGED <<saved, inbox, shelves_all, shelf_cnt, code, pc, quiet, unsettled>>
    BY <1>2 DEF vars, disk, memory
  <2>2. PICK S : Counts(S)
    BY ZenonT(30) DEF TypeInv
  <2>3. Counts(S)' /\ Unread'
    BY <2>1, <2>2 DEF Counts, TypeInv, Unread
  <2>. QED
    BY <2>1, <2>3 DEF TypeInv
<1>. QED
  BY <1>1, <1>2

LEMMA TypeInit == Init => TypeInv
<1> SUFFICES ASSUME Init PROVE TypeInv
  OBVIOUS
<1>1. pc = "out" /\ inbox = <<>> /\ shelves_all = 0 /\ shelf_cnt = 0 /\ quiet = TRUE /\ unsettled = FALSE
  BY DEF Init
<1>2. Counts({})
  BY <1>1, FS_EmptySet DEF Counts
<1>3. Unread
  BY <1>1 DEF Unread, After
<1>4. shelves_all \in 0..MAX_SHELF_NUM
  BY <1>1, CapacityAssumption
<1>5. quiet \in BOOLEAN /\ unsettled \in BOOLEAN
  BY <1>1, Zenon
<1>. QED
  BY <1>2, <1>3, <1>4, <1>5 DEF TypeInv

\* The counts, the unread answers and the marks stay within their bounds: no
\* shelf is synchronised twice in a login, although rows left unread by the
\* request for one shelf are taken for the answer to the next.
THEOREM TypeCorrect == Spec => []TypeOK
<1>1. SyncInv /\ TypeInv => TypeOK
  <2> SUFFICES ASSUME SyncInv, TypeInv PROVE TypeOK
    OBVIOUS
  <2>1. Shape /\ MAX_SHELF_NUM \in Nat
    BY CapacityAssumption DEF SyncInv
  <2>2. shelf_cnt \in 0..MAX_SHELF_NUM
    <3>1. PICK S : Counts(S)
      BY DEF TypeInv
    <3>. QED
      BY <3>1, SomeShelves DEF Counts
  <2>3. Len(inbox) <= MAX_SHELF_NUM + 1
    <3>1. Len(inbox) \in Nat /\ code \in 0..MAX_SHELF_NUM
      BY <2>1 DEF Shape
    <3>2. CASE pc \in Before
      <4>1. Len(inbox) = 0
        BY <3>2 DEF SyncInv, Stream
      <4>. QED
        BY <2>1, <4>1
    <3>3. CASE pc \notin Before
      BY <2>1, <3>1, <3>3 DEF Shape, TypeInv, Unread, During, After
    <3>. QED
      BY <3>2, <3>3
  <2>. QED
    BY <2>1, <2>2, <2>3 DEF TypeInv, TypeOK, Shape, Info
<1>2. Spec => []TypeInv
  BY SyncAlways, TypeInit, TypeStep, PTL DEF Spec
<1>. QED
  BY <1>1, <1>2, SyncAlways, PTL

=============================================================================
