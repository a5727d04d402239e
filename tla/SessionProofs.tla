--------------------------- MODULE SessionProofs ----------------------------
(***************************************************************************)
(* Proofs about Session, for every set of clients and of descriptors, any  *)
(* number of requests and heartbeats, and whether or not answers are late  *)
(* and clients leave.                                                      *)
(***************************************************************************)
EXTENDS Session, WellFoundedInduction, TLAPS

\* A non-empty set of numbers with a bound has a largest one.
LEMMA MaxExists ==
  ASSUME NEW b \in Nat, NEW S, S \subseteq Nat, S # {}, \A x \in S : x <= b
  PROVE  Max(S) \in S /\ \A x \in S : x <= Max(S)
<1> DEFINE R == OpToRel(<, Nat)
           T == {b - x : x \in S}
<1>1. T \subseteq Nat /\ T # {}
  <2>1. \A x \in S : b - x \in Nat
    OBVIOUS
  <2>2. PICK x \in S : TRUE
    BY Zenon
  <2>3. b - x \in T
    OBVIOUS
  <2>. QED
    BY <2>1, <2>3
<1>2. PICK t \in T : \A y \in T : <<y, t>> \notin R
  <2>1. IsWellFoundedOn(R, Nat)
    BY NatLessThanWellFounded
  <2> HIDE DEF R, T
  <2>. QED
    BY <1>1, <2>1, WFMin, Zenon
<1>3. \A y \in T : ~(y < t)
  BY <1>1, <1>2, Zenon DEF OpToRel
<1>4. PICK s \in S : t = b - s
  OBVIOUS
<1>5. \A x \in S : x <= s
  BY <1>3, <1>4
<1>. QED
  BY <1>5, Zenon DEF Max

-----------------------------------------------------------------------------
(***************************************************************************)
(* The descriptors.  RecordedExactly and NeverBlocks are not inductive: a  *)
(* close removes one descriptor and so must not hit two connections        *)
(* (Injective); an accept must not lose an earlier descriptor of its       *)
(* client (Unaccepted); and the bound of the scan moves while it is under  *)
(* way, so what it has still to visit is stated without that bound         *)
(* (AllReady).                                                             *)
(***************************************************************************)
Descriptors ==
  /\ phase \in {"wait", "fetch", "exited", "killed"}
  /\ readfds \subseteq Fd \cup {server_sockfd}
  /\ max_fd_num \in Nat
  /\ fd_loop \in Nat
  /\ fdOf \in [Client -> Fd \cup {NoFd}]
  /\ DOMAIN link = Client /\ link = [c \in Client |-> link[c]]
  /\ up \in [Client -> Seq(Packet)]
  /\ sent \in [Client -> Nat]
  /\ DOMAIN mode = Client /\ mode = [c \in Client |-> mode[c]]

Injective == \A c, d \in Client : fdOf[c] = fdOf[d] /\ fdOf[c] # NoFd => c = d

Unaccepted ==
  \A c \in Client : /\ c \in pending => fdOf[c] = NoFd /\ mode[c] # "new"
                    /\ mode[c] = "new" => fdOf[c] = NoFd

AllReady == phase = "fetch" => \A f \in readfds : fd_loop <= f => f \in recordfds /\ Ready(f)

FdInv == Descriptors /\ RecordedExactly /\ Injective /\ Unaccepted /\ AllReady

\* The server starts with the listening socket alone.
LEMMA FdInit == Init => FdInv
<1> SUFFICES ASSUME Init PROVE FdInv
  OBVIOUS
<1> USE DescriptorAssumption
<1>1. Descriptors
  BY DEF Init, SrvInit, Descriptors
<1>2. RecordedExactly /\ Injective /\ Unaccepted /\ AllReady
  BY DEF Init, SrvInit, RecordedExactly, Injective, Unaccepted, AllReady
<1>. QED
  BY <1>1, <1>2 DEF FdInv

\* What stays ready: a descriptor whose clients and their readiness do not
\* change, and the listening socket while nobody is accepted.
LEMMA StillReady ==
  ASSUME NEW f, Ready(f),
         f = server_sockfd => pending \subseteq pending',
         \A c \in ClientOn(f) : fdOf'[c] = fdOf[c] /\ (Readable(c) => Readable(c)')
  PROVE  Ready(f)'
BY DEF Ready, ClientOn

\* select returns recorded descriptors that are ready.
LEMMA WaitKeeps == FdInv /\ socket_srv_wait /\ UNCHANGED clivars => FdInv'
<1> SUFFICES ASSUME FdInv, socket_srv_wait, UNCHANGED clivars PROVE FdInv'
  OBVIOUS
<1> USE DescriptorAssumption
<1>1. recordfds \subseteq Fd \cup {server_sockfd}
  BY DEF FdInv, Descriptors, RecordedExactly, Running, socket_srv_wait
<1>2. Descriptors'
  BY <1>1 DEF FdInv, Descriptors, socket_srv_wait, netvars, clivars
<1>3. (RecordedExactly /\ Injective /\ Unaccepted)'
  BY DEF FdInv, RecordedExactly, Running, Injective, Unaccepted, socket_srv_wait, netvars, clivars
<1>4. AllReady'
  <2> SUFFICES ASSUME NEW f \in readfds' PROVE f \in recordfds' /\ Ready(f)'
    BY DEF AllReady
  <2>1. f \in recordfds /\ Ready(f)
    BY DEF socket_srv_wait
  <2>. QED
    BY <2>1, StillReady DEF socket_srv_wait, netvars, Readable
<1>. QED
  BY <1>2, <1>3, <1>4 DEF FdInv

\* The end of a round touches no descriptor.
LEMMA EndRoundKeeps == FdInv /\ EndRound /\ UNCHANGED clivars => FdInv'
BY DEF FdInv, EndRound, Descriptors, RecordedExactly, Running, Injective, Unaccepted,
       AllReady, netvars, clivars

\* An accepted connection gets a descriptor no connection has.
LEMMA AcceptKeeps ==
  ASSUME FdInv, NEW c \in Client, AcceptClient(c), UNCHANGED clivars
  PROVE  FdInv'
<1> USE DescriptorAssumption
<1>1. PICK newfd \in FreeFd :
        /\ fdOf' = [fdOf EXCEPT ![c] = newfd]
        /\ recordfds' = recordfds \cup {newfd}
        /\ max_fd_num' = NewMax(newfd)
  BY Zenon DEF AcceptClient
<1>2. /\ newfd \in Fd /\ newfd \in Nat /\ newfd # NoFd /\ newfd # server_sockfd
      /\ \A d \in Client : fdOf[d] # newfd
  BY <1>1, Zenon DEF FreeFd
<1>3. /\ phase = "fetch" /\ fd_loop' = server_sockfd + 1 /\ server_sockfd \in readfds
      /\ fd_loop <= server_sockfd
      /\ UNCHANGED <<phase, readfds, link, up, mode, sent>> /\ pending' = pending \ {c}
      /\ c \in pending
  BY DEF AcceptClient, Visit, Remaining, netvars, clivars
<1>4. /\ fdOf \in [Client -> Fd \cup {NoFd}]
      /\ fdOf[c] = NoFd /\ mode[c] # "new"
      /\ recordfds = {server_sockfd} \cup ({fdOf[d] : d \in Client} \ {NoFd})
      /\ max_fd_num \in recordfds /\ max_fd_num \in Nat /\ fd_loop \in Nat
      /\ \A f \in recordfds : f <= max_fd_num
      /\ recordfds \subseteq Nat
  BY <1>3 DEF FdInv, Descriptors, RecordedExactly, Running, Unaccepted
<1>5. \A d \in Client : fdOf'[d] = IF d = c THEN newfd ELSE fdOf[d]
  BY <1>1, <1>4
<1>6. Descriptors'
  BY <1>1, <1>2, <1>3, <1>4 DEF FdInv, Descriptors, NewMax
<1>7. RecordedExactly'
  <2>1. {fdOf'[d] : d \in Client} \ {NoFd} = ({fdOf[d] : d \in Client} \ {NoFd}) \cup {newfd}
    BY <1>2, <1>4, <1>5
  <2>2. max_fd_num' \in recordfds' /\ \A f \in recordfds' : f <= max_fd_num'
    BY <1>1, <1>2, <1>4 DEF NewMax
  <2>. QED
    BY <1>1, <1>4, <2>1, <2>2 DEF RecordedExactly
<1>8. Injective' /\ Unaccepted'
  BY <1>2, <1>3, <1>4, <1>5 DEF FdInv, Injective, Unaccepted
<1>9. AllReady'
  <2> SUFFICES ASSUME NEW f \in readfds, server_sockfd + 1 <= f PROVE f \in recordfds' /\ Ready(f)'
    BY <1>3 DEF AllReady
  <2>0. f \in Nat
    BY DEF FdInv, Descriptors
  <2>1. fd_loop <= f /\ f # server_sockfd
    BY <1>3, <1>4, <2>0
  <2>2. f \in recordfds /\ Ready(f)
    BY <1>3, <2>1 DEF FdInv, AllReady
  <2>3. \A d \in ClientOn(f) : d # c
    BY <1>4, <2>0, <2>2 DEF ClientOn
  <2>. QED
    BY <1>1, <1>3, <1>5, <2>1, <2>2, <2>3, StillReady DEF ClientOn, Readable
<1>. QED
  BY <1>6, <1>7, <1>8, <1>9 DEF FdInv

\* A closed connection's descriptor is forgotten, and the bound of the scan is
\* again the largest of the others.
LEMMA CloseKeeps ==
  ASSUME FdInv, NEW c \in Client, CloseClient(c), UNCHANGED clivars
  PROVE  FdInv'
<1> USE DescriptorAssumption
<1> DEFINE fd == fdOf[c]
<1>1. /\ phase = "fetch" /\ fd_loop' = fd + 1 /\ fd \in readfds /\ fd_loop <= fd
      /\ fdOf' = [fdOf EXCEPT ![c] = NoFd]
      /\ recordfds' = recordfds \ {fd}
      /\ max_fd_num' = Max({f \in recordfds' : f <= max_fd_num})
      /\ UNCHANGED <<phase, readfds, pending, link, up, mode, sent>>
  BY DEF CloseClient, Visit, Remaining, Forget, find_max_fd, netvars, clivars
<1>2. /\ fdOf \in [Client -> Fd \cup {NoFd}]
      /\ recordfds = {server_sockfd} \cup ({fdOf[d] : d \in Client} \ {NoFd})
      /\ max_fd_num \in Nat /\ fd_loop \in Nat
      /\ \A f \in recordfds : f <= max_fd_num
      /\ recordfds \subseteq Nat
  BY <1>1 DEF FdInv, Descriptors, RecordedExactly, Running
<1>3. fd \in recordfds /\ fd \in Fd /\ fd \in Nat
  <2>1. fd \in recordfds
    BY <1>1 DEF FdInv, AllReady
  <2>2. fd \in Fd \cup {NoFd} /\ fd \in Nat
    BY <1>2, <2>1
  <2>3. fd # NoFd
    BY <1>1 DEF FdInv, Descriptors
  <2>. QED
    BY <2>1, <2>2, <2>3
<1>4. \A d \in Client : fdOf'[d] = IF d = c THEN NoFd ELSE fdOf[d]
  BY <1>1, <1>2
<1>5. recordfds' = {server_sockfd} \cup ({fdOf'[d] : d \in Client} \ {NoFd})
  BY <1>1, <1>2, <1>3, <1>4 DEF FdInv, Injective
<1>6. {f \in recordfds' : f <= max_fd_num} = recordfds'
  BY <1>1, <1>2
<1>7. max_fd_num' \in recordfds' /\ \A f \in recordfds' : f <= max_fd_num'
  <2>1. recordfds' \subseteq Nat /\ recordfds' # {} /\ \A f \in recordfds' : f <= max_fd_num
    BY <1>1, <1>2, <1>5
  <2>. QED
    BY <1>1, <1>2, <1>6, <2>1, MaxExists, Zenon
<1>8. Descriptors' /\ RecordedExactly'
  <2>1. fdOf' \in [Client -> Fd \cup {NoFd}] /\ fd_loop' \in Nat
    BY <1>1, <1>2, <1>3
  <2>2. max_fd_num' \in Nat
    BY <1>1, <1>2, <1>7
  <2>3. Descriptors'
    BY <1>1, <2>1, <2>2 DEF FdInv, Descriptors
  <2>. QED
    BY <1>5, <1>7, <2>3 DEF RecordedExactly
<1>9. Injective' /\ Unaccepted'
  BY <1>1, <1>4 DEF FdInv, Injective, Unaccepted
<1>10. AllReady'
  <2> SUFFICES ASSUME NEW f \in readfds, fd + 1 <= f PROVE f \in recordfds' /\ Ready(f)'
    BY <1>1 DEF AllReady
  <2>0. f \in Nat
    BY DEF FdInv, Descriptors
  <2>1. fd_loop <= f /\ f # fd
    BY <1>1, <1>2, <1>3, <2>0
  <2>2. f \in recordfds /\ Ready(f)
    BY <1>1, <2>1 DEF FdInv, AllReady
  <2>. QED
    BY <1>1, <1>4, <2>1, <2>2, StillReady DEF ClientOn, Readable
<1>. QED
  BY <1>8, <1>9, <1>10 DEF FdInv

\* A step after which the server process is gone.
LEMMA DeathKeeps ==
  ASSUME FdInv, phase' \in {"exited", "killed"}, fd_loop' \in Nat,
         UNCHANGED <<readfds, max_fd_num, pending, fdOf, mode, sent>>,
         DOMAIN link' = Client /\ link' = [d \in Client |-> link'[d]],
         up' \in [Client -> Seq(Packet)]
  PROVE  FdInv'
<1>1. Descriptors'
  BY DEF FdInv, Descriptors
<1>2. RecordedExactly' /\ AllReady'
  BY DEF RecordedExactly, Running, AllReady
<1>3. Injective' /\ Unaccepted'
  BY DEF FdInv, Injective, Unaccepted
<1>. QED
  BY <1>1, <1>2, <1>3 DEF FdInv

\* Reading and answering a connection leaves the others as ready as they were.
LEMMA ProcessKeeps ==
  ASSUME FdInv, NEW c \in Client, socket_srv_process_request(c), UNCHANGED clivars
  PROVE  FdInv'
<1> USE DescriptorAssumption
<1> DEFINE fd == fdOf[c]
<1>1. /\ phase = "fetch" /\ fd_loop' = fd + 1 /\ fd \in readfds /\ fd_loop <= fd
      /\ UNCHANGED <<readfds, recordfds, max_fd_num, pending, fdOf, mode, sent>>
  BY DEF socket_srv_process_request, Visit, Remaining, clivars
<1>2. PICK got \in Arrived(c) :
        /\ up' = [up EXCEPT ![c] = SubSeq(@, Len(got) + 1, Len(@))]
        /\ \E msgs : Send(c, msgs)
  BY Zenon DEF socket_srv_process_request
<1>3. /\ fd \in Nat /\ fd_loop \in Nat
      /\ up' \in [Client -> Seq(Packet)]
      /\ \A d \in Client \ {c} : up'[d] = up[d]
  <2>1. up \in [Client -> Seq(Packet)] /\ fd \in Nat /\ fd_loop \in Nat
    BY <1>1 DEF FdInv, Descriptors
  <2>2. Len(got) \in Nat
    BY <2>1 DEF Arrived
  <2>3. SubSeq(up[c], Len(got) + 1, Len(up[c])) \in Seq(Packet)
    BY <2>1, <2>2
  <2>. QED
    BY <1>2, <2>1, <2>3
<1>4. CASE UNCHANGED phase /\ (UNCHANGED link \/ link' = [link EXCEPT ![c] = "reset"])
  <2>1. /\ DOMAIN link' = Client /\ link' = [d \in Client |-> link'[d]]
        /\ \A d \in Client \ {c} : link'[d] = link[d]
    BY <1>4 DEF FdInv, Descriptors
  <2>2. Descriptors' /\ RecordedExactly' /\ Injective' /\ Unaccepted'
    BY <1>1, <1>3, <1>4, <2>1, SMTT(30)
    DEF FdInv, Descriptors, RecordedExactly, Running, Injective, Unaccepted
  <2>3. AllReady'
    <3> SUFFICES ASSUME NEW f \in readfds, fd + 1 <= f PROVE f \in recordfds' /\ Ready(f)'
      BY <1>1 DEF AllReady
    <3>0. f \in Nat
      BY DEF FdInv, Descriptors
    <3>1. fd_loop <= f /\ f # fd
      BY <1>1, <1>3, <3>0
    <3>2. f \in recordfds /\ Ready(f)
      BY <1>1, <3>1 DEF FdInv, AllReady
    <3>. QED
      BY <1>1, <1>3, <2>1, <3>1, <3>2, StillReady DEF ClientOn, Readable
  <2>. QED
    BY <2>2, <2>3 DEF FdInv
<1>5. CASE Die("killed")
  <2>1. DOMAIN link' = Client /\ link' = [d \in Client |-> link'[d]] /\ phase' = "killed"
    BY <1>5 DEF Die
  <2>. QED
    BY <1>1, <1>3, <2>1, DeathKeeps
<1>. QED
  BY <1>2, <1>4, <1>5 DEF Send

\* The clients' steps only add to what there is to read and to accept.
LEMMA ClientKeeps ==
  ASSUME FdInv, NEW c \in Client,
         UNCHANGED <<phase, readfds, recordfds, max_fd_num, fd_loop, fdOf>>,
         sent' \in [Client -> Nat],
         DOMAIN link' = Client /\ link' = [d \in Client |-> link'[d]],
         up' \in [Client -> Seq(Packet)],
         DOMAIN mode' = Client /\ mode' = [d \in Client |-> mode'[d]],
         pending' = pending \/ (pending' = pending \cup {c} /\ mode[c] = "new"),
         \A d \in Client : mode'[d] = mode[d] \/ mode'[d] # "new",
         c \in pending' \ pending => mode'[c] # "new",
         \A d \in Client : Readable(d) => Readable(d)' \/ mode[d] = "new"
  PROVE  FdInv'
<1>1. Descriptors'
  BY DEF FdInv, Descriptors
<1>2. RecordedExactly' /\ Injective'
  BY DEF FdInv, RecordedExactly, Running, Injective
<1>3. Unaccepted'
  <2> SUFFICES ASSUME NEW d \in Client
               PROVE  /\ d \in pending' => fdOf[d] = NoFd /\ mode'[d] # "new"
                      /\ mode'[d] = "new" => fdOf[d] = NoFd
    BY DEF Unaccepted
  <2>1. CASE d \in pending
    BY <2>1, Zenon DEF FdInv, Unaccepted
  <2>2. CASE d \notin pending
    BY <2>2, Zenon DEF FdInv, Unaccepted
  <2>. QED
    BY <2>1, <2>2
<1>4. AllReady'
  <2> SUFFICES ASSUME phase = "fetch", NEW f \in readfds, fd_loop <= f
               PROVE  f \in recordfds /\ Ready(f)'
    BY DEF AllReady
  <2>1. f \in recordfds /\ Ready(f)
    BY DEF FdInv, AllReady
  <2>2. f # NoFd
    BY DescriptorAssumption DEF FdInv, Descriptors
  <2>3. \A d \in ClientOn(f) : mode[d] # "new"
    BY <2>2 DEF FdInv, Unaccepted, ClientOn
  <2>. QED
    BY <2>1, <2>3, StillReady, Zenon DEF ClientOn
<1>. QED
  BY <1>1, <1>2, <1>3, <1>4 DEF FdInv

\* Every step keeps the invariant.
LEMMA FdStep == FdInv /\ [Next]_vars => FdInv'
<1> SUFFICES ASSUME FdInv, [Next]_vars PROVE FdInv'
  OBVIOUS
<1>1. CASE socket_srv_wait /\ UNCHANGED clivars
  BY <1>1, WaitKeeps
<1>2. CASE EndRound /\ UNCHANGED clivars
  BY <1>2, EndRoundKeeps
<1>3. CASE AcceptFails /\ UNCHANGED clivars
  <2>1. /\ phase' = "exited" /\ fd_loop' = server_sockfd + 1
        /\ UNCHANGED <<readfds, max_fd_num, pending, fdOf, up, mode, sent>>
        /\ DOMAIN link' = Client /\ link' = [d \in Client |-> link'[d]]
    BY <1>3 DEF AcceptFails, Visit, Die, clivars
  <2>2. fd_loop' \in Nat
    BY <2>1, DescriptorAssumption
  <2>3. up' \in [Client -> Seq(Packet)]
    BY <2>1 DEF FdInv, Descriptors
  <2>. QED
    BY <2>1, <2>2, <2>3, DeathKeeps
<1>4. ASSUME NEW c \in Client, AcceptClient(c) \/ CloseClient(c) \/ socket_srv_process_request(c),
             UNCHANGED clivars
      PROVE  FdInv'
  BY <1>4, AcceptKeeps, CloseKeeps, ProcessKeeps
<1>5. ASSUME NEW c \in Client, socket_client_init(c) PROVE FdInv'
  <2>1. /\ UNCHANGED <<phase, readfds, recordfds, max_fd_num, fd_loop, fdOf, up, sent>>
        /\ link' = [link EXCEPT ![c] = "open"] /\ mode' = [mode EXCEPT ![c] = "idle"]
        /\ mode[c] = "new" /\ pending' = pending \cup {c}
    BY <1>5 DEF socket_client_init
  <2>2. /\ DOMAIN link' = Client /\ link' = [d \in Client |-> link'[d]]
        /\ DOMAIN mode' = Client /\ mode' = [d \in Client |-> mode'[d]]
        /\ up' \in [Client -> Seq(Packet)] /\ sent' \in [Client -> Nat]
        /\ \A d \in Client : d # c => link'[d] = link[d] /\ mode'[d] = mode[d]
        /\ mode'[c] = "idle"
    BY <2>1, Zenon DEF FdInv, Descriptors
  <2>3. \A d \in Client : Readable(d) => Readable(d)' \/ mode[d] = "new"
    BY <2>1, <2>2 DEF Readable
  <2>. QED
    BY <2>1, <2>2, <2>3, ClientKeeps, Zenon
<1>6. ASSUME NEW c \in Client, NEW p \in Packet,
             mode[c] # "new", link[c] = "open",
             up' = [up EXCEPT ![c] = Append(@, p)],
             UNCHANGED <<srvvars, link>>,
             sent' \in [Client -> Nat],
             mode' = mode \/ mode' = [mode EXCEPT ![c] = "waiting"]
      PROVE  FdInv'
  <2>1. /\ up' \in [Client -> Seq(Packet)]
        /\ \A d \in Client : up'[d] = IF d = c THEN Append(up[c], p) ELSE up[d]
        /\ Append(up[c], p) # <<>>
        /\ DOMAIN mode' = Client /\ mode' = [d \in Client |-> mode'[d]]
        /\ \A d \in Client : mode'[d] = mode[d] \/ mode'[d] # "new"
    BY <1>6 DEF FdInv, Descriptors
  <2>. QED
    BY <1>6, <2>1, ClientKeeps, Zenon DEF srvvars, Readable, FdInv, Descriptors
<1>7. ASSUME NEW c \in Client, NEW kind \in {"plain", "find"}, socket_client_send_request(c, kind)
      PROVE  FdInv'
  <2>1. /\ [kind |-> kind, n |-> sent[c] + 1] \in Packet
        /\ sent' \in [Client -> Nat]
    BY <1>7 DEF FdInv, Descriptors, Packet, socket_client_send_request
  <2>. QED
    BY <1>6, <1>7, <2>1, Zenon DEF socket_client_send_request
<1>8. ASSUME NEW c \in Client, socket_client_send_heartbeat(c) PROVE FdInv'
  <2>1. [kind |-> "heartbeat"] \in Packet /\ sent' \in [Client -> Nat]
    BY <1>8 DEF FdInv, Descriptors, Packet, socket_client_send_heartbeat
  <2>. QED
    BY <1>6, <1>8, <2>1, Zenon DEF socket_client_send_heartbeat
<1>9. ASSUME NEW c \in Client, UNCHANGED <<srvvars, link, up, sent>>,
             mode' = mode \/ mode' = [mode EXCEPT ![c] = "idle"]
      PROVE  FdInv'
  <2>1. /\ DOMAIN mode' = Client /\ mode' = [d \in Client |-> mode'[d]]
        /\ \A d \in Client : mode'[d] = mode[d] \/ mode'[d] # "new"
    BY <1>9 DEF FdInv, Descriptors
  <2>. QED
    BY <1>9, <2>1, ClientKeeps, Zenon DEF srvvars, Readable, FdInv, Descriptors
<1>10. ASSUME NEW c \in Client, socket_client_get_response(c) \/ ReceiveNothing(c) PROVE FdInv'
  BY <1>9, <1>10 DEF socket_client_get_response, ReceiveNothing, Accept, Finish, netvars
<1>11. ASSUME NEW c \in Client, Leave(c) PROVE FdInv'
  <2>1. /\ UNCHANGED <<srvvars, up, sent>>
        /\ mode' = [mode EXCEPT ![c] = "over"]
        /\ link' = [link EXCEPT ![c] = IF @ = "open" THEN "gone" ELSE @]
    BY <1>11 DEF Leave
  <2>2. /\ DOMAIN link' = Client /\ link' = [d \in Client |-> link'[d]]
        /\ DOMAIN mode' = Client /\ mode' = [d \in Client |-> mode'[d]]
        /\ \A d \in Client : mode'[d] = mode[d] \/ mode'[d] # "new"
        /\ \A d \in Client : link[d] \in {"gone", "reset"} => link'[d] \in {"gone", "reset"}
    BY <2>1, Zenon DEF FdInv, Descriptors
  <2>. QED
    BY <2>1, <2>2, ClientKeeps, Zenon DEF srvvars, Readable, FdInv, Descriptors
<1>12. CASE UNCHANGED vars
  <2>1. UNCHANGED <<phase, readfds, recordfds, max_fd_num, fd_loop, pending, fdOf, link, up,
                  mode, sent>>
    BY <1>12 DEF vars, srvvars, netvars, clivars
  <2>. QED
    BY <2>1 DEF FdInv, Descriptors, RecordedExactly, Running, Injective, Unaccepted,
                AllReady, Ready, ClientOn, Readable
<1>. QED
  BY <1>1, <1>2, <1>3, <1>4, <1>5, <1>7, <1>8, <1>10, <1>11, <1>12 DEF Next, SrvNext

\* The invariant holds in every reachable state.
LEMMA FdAlways == Spec => []FdInv
<1>. QED
  BY FdInit, FdStep, PTL DEF Spec

\* The descriptor set of select is exact and its bound is the largest recorded
\* descriptor, however connections come and go.
THEOREM RecordedAlways == Spec => []RecordedExactly
<1>1. FdInv => RecordedExactly
  BY DEF FdInv
<1>. QED
  BY <1>1, FdAlways, PTL

\* The scan never reaches a descriptor that is closed or has nothing to read,
\* however many connections are accepted, closed and reused during a round.
THEOREM NeverBlocksAlways == Spec => []NeverBlocks
<1>1. FdInv => NeverBlocks
  BY DEF FdInv, AllReady, NeverBlocks, Remaining
<1>. QED
  BY <1>1, FdAlways, PTL

-----------------------------------------------------------------------------
(***************************************************************************)
(* The order of execution.  ExecutedOnceInOrder speaks of the requests     *)
(* that took effect; it holds because the requests still on their way to   *)
(* the server are in the order they were sent too, and all of them were    *)
(* sent after the executed ones.                                           *)
(***************************************************************************)
IsRequest(p) == p.kind # "heartbeat"

\* The order between the requests executed (e), on their way (u) and sent (s).
Ordered(e, u, s) ==
  /\ \A i \in 1..Len(e) : e[i] <= s
  /\ \A i, j \in 1..Len(e) : i < j => e[i] < e[j]
  /\ \A j \in 1..Len(u) : IsRequest(u[j]) => u[j].n \in Nat /\ u[j].n <= s
  /\ \A i, j \in 1..Len(u) : i < j /\ IsRequest(u[i]) /\ IsRequest(u[j]) => u[i].n < u[j].n
  /\ \A i \in 1..Len(e), j \in 1..Len(u) : IsRequest(u[j]) => e[i] < u[j].n

OrderInv ==
  /\ executed \in [Client -> Seq(Nat)]
  /\ \A c \in Client : Ordered(executed[c], up[c], sent[c])

\* A packet appended behind the others: a heartbeat, or the next request.
LEMMA OrderedSend ==
  ASSUME NEW e \in Seq(Nat), NEW u \in Seq(Packet), NEW s \in Nat, Ordered(e, u, s),
         NEW p \in Packet, NEW t \in Nat,
         \/ ~IsRequest(p) /\ t = s
         \/ p.n = t /\ t = s + 1
  PROVE  Ordered(e, Append(u, p), t)
<1> DEFINE v == Append(u, p)
<1>1. /\ Len(v) = Len(u) + 1 /\ Len(u) \in Nat /\ Len(e) \in Nat
      /\ \A j \in 1..Len(u) : v[j] = u[j]
      /\ v[Len(u) + 1] = p
  OBVIOUS
<1>2. \A j \in 1..Len(v) : j \in 1..Len(u) \/ j = Len(u) + 1
  BY <1>1
<1>3. \A i \in 1..Len(e) : e[i] \in Nat /\ e[i] <= s
  BY DEF Ordered
<1>4. s <= t /\ (IsRequest(p) => p.n = s + 1 /\ p.n = t)
  OBVIOUS
<1> HIDE DEF v
<1>5. \A j \in 1..Len(v) : IsRequest(v[j]) => v[j].n \in Nat /\ v[j].n <= t
  BY <1>1, <1>2, <1>4, SMTT(30) DEF Ordered
<1>6. \A i \in 1..Len(e), j \in 1..Len(v) : IsRequest(v[j]) => e[i] < v[j].n
  <2> SUFFICES ASSUME NEW i \in 1..Len(e), NEW j \in 1..Len(v), IsRequest(v[j])
               PROVE  e[i] < v[j].n
    OBVIOUS
  <2>1. CASE j \in 1..Len(u)
    BY <1>1, <2>1, Zenon DEF Ordered
  <2>2. CASE j = Len(u) + 1
    BY <1>1, <1>3, <1>4, <2>2, SMTT(30)
  <2>. QED
    BY <1>2, <2>1, <2>2
<1>7. \A i, j \in 1..Len(v) : i < j /\ IsRequest(v[i]) /\ IsRequest(v[j]) => v[i].n < v[j].n
  <2> SUFFICES ASSUME NEW i \in 1..Len(v), NEW j \in 1..Len(v), i < j,
                      IsRequest(v[i]), IsRequest(v[j])
               PROVE  v[i].n < v[j].n
    OBVIOUS
  <2>1. i \in 1..Len(u)
    BY <1>1, <1>2
  <2>2. CASE j \in 1..Len(u)
    BY <1>1, <2>1, <2>2, ZenonT(30) DEF Ordered
  <2>3. CASE j = Len(u) + 1
    <3>1. v[i].n \in Nat /\ v[i].n <= s
      BY <1>1, <2>1, Zenon DEF Ordered
    <3>. QED
      BY <1>1, <1>4, <2>3, <3>1
  <2>. QED
    BY <1>2, <2>2, <2>3
<1>8. \A i \in 1..Len(e) : e[i] <= t
  BY <1>3, <1>4
<1>9. Ordered(e, v, t)
  BY <1>5, <1>6, <1>7, <1>8 DEF Ordered
<1>. QED
  BY <1>9 DEF v

\* What is left of a sequence after its first k elements.
LEMMA RestFacts ==
  ASSUME NEW T, NEW u \in Seq(T), NEW k \in 1..Len(u)
  PROVE  /\ SubSeq(u, k + 1, Len(u)) \in Seq(T) /\ Len(u) \in Nat
         /\ Len(SubSeq(u, k + 1, Len(u))) = Len(u) - k
         /\ \A j \in 1..Len(SubSeq(u, k + 1, Len(u))) :
              SubSeq(u, k + 1, Len(u))[j] = u[j + k] /\ j + k \in 1..Len(u)
BY SMTT(30)

\* The server takes packets from the front; nothing takes effect.
LEMMA OrderedSkip ==
  ASSUME NEW e \in Seq(Nat), NEW u \in Seq(Packet), NEW s \in Nat, Ordered(e, u, s),
         NEW k \in 1..Len(u)
  PROVE  /\ SubSeq(u, k + 1, Len(u)) \in Seq(Packet)
         /\ Ordered(e, SubSeq(u, k + 1, Len(u)), s)
         /\ Len(SubSeq(u, k + 1, Len(u))) = Len(u) - k
         /\ \A j \in 1..Len(SubSeq(u, k + 1, Len(u))) : SubSeq(u, k + 1, Len(u))[j] = u[j + k]
<1> DEFINE v == SubSeq(u, k + 1, Len(u))
<1>1. /\ v \in Seq(Packet) /\ Len(v) = Len(u) - k /\ Len(u) \in Nat
      /\ \A j \in 1..Len(v) : v[j] = u[j + k] /\ j + k \in 1..Len(u)
  BY RestFacts
<1> HIDE DEF v
<1>2. \A j \in 1..Len(v) : IsRequest(v[j]) => v[j].n \in Nat /\ v[j].n <= s
  BY <1>1, Zenon DEF Ordered
<1>3. \A i, j \in 1..Len(v) : i < j /\ IsRequest(v[i]) /\ IsRequest(v[j]) => v[i].n < v[j].n
  <2> SUFFICES ASSUME NEW i \in 1..Len(v), NEW j \in 1..Len(v), i < j,
                      IsRequest(v[i]), IsRequest(v[j])
               PROVE  v[i].n < v[j].n
    OBVIOUS
  <2>1. i + k < j + k /\ i + k \in 1..Len(u) /\ j + k \in 1..Len(u)
    BY <1>1
  <2>. QED
    BY <1>1, <2>1, Zenon DEF Ordered
<1>4. \A i \in 1..Len(e), j \in 1..Len(v) : IsRequest(v[j]) => e[i] < v[j].n
  BY <1>1, Zenon DEF Ordered
<1>. QED
  BY <1>1, <1>2, <1>3, <1>4, Zenon DEF Ordered, v

\* The server takes one request and it takes effect.
LEMMA OrderedExecute ==
  ASSUME NEW e \in Seq(Nat), NEW u \in Seq(Packet), NEW s \in Nat, Ordered(e, u, s),
         NEW k \in 1..Len(u), k = 1, IsRequest(u[1])
  PROVE  /\ Append(e, u[1].n) \in Seq(Nat)
         /\ Ordered(Append(e, u[1].n), SubSeq(u, k + 1, Len(u)), s)
<1> DEFINE v == SubSeq(u, k + 1, Len(u))
           x == u[1].n
           f == Append(e, x)
<1>1. v \in Seq(Packet) /\ Ordered(e, v, s)
  BY OrderedSkip
<1>2. /\ Len(v) = Len(u) - 1 /\ Len(u) \in Nat
      /\ \A j \in 1..Len(v) : v[j] = u[j + 1] /\ j + 1 \in 1..Len(u)
  <2>1. /\ Len(v) = Len(u) - k
        /\ \A j \in 1..Len(v) : v[j] = u[j + k]
    BY OrderedSkip, ZenonT(30)
  <2>2. Len(u) \in Nat
    OBVIOUS
  <2> HIDE DEF v
  <2>. QED
    BY <2>1, <2>2
<1>3. x \in Nat /\ x <= s /\ \A i \in 1..Len(e) : e[i] < x
  BY DEF Ordered
<1>4. /\ f \in Seq(Nat) /\ Len(f) = Len(e) + 1 /\ Len(e) \in Nat
      /\ \A i \in 1..Len(e) : f[i] = e[i]
      /\ f[Len(e) + 1] = x
  BY <1>3
<1>5. \A j \in 1..Len(v) : IsRequest(v[j]) => x < v[j].n
  <2> SUFFICES ASSUME NEW j \in 1..Len(v), IsRequest(v[j]) PROVE x < v[j].n
    OBVIOUS
  <2>1. j + 1 \in 1..Len(u) /\ 1 < j + 1 /\ v[j] = u[j + 1]
    BY <1>2
  <2>. QED
    BY <2>1 DEF Ordered
<1> HIDE DEF v, f, x
<1>6. \A i \in 1..Len(f) : i \in 1..Len(e) \/ i = Len(e) + 1
  BY <1>4
<1>7. \A i \in 1..Len(f) : f[i] <= s
  BY <1>1, <1>3, <1>4, <1>6, Zenon DEF Ordered
<1>8. \A i, j \in 1..Len(f) : i < j => f[i] < f[j]
  <2> SUFFICES ASSUME NEW i \in 1..Len(f), NEW j \in 1..Len(f), i < j PROVE f[i] < f[j]
    OBVIOUS
  <2>1. i \in 1..Len(e)
    BY <1>4, <1>6
  <2>2. CASE j \in 1..Len(e)
    BY <1>1, <1>4, <2>1, <2>2 DEF Ordered
  <2>3. CASE j = Len(e) + 1
    BY <1>3, <1>4, <2>1, <2>3, ZenonT(30)
  <2>. QED
    BY <1>6, <2>2, <2>3
<1>9. \A i \in 1..Len(f), j \in 1..Len(v) : IsRequest(v[j]) => f[i] < v[j].n
  BY <1>1, <1>4, <1>5, <1>6, Zenon DEF Ordered
<1>10. Ordered(f, v, s)
  BY <1>1, <1>7, <1>8, <1>9 DEF Ordered
<1>. QED
  BY <1>4, <1>10 DEF f, v, x

\* An answer that is not a failure answers the one request of the read.
LEMMA AnswersTheRead ==
  ASSUME NEW got \in Seq(Packet), NEW msgs \in Process(got),
         msgs # <<>>, msgs[1].response # "r_failed"
  PROVE  Len(got) = 1 /\ IsRequest(got[1]) /\ msgs[1].to = got[1].n
<1> DEFINE req == got[1]
<1>1. CASE Len(got) # 1
  <2>1. PICK n : msgs = <<Refusal(n)>>
    BY <1>1 DEF Process
  <2>. QED
    BY <2>1 DEF Refusal
<1>2. CASE Len(got) = 1
  <2>1. IsRequest(req) /\ msgs \in Answers(req)
    BY <1>2 DEF Process, IsRequest
  <2> HIDE DEF req
  <2>2. \A r : Reply(req, r).to = req.n
    BY DEF Reply
  <2>3. ASSUME NEW r, msgs = <<Reply(req, r)>> PROVE msgs[1].to = req.n
    BY <2>2, <2>3
  <2>4. ASSUME NEW n \in 0..DEFAULT_FINDS, NEW r,
               msgs = Append([i \in 1..n |-> Reply(req, "r_success")], Reply(req, r))
        PROVE  msgs[1].to = req.n
    <3> DEFINE rows == [i \in 1..n |-> Reply(req, "r_success")]
               S == {Reply(req, "r_success"), Reply(req, r)}
    <3>0. n \in Nat
      BY DescriptorAssumption
    <3>1. rows \in Seq(S) /\ Len(rows) = n /\ \A i \in 1..n : rows[i] = Reply(req, "r_success")
      BY <3>0
    <3> HIDE DEF rows
    <3>2. CASE n = 0
      BY <2>2, <2>4, <3>1, <3>2 DEF rows
    <3>3. CASE n # 0
      <4>1. msgs[1] = rows[1]
        BY <2>4, <3>0, <3>1, <3>3 DEF rows
      <4>. QED
        BY <2>2, <3>0, <3>1, <3>3, <4>1
    <3>. QED
      BY <3>2, <3>3
  <2>5. msgs[1].to = req.n
    BY <2>1, <2>3, <2>4 DEF Answers
  <2>. QED
    BY <1>2, <2>1, <2>5 DEF req
<1>. QED
  BY <1>1, <1>2

\* Reading a connection executes its first request or none.
LEMMA ProcessOrder ==
  ASSUME FdInv, OrderInv, NEW c \in Client, socket_srv_process_request(c), UNCHANGED clivars
  PROVE  OrderInv'
<1> DEFINE u == up[c]
           e == executed[c]
<1>0. PICK got \in Arrived(c) : \E msgs \in Process(got) :
        /\ up' = [up EXCEPT ![c] = SubSeq(@, Len(got) + 1, Len(@))]
        /\ executed' = IF msgs # <<>> /\ msgs[1].response # "r_failed"
                       THEN [executed EXCEPT ![c] = Append(@, msgs[1].to)] ELSE executed
  BY Zenon DEF socket_srv_process_request
<1>1. PICK msgs \in Process(got) :
        /\ up' = [up EXCEPT ![c] = SubSeq(@, Len(got) + 1, Len(@))]
        /\ executed' = IF msgs # <<>> /\ msgs[1].response # "r_failed"
                       THEN [executed EXCEPT ![c] = Append(@, msgs[1].to)] ELSE executed
  BY <1>0, Zenon
<1>2. /\ up \in [Client -> Seq(Packet)] /\ sent \in [Client -> Nat] /\ sent' = sent
      /\ u \in Seq(Packet) /\ e \in Seq(Nat) /\ sent[c] \in Nat
      /\ executed \in [Client -> Seq(Nat)]
      /\ \A d \in Client : Ordered(executed[d], up[d], sent[d])
  BY DEF FdInv, Descriptors, OrderInv, clivars
<1>3. PICK k \in 1..Len(u) : got = SubSeq(u, 1, k)
  BY DEF Arrived
<1>4. got \in Seq(Packet) /\ Len(got) = k /\ got[1] = u[1]
  BY <1>2, <1>3
<1>5. \A d \in Client : up'[d] = IF d = c THEN SubSeq(u, k + 1, Len(u)) ELSE up[d]
  BY <1>1, <1>2, <1>4
<1> HIDE DEF u, e
<1>6. CASE msgs # <<>> /\ msgs[1].response # "r_failed"
  <2>1. k = 1 /\ IsRequest(u[1]) /\ msgs[1].to = u[1].n
    BY <1>4, <1>6, AnswersTheRead, Zenon
  <2>2. /\ Append(e, u[1].n) \in Seq(Nat)
        /\ Ordered(Append(e, u[1].n), SubSeq(u, k + 1, Len(u)), sent[c])
    <3>1. Ordered(e, u, sent[c])
      BY <1>2 DEF e, u
    <3>. QED
      BY <1>2, <2>1, <3>1, OrderedExecute, Zenon
  <2>3. /\ executed' \in [Client -> Seq(Nat)]
        /\ \A d \in Client : executed'[d] = IF d = c THEN Append(e, u[1].n) ELSE executed[d]
    BY <1>1, <1>2, <1>6, <2>1, <2>2 DEF e
  <2>. QED
    BY <1>2, <1>5, <2>2, <2>3, Zenon DEF OrderInv
<1>7. CASE ~(msgs # <<>> /\ msgs[1].response # "r_failed")
  <2>1. executed' = executed
    BY <1>1, <1>7
  <2>2. Ordered(e, SubSeq(u, k + 1, Len(u)), sent[c])
    BY <1>2, OrderedSkip DEF e, u
  <2>. QED
    BY <1>2, <1>5, <2>1, <2>2, Zenon DEF OrderInv, e
<1>. QED
  BY <1>6, <1>7

\* A client puts a packet behind the ones it has sent.
LEMMA SendOrder ==
  ASSUME FdInv, OrderInv, NEW c \in Client, NEW p \in Packet, NEW t \in Nat,
         up' = [up EXCEPT ![c] = Append(@, p)], sent' = [sent EXCEPT ![c] = t],
         UNCHANGED executed,
         \/ ~IsRequest(p) /\ t = sent[c]
         \/ p.n = t /\ t = sent[c] + 1
  PROVE  OrderInv'
<1>1. /\ up \in [Client -> Seq(Packet)] /\ sent \in [Client -> Nat]
      /\ executed \in [Client -> Seq(Nat)]
      /\ \A d \in Client : Ordered(executed[d], up[d], sent[d])
  BY DEF FdInv, Descriptors, OrderInv
<1>2. Ordered(executed[c], Append(up[c], p), t)
  BY <1>1, OrderedSend
<1>3. \A d \in Client : /\ up'[d] = IF d = c THEN Append(up[c], p) ELSE up[d]
                        /\ sent'[d] = IF d = c THEN t ELSE sent[d]
  BY <1>1
<1>. QED
  BY <1>1, <1>2, <1>3 DEF OrderInv

\* Every step keeps the order.
LEMMA OrderStep == FdInv /\ OrderInv /\ [Next]_vars => OrderInv'
<1> SUFFICES ASSUME FdInv, OrderInv, [Next]_vars PROVE OrderInv'
  OBVIOUS
<1>1. CASE UNCHANGED <<up, executed, sent>>
  BY <1>1 DEF OrderInv
<1>2. ASSUME NEW c \in Client, socket_srv_process_request(c), UNCHANGED clivars PROVE OrderInv'
  BY <1>2, ProcessOrder
<1>3. ASSUME NEW c \in Client, NEW kind \in {"plain", "find"}, socket_client_send_request(c, kind)
      PROVE  OrderInv'
  <2>1. sent[c] \in Nat /\ [kind |-> kind, n |-> sent[c] + 1] \in Packet
    BY DEF FdInv, Descriptors, Packet
  <2>2. /\ up' = [up EXCEPT ![c] = Append(@, [kind |-> kind, n |-> sent[c] + 1])]
        /\ sent' = [sent EXCEPT ![c] = sent[c] + 1]
        /\ UNCHANGED executed
    BY <1>3 DEF socket_client_send_request
  <2>3. [kind |-> kind, n |-> sent[c] + 1].n = sent[c] + 1 /\ sent[c] + 1 \in Nat
    BY <2>1
  <2>. QED
    BY <2>1, <2>2, <2>3, SendOrder, Zenon
<1>4. ASSUME NEW c \in Client, socket_client_send_heartbeat(c) PROVE OrderInv'
  <2>1. sent[c] \in Nat /\ [kind |-> "heartbeat"] \in Packet /\ ~IsRequest([kind |-> "heartbeat"])
    BY DEF FdInv, Descriptors, Packet, IsRequest
  <2>2. /\ up' = [up EXCEPT ![c] = Append(@, [kind |-> "heartbeat"])]
        /\ sent' = [sent EXCEPT ![c] = sent[c]]
        /\ UNCHANGED executed
    BY <1>4 DEF FdInv, Descriptors, socket_client_send_heartbeat
  <2>. QED
    BY <2>1, <2>2, SendOrder, Zenon
<1>5. ASSUME socket_srv_wait \/ EndRound \/ AcceptFails
               \/ \E c \in Client : AcceptClient(c) \/ CloseClient(c),
             UNCHANGED clivars
      PROVE  UNCHANGED <<up, executed, sent>>
  BY <1>5 DEF socket_srv_wait, EndRound, AcceptFails, AcceptClient, CloseClient, netvars, clivars
<1>6. ASSUME NEW c \in Client, \/ socket_client_init(c) \/ socket_client_get_response(c)
                               \/ ReceiveNothing(c) \/ Leave(c)
      PROVE  UNCHANGED <<up, executed, sent>>
  BY <1>6 DEF socket_client_init, socket_client_get_response, ReceiveNothing, Leave, netvars
<1>7. ASSUME UNCHANGED vars PROVE UNCHANGED <<up, executed, sent>>
  BY <1>7 DEF vars, netvars, clivars
<1>. QED
  BY <1>1, <1>2, <1>3, <1>4, <1>5, <1>6, <1>7 DEF Next, SrvNext

\* At the start nothing is on its way and nothing has taken effect.
LEMMA OrderInit == Init => OrderInv
<1> SUFFICES ASSUME Init PROVE OrderInv
  OBVIOUS
<1>1. /\ executed \in [Client -> Seq(Nat)]
      /\ \A c \in Client : Len(executed[c]) = 0 /\ Len(up[c]) = 0
  BY DEF Init, SrvInit
<1>. QED
  BY <1>1 DEF OrderInv, Ordered

\* A request takes effect at most once and after the earlier requests of its
\* client, whatever is lost, late or merged, for any number of requests.
THEOREM ExecutionOrder == Spec => []ExecutedOnceInOrder
<1>1. OrderInv => ExecutedOnceInOrder
  BY ZenonT(30) DEF OrderInv, Ordered, ExecutedOnceInOrder
<1>. QED
  BY <1>1, OrderInit, FdAlways, OrderStep, PTL DEF Spec

-----------------------------------------------------------------------------
(***************************************************************************)
(* Requests and answers in step.  Neither carries an identification, so    *)
(* that a client takes the answer to its request for it rests on there     *)
(* being one request under way and nothing else that is answered.  Both    *)
(* are so until the client is skewed: until it gives up waiting (then a    *)
(* late answer meets its next request) or heartbeats alone are read at     *)
(* once (they are answered as well).  Other heartbeats do no such harm: a  *)
(* single one is not answered, and one read with a request only makes the  *)
(* server refuse that request.                                             *)
(***************************************************************************)

\* Request n is among the requests e that took effect.
Did(e, n) == \E k \in 1..Len(e) : e[k] = n

\* The messages d answer request s: all of them but the last are rows, and one
\* that is no failure says that the request took effect.
Answering(d, s, e) ==
  \A i \in 1..Len(d) :
    /\ d[i].to = s
    /\ i # Len(d) => d[i].response = "r_success" /\ d[i].kind = "find"
    /\ d[i].response # "r_failed" => Did(e, s)

\* The requests among the packets u, if any, are the last request s.
Asking(u, s) == \A i \in 1..Len(u) : IsRequest(u[i]) => u[i].n = s
NoRequest(u) == \A i \in 1..Len(u) : ~IsRequest(u[i])

\* One client: its mode (m), connection (l), the packets (u) and messages (d)
\* on their way, its last request (s) and its requests that took effect (e).
\* A request that the server may still read is the last one, not answered yet.
Turn(m, l, u, d, s, e) ==
  /\ Answering(d, s, e)
  /\ d # <<>> => m = "waiting"
  /\ l = "open" => Asking(u, s) /\ (NoRequest(u) \/ (m = "waiting" /\ d = <<>>))
  /\ m = "new" => u = <<>>

\* What was reported as done was done.
Settled(o, e) == o.result = "ok" => Did(e, o.n)

TurnInv ==
  /\ down \in [Client -> Seq(Message)]
  /\ outcome = [c \in Client |-> outcome[c]]
  /\ \A c \in Client \ skewed : /\ Turn(mode[c], link[c], up[c], down[c], sent[c], executed[c])
                                /\ Settled(outcome[c], executed[c])

\* A client with no message on its way, and with no request that the server may
\* still read, is in step.
LEMMA NothingUnderWay ==
  ASSUME NEW m, NEW l, NEW u, NEW s, NEW e, m # "new", l = "open" => NoRequest(u)
  PROVE  Turn(m, l, u, <<>>, s, e)
<1>1. Answering(<<>>, s, e)
  BY DEF Answering
<1>2. NoRequest(u) => Asking(u, s)
  BY Zenon DEF NoRequest, Asking
<1>. QED
  BY <1>1, <1>2, Zenon DEF Turn

LEMMA DidLast ==
  ASSUME NEW e \in Seq(Nat), NEW n \in Nat
  PROVE  Did(Append(e, n), n)
<1>1. Len(Append(e, n)) = Len(e) + 1 /\ Len(e) \in Nat /\ Append(e, n)[Len(e) + 1] = n
  OBVIOUS
<1>. QED
  BY <1>1 DEF Did

\* The messages of one answer: rows and an end, or a single message.
LEMMA AnswerShape ==
  ASSUME NEW req \in Packet, IsRequest(req), NEW msgs \in Answers(req)
  PROVE  /\ msgs \in Seq(Message) /\ msgs # <<>>
         /\ \A i \in 1..Len(msgs) :
              /\ msgs[i].to = req.n
              /\ i # Len(msgs) => msgs[i].response = "r_success" /\ msgs[i].kind = "find"
              /\ msgs[i].response # "r_failed" => msgs[1].response # "r_failed"
<1>1. req.n \in Nat /\ req.kind \in {"plain", "find"}
  BY DEF Packet, IsRequest
<1>2. ASSUME NEW r \in Response
      PROVE  /\ Reply(req, r) \in Message /\ Reply(req, r).to = req.n
             /\ Reply(req, r).kind = req.kind /\ Reply(req, r).response = r
  BY <1>1, <1>2 DEF Reply, Message
<1>3. {"r_success", "r_failed", "r_find_end", "r_find_end_more"} = Response
  BY DEF Response
<1>4. ASSUME NEW r \in Response, msgs = <<Reply(req, r)>>
      PROVE  /\ msgs \in Seq(Message) /\ Len(msgs) = 1
             /\ msgs[1].to = req.n
  BY <1>2, <1>4
<1>5. CASE \E r \in Response : msgs = <<Reply(req, r)>>
  <2>1. msgs \in Seq(Message) /\ Len(msgs) = 1 /\ msgs[1].to = req.n
    BY <1>4, <1>5
  <2>2. msgs # <<>> /\ \A i \in 1..Len(msgs) : i = 1
    BY <2>1, SMTT(30)
  <2>. QED
    BY <2>1, <2>2
<1>6. ASSUME req.kind = "find", NEW n \in 0..DEFAULT_FINDS, NEW r \in Response, r # "r_failed",
             msgs = Append([i \in 1..n |-> Reply(req, "r_success")], Reply(req, r))
      PROVE  /\ msgs \in Seq(Message) /\ Len(msgs) = n + 1 /\ n \in Nat
             /\ \A i \in 1..n : msgs[i] = Reply(req, "r_success")
             /\ msgs[n + 1] = Reply(req, r)
  <2> DEFINE rows == [i \in 1..n |-> Reply(req, "r_success")]
  <2>0. n \in Nat
    BY DescriptorAssumption
  <2>1. Reply(req, "r_success") \in Message /\ Reply(req, r) \in Message
    BY <1>2, <1>3
  <2>2. rows \in Seq(Message) /\ Len(rows) = n /\ \A i \in 1..n : rows[i] = Reply(req, "r_success")
    BY <2>0, <2>1
  <2> HIDE DEF rows
  <2>3. msgs = Append(rows, Reply(req, r))
    BY <1>6 DEF rows
  <2>. QED
    BY <2>0, <2>1, <2>2, <2>3
<1>7. ASSUME req.kind = "find", NEW n \in 0..DEFAULT_FINDS, NEW r \in Response, r # "r_failed",
             msgs = Append([i \in 1..n |-> Reply(req, "r_success")], Reply(req, r))
      PROVE  /\ msgs \in Seq(Message) /\ msgs # <<>>
             /\ \A i \in 1..Len(msgs) :
                  /\ msgs[i].to = req.n
                  /\ i # Len(msgs) => msgs[i].response = "r_success" /\ msgs[i].kind = "find"
                  /\ msgs[i].response # "r_failed"
  <2>1. /\ msgs \in Seq(Message) /\ Len(msgs) = n + 1 /\ n \in Nat
        /\ \A i \in 1..n : msgs[i] = Reply(req, "r_success")
        /\ msgs[n + 1] = Reply(req, r)
    BY <1>6, <1>7
  <2>2. \A i \in 1..n + 1 : i \in 1..n \/ i = n + 1
    BY <2>1
  <2>3. /\ Reply(req, "r_success").to = req.n /\ Reply(req, "r_success").kind = "find"
        /\ Reply(req, "r_success").response = "r_success"
        /\ Reply(req, r).to = req.n /\ Reply(req, r).response = r
    BY <1>2, <1>3, <1>7
  <2>4. msgs # <<>>
    BY <2>1
  <2>. QED
    BY <1>7, <2>1, <2>2, <2>3, <2>4
<1>8. \/ \E r \in Response : msgs = <<Reply(req, r)>>
      \/ /\ req.kind = "find"
         /\ \E n \in 0..DEFAULT_FINDS, r \in Response \ {"r_failed"} :
              msgs = Append([i \in 1..n |-> Reply(req, "r_success")], Reply(req, r))
  BY <1>1, <1>3 DEF Answers
<1>9. CASE /\ req.kind = "find"
           /\ \E n \in 0..DEFAULT_FINDS, r \in Response \ {"r_failed"} :
                msgs = Append([i \in 1..n |-> Reply(req, "r_success")], Reply(req, r))
  <2>1. /\ msgs \in Seq(Message) /\ msgs # <<>>
        /\ \A i \in 1..Len(msgs) :
             /\ msgs[i].to = req.n
             /\ i # Len(msgs) => msgs[i].response = "r_success" /\ msgs[i].kind = "find"
             /\ msgs[i].response # "r_failed"
    BY <1>7, <1>9, Zenon
  <2>2. 1 \in 1..Len(msgs)
    BY <2>1
  <2>. QED
    BY <2>1, <2>2
<1>. QED
  BY <1>5, <1>8, <1>9

\* What holds of a client goes on to hold when its connection is cut or more
\* of its requests take effect.
LEMMA TurnMono ==
  ASSUME NEW m, NEW l, NEW u, NEW d, NEW s, NEW e, NEW k, NEW f, NEW o,
         Turn(m, l, u, d, s, e) /\ Settled(o, e),
         k = "open" => l = "open",
         \A n : Did(e, n) => Did(f, n)
  PROVE  Turn(m, k, u, d, s, f) /\ Settled(o, f)
<1>1. Answering(d, s, f)
  BY Zenon DEF Turn, Answering
<1>. QED
  BY <1>1, Zenon DEF Turn, Settled

\* The types the proofs below rest on.
LEMMA TurnTypes ==
  ASSUME FdInv, OrderInv, TurnInv
  PROVE  /\ down \in [Client -> Seq(Message)] /\ up \in [Client -> Seq(Packet)]
         /\ executed \in [Client -> Seq(Nat)] /\ sent \in [Client -> Nat]
         /\ outcome = [c \in Client |-> outcome[c]]
         /\ mode = [c \in Client |-> mode[c]] /\ link = [c \in Client |-> link[c]]
BY DEF FdInv, Descriptors, OrderInv, TurnInv

\* A step about one client: the others are as they were.
LEMMA TurnOne ==
  ASSUME FdInv, OrderInv, TurnInv, NEW c \in Client,
         down' \in [Client -> Seq(Message)],
         outcome' = [d \in Client |-> outcome'[d]],
         skewed' = skewed \/ skewed' = skewed \cup {c},
         \A d \in Client \ {c} :
           /\ mode'[d] = mode[d] /\ up'[d] = up[d] /\ down'[d] = down[d] /\ sent'[d] = sent[d]
           /\ outcome'[d] = outcome[d]
           /\ link'[d] = "open" => link[d] = "open"
           /\ executed'[d] = executed[d],
         c \notin skewed' =>
           /\ Turn(mode'[c], link'[c], up'[c], down'[c], sent'[c], executed'[c])
           /\ Settled(outcome'[c], executed'[c])
  PROVE  TurnInv'
<1>1. ASSUME NEW d \in Client \ skewed', d # c
      PROVE  /\ Turn(mode'[d], link'[d], up'[d], down'[d], sent'[d], executed'[d])
             /\ Settled(outcome'[d], executed'[d])
  <2>1. /\ Turn(mode[d], link[d], up[d], down[d], sent[d], executed[d])
        /\ Settled(outcome[d], executed[d])
    BY <1>1 DEF TurnInv
  <2>2. /\ Turn(mode[d], link'[d], up[d], down[d], sent[d], executed[d])
        /\ Settled(outcome[d], executed[d])
    BY <1>1, <2>1, TurnMono
  <2>. QED
    BY <1>1, <2>2
<1>. QED
  BY <1>1 DEF TurnInv

\* What the server answers to one read is a sequence of messages.
LEMMA ReadTypes ==
  ASSUME NEW got \in Seq(Packet), NEW msgs \in Process(got)
  PROVE  msgs \in Seq(Message)
<1>1. CASE Len(got) = 1 /\ ~IsRequest(got[1])
  <2>1. msgs = <<>>
    BY <1>1, Zenon DEF Process, IsRequest
  <2>. QED
    BY <2>1
<1>2. CASE Len(got) = 1 /\ IsRequest(got[1])
  <2>1. msgs \in Answers(got[1]) /\ got[1] \in Packet
    BY <1>2 DEF Process, IsRequest
  <2>. QED
    BY <1>2, <2>1, AnswerShape, Zenon
<1>3. CASE Len(got) # 1
  <2>1. PICK n \in IF Requests(got) = {} THEN {0} ELSE Requests(got) : msgs = <<Refusal(n)>>
    BY <1>3, Zenon DEF Process
  <2>2. \A x \in Requests(got) : x \in Nat
    BY DEF Requests, Packet
  <2>3. n \in Nat
    BY <2>1, <2>2
  <2>4. Refusal(n) \in Message
    BY <2>3 DEF Refusal, Message, Response
  <2>. QED
    BY <2>1, <2>4
<1>. QED
  BY <1>1, <1>2, <1>3

\* A read in which there is at most one request, and not heartbeats alone unless
\* it is a single one: nothing is answered, or the messages answer the request.
LEMMA ReadShape ==
  ASSUME NEW got \in Seq(Packet), NEW msgs \in Process(got), NEW s \in Nat, Len(got) # 0,
         Asking(got, s), ~(Len(got) > 1 /\ Requests(got) = {})
  PROVE  \/ msgs = <<>> /\ Len(got) = 1 /\ NoRequest(got)
         \/ /\ \E i \in 1..Len(got) : IsRequest(got[i])
            /\ msgs # <<>>
            /\ \A i \in 1..Len(msgs) :
                 /\ msgs[i].to = s
                 /\ i # Len(msgs) => msgs[i].response = "r_success" /\ msgs[i].kind = "find"
                 /\ msgs[i].response # "r_failed" => msgs[1].response # "r_failed"
<1>0. Len(got) # 1 => Len(got) > 1
  <2>1. PICK n \in Nat : n = Len(got)
    OBVIOUS
  <2>2. n # 0 /\ n # 1 => n > 1
    OBVIOUS
  <2>. QED
    BY <2>1, <2>2, Zenon
<1>1. CASE Len(got) = 1 /\ ~IsRequest(got[1])
  <2>1. msgs = <<>>
    BY <1>1, Zenon DEF Process, IsRequest
  <2>2. \A i \in 1..Len(got) : i = 1
    BY <1>1
  <2>. QED
    BY <1>1, <2>1, <2>2, Zenon DEF NoRequest
<1>2. CASE Len(got) = 1 /\ IsRequest(got[1])
  <2>1. msgs \in Answers(got[1]) /\ got[1] \in Packet /\ 1 \in 1..Len(got)
    BY <1>2 DEF Process, IsRequest
  <2>2. got[1].n = s
    BY <1>2, <2>1 DEF Asking
  <2>. QED
    BY <1>2, <2>1, <2>2, AnswerShape, ZenonT(30)
<1>3. CASE Len(got) # 1
  <2>1. Requests(got) # {}
    BY <1>0, <1>3
  <2>2. PICK n \in Requests(got) : msgs = <<Refusal(n)>>
    BY <1>3, <2>1, Zenon DEF Process
  <2>3. PICK i \in 1..Len(got) : IsRequest(got[i]) /\ n = got[i].n
    BY <2>2 DEF Requests, IsRequest
  <2>4. n = s
    BY <2>3 DEF Asking
  <2>5. Refusal(n).to = s /\ Refusal(n).response = "r_failed"
    BY <2>4 DEF Refusal
  <2>6. Len(msgs) = 1 /\ msgs[1] = Refusal(n) /\ msgs # <<>>
    BY <2>2
  <2>7. \A j \in 1..Len(msgs) : j = 1 /\ j = Len(msgs)
    BY <2>6
  <2>. QED
    BY <2>3, <2>5, <2>6, <2>7, Zenon
<1>. QED
  BY <1>1, <1>2, <1>3

\* What is left after a read asks for nothing else, and for nothing at all when
\* the request was in the read: no other request is on its way.
LEMMA RestAsks ==
  ASSUME NEW u \in Seq(Packet), NEW s \in Nat, NEW e, Ordered(e, u, s), Asking(u, s),
         NEW k \in 1..Len(u)
  PROVE  /\ Asking(SubSeq(u, k + 1, Len(u)), s)
         /\ NoRequest(u) => NoRequest(SubSeq(u, k + 1, Len(u)))
         /\ (\E i \in 1..k : IsRequest(u[i])) => NoRequest(SubSeq(u, k + 1, Len(u)))
<1> DEFINE v == SubSeq(u, k + 1, Len(u))
<1>1. \A j \in 1..Len(v) : v[j] = u[j + k] /\ j + k \in 1..Len(u)
  BY RestFacts
<1>2. k \in Nat /\ Len(u) \in Nat /\ Len(v) \in Nat /\ k <= Len(u)
  <2>1. v \in Seq(Packet)
    BY RestFacts, ZenonT(30)
  <2> HIDE DEF v
  <2>. QED
    BY <2>1
<1> HIDE DEF v
<1>3. Asking(v, s) /\ (NoRequest(u) => NoRequest(v))
  BY <1>1, Zenon DEF Asking, NoRequest
<1>4. ASSUME NEW i \in 1..k, IsRequest(u[i]), NEW j \in 1..Len(v), IsRequest(v[j]) PROVE FALSE
  <2>1. i \in 1..Len(u) /\ j + k \in 1..Len(u) /\ i < j + k /\ v[j] = u[j + k]
    BY <1>1, <1>2
  <2>2. u[i].n < u[j + k].n
    BY <1>4, <2>1, Zenon DEF Ordered
  <2>3. u[i].n = s /\ u[j + k].n = s
    BY <1>4, <2>1, Zenon DEF Asking
  <2>. QED
    BY <2>2, <2>3
<1>5. (\E i \in 1..k : IsRequest(u[i])) => NoRequest(v)
  BY <1>4, Zenon DEF NoRequest
<1>. QED
  BY <1>3, <1>5 DEF v

\* Two sequences of messages one after the other, one of them empty or not.
LEMMA Joined ==
  ASSUME NEW T, NEW d \in Seq(T), NEW m \in Seq(T)
  PROVE  /\ d \o m \in Seq(T)
         /\ d = <<>> => d \o m = m
         /\ m = <<>> => d \o m = d
OBVIOUS

\* A connection the server may answer on is in step, so that what a read
\* answers is the one request under way; the others get no message.
LEMMA ProcessTurn ==
  ASSUME FdInv, OrderInv, TurnInv, NEW c \in Client, socket_srv_process_request(c),
         UNCHANGED clivars
  PROVE  TurnInv'
<1>0. PICK got \in Arrived(c) : \E msgs \in Process(got) :
        /\ up' = [up EXCEPT ![c] = SubSeq(@, Len(got) + 1, Len(@))]
        /\ executed' = IF msgs # <<>> /\ msgs[1].response # "r_failed"
                       THEN [executed EXCEPT ![c] = Append(@, msgs[1].to)] ELSE executed
        /\ skewed' = IF Len(got) > 1 /\ Requests(got) = {} THEN skewed \cup {c} ELSE skewed
        /\ Send(c, msgs)
  BY Zenon DEF socket_srv_process_request
<1>1. PICK msgs \in Process(got) :
        /\ up' = [up EXCEPT ![c] = SubSeq(@, Len(got) + 1, Len(@))]
        /\ executed' = IF msgs # <<>> /\ msgs[1].response # "r_failed"
                       THEN [executed EXCEPT ![c] = Append(@, msgs[1].to)] ELSE executed
        /\ skewed' = IF Len(got) > 1 /\ Requests(got) = {} THEN skewed \cup {c} ELSE skewed
        /\ Send(c, msgs)
  BY <1>0, Zenon
<1>2. /\ down \in [Client -> Seq(Message)] /\ up \in [Client -> Seq(Packet)]
      /\ executed \in [Client -> Seq(Nat)] /\ sent \in [Client -> Nat]
      /\ outcome = [d \in Client |-> outcome[d]]
      /\ mode = [d \in Client |-> mode[d]] /\ link = [d \in Client |-> link[d]]
  BY TurnTypes
<1>3. UNCHANGED <<mode, sent, outcome>> /\ up[c] # <<>>
  BY Zenon DEF clivars, socket_srv_process_request
<1>4. PICK k \in 1..Len(up[c]) : got = SubSeq(up[c], 1, k)
  BY DEF Arrived
<1>5. /\ got \in Seq(Packet) /\ Len(got) = k /\ Len(got) # 0
      /\ \A i \in 1..k : got[i] = up[c][i] /\ i \in 1..Len(up[c])
  BY <1>2, <1>4
<1>6. /\ up'[c] = SubSeq(up[c], k + 1, Len(up[c]))
      /\ \A d \in Client \ {c} : up'[d] = up[d] /\ executed'[d] = executed[d]
  BY <1>1, <1>2, <1>5, Zenon
<1>7. \A n : Did(executed[c], n) => Did(executed'[c], n)
  <2>1. CASE executed' = executed
    BY <2>1
  <2>2. CASE executed' = [executed EXCEPT ![c] = Append(@, msgs[1].to)]
    <3>1. executed'[c] = Append(executed[c], msgs[1].to) /\ executed[c] \in Seq(Nat)
      BY <1>2, <2>2
    <3>2. \A j \in 1..Len(executed[c]) :
            j \in 1..Len(executed'[c]) /\ executed'[c][j] = executed[c][j]
      BY <3>1
    <3>. QED
      BY <3>2 DEF Did
  <2>. QED
    BY <1>1, <2>1, <2>2
<1>8. msgs \in Seq(Message)
  BY <1>5, ReadTypes
<1>9. skewed' = skewed \/ skewed' = skewed \cup {c}
  BY <1>1, Zenon
<1>10. CASE link[c] = "open"
  <2>1. down' = [down EXCEPT ![c] = @ \o msgs] /\ link' = link
    BY <1>1, <1>10 DEF Send
  <2>2. /\ down[c] \in Seq(Message) /\ down[c] \o msgs \in Seq(Message)
        /\ (down[c] = <<>> => down[c] \o msgs = msgs)
        /\ (msgs = <<>> => down[c] \o msgs = down[c])
    BY <1>2, <1>8, Joined, SMTT(30)
  <2>3. /\ down' \in [Client -> Seq(Message)] /\ down'[c] = down[c] \o msgs
        /\ \A d \in Client \ {c} : down'[d] = down[d]
    BY <1>2, <2>1, <2>2, Zenon
  <2>4. ASSUME c \notin skewed'
        PROVE  /\ Turn(mode[c], link[c], up'[c], down'[c], sent[c], executed'[c])
               /\ Settled(outcome[c], executed'[c])
    <3>1. /\ Turn(mode[c], link[c], up[c], down[c], sent[c], executed[c])
          /\ Settled(outcome[c], executed[c])
      BY <1>9, <2>4, Zenon DEF TurnInv
    <3>2. /\ Asking(up[c], sent[c])
          /\ Answering(down[c], sent[c], executed[c])
          /\ NoRequest(up[c]) \/ (mode[c] = "waiting" /\ down[c] = <<>>)
          /\ down[c] # <<>> => mode[c] = "waiting"
          /\ mode[c] # "new"
      BY <1>3, <1>10, <3>1, Zenon DEF Turn
    <3>3. ~(Len(got) > 1 /\ Requests(got) = {})
      BY <1>1, <2>4, Zenon
    <3>4. Ordered(executed[c], up[c], sent[c]) /\ up[c] \in Seq(Packet) /\ sent[c] \in Nat
      BY <1>2 DEF OrderInv
    <3>5. Asking(got, sent[c])
      BY <1>5, <3>2, Zenon DEF Asking
    <3>6. /\ Asking(up'[c], sent[c])
          /\ NoRequest(up[c]) => NoRequest(up'[c])
          /\ (\E i \in 1..k : IsRequest(up[c][i])) => NoRequest(up'[c])
      BY <1>6, <3>2, <3>4, RestAsks, ZenonT(30)
    <3>7. Settled(outcome[c], executed'[c])
      BY <1>7, <3>1, Zenon DEF Settled
    <3>8. CASE msgs = <<>> /\ Len(got) = 1 /\ NoRequest(got)
      <4>1. down'[c] = down[c]
        BY <2>2, <2>3, <3>8, Zenon
      <4>2. Answering(down[c], sent[c], executed'[c])
        BY <1>7, <3>2, Zenon DEF Answering
      <4>3. NoRequest(up'[c]) \/ (mode[c] = "waiting" /\ down'[c] = <<>>)
        BY <3>2, <3>6, <4>1, Zenon
      <4>. QED
        BY <3>2, <3>6, <3>7, <4>1, <4>2, <4>3, Zenon DEF Turn
    <3>9. CASE /\ \E i \in 1..Len(got) : IsRequest(got[i])
               /\ msgs # <<>>
               /\ \A i \in 1..Len(msgs) :
                    /\ msgs[i].to = sent[c]
                    /\ i # Len(msgs) => msgs[i].response = "r_success" /\ msgs[i].kind = "find"
                    /\ msgs[i].response # "r_failed" => msgs[1].response # "r_failed"
      <4>1. \E i \in 1..k : IsRequest(up[c][i]) /\ i \in 1..Len(up[c])
        BY <1>5, <3>9, Zenon
      <4>2. NoRequest(up'[c]) /\ mode[c] = "waiting" /\ down[c] = <<>>
        BY <3>2, <3>6, <4>1, Zenon DEF NoRequest
      <4>3. down'[c] = msgs
        BY <2>2, <2>3, <4>2, Zenon
      <4>4. msgs[1].response # "r_failed" => Did(executed'[c], sent[c])
        <5> SUFFICES ASSUME msgs[1].response # "r_failed" PROVE Did(executed'[c], sent[c])
          OBVIOUS
        <5>1. 1 \in 1..Len(msgs)
          BY <1>8, <3>9
        <5>2. msgs[1].to = sent[c]
          BY <3>9, <5>1, Zenon
        <5>3. executed'[c] = Append(executed[c], sent[c]) /\ executed[c] \in Seq(Nat)
          BY <1>1, <1>2, <3>9, <5>2
        <5>. QED
          BY <3>4, <5>3, DidLast, Zenon
      <4>5. Answering(msgs, sent[c], executed'[c])
        BY <3>9, <4>4, Zenon DEF Answering
      <4>. QED
        BY <3>2, <3>6, <3>7, <4>2, <4>3, <4>5, Zenon DEF Turn
    <3>10. \/ msgs = <<>> /\ Len(got) = 1 /\ NoRequest(got)
           \/ /\ \E i \in 1..Len(got) : IsRequest(got[i])
              /\ msgs # <<>>
              /\ \A i \in 1..Len(msgs) :
                   /\ msgs[i].to = sent[c]
                   /\ i # Len(msgs) => msgs[i].response = "r_success" /\ msgs[i].kind = "find"
                   /\ msgs[i].response # "r_failed" => msgs[1].response # "r_failed"
      BY <1>5, <3>3, <3>4, <3>5, ReadShape, ZenonT(30)
    <3>. QED
      BY <3>8, <3>9, <3>10, Zenon
  <2>. QED
    BY <1>2, <1>3, <1>6, <1>9, <2>1, <2>3, <2>4, TurnOne, ZenonT(30)
<1>11. CASE link[c] # "open"
  <2>1. down' = down /\ \A d \in Client : link'[d] = "open" => link[d] = "open"
    <3>1. CASE link' = [link EXCEPT ![c] = "reset"] /\ down' = down
      BY <1>2, <3>1
    <3>2. CASE UNCHANGED <<link, down>>
      BY <3>2
    <3>3. CASE Die("killed") /\ UNCHANGED down
      BY <3>3 DEF Die
    <3>. QED
      BY <1>1, <1>11, <3>1, <3>2, <3>3 DEF Send
  <2>2. link'[c] # "open"
    BY <1>11, <2>1, ZenonT(30)
  <2>3. ASSUME c \notin skewed'
        PROVE  /\ Turn(mode[c], link'[c], up'[c], down[c], sent[c], executed'[c])
               /\ Settled(outcome[c], executed'[c])
    <3>1. /\ Turn(mode[c], link[c], up[c], down[c], sent[c], executed[c])
          /\ Settled(outcome[c], executed[c])
      BY <1>9, <2>3, Zenon DEF TurnInv
    <3>2. mode[c] # "new"
      BY <1>3, <3>1, Zenon DEF Turn
    <3>3. Answering(down[c], sent[c], executed'[c])
      BY <1>7, <3>1, Zenon DEF Turn, Answering
    <3>4. Turn(mode[c], link'[c], up'[c], down[c], sent[c], executed'[c])
      BY <2>2, <3>1, <3>2, <3>3, Zenon DEF Turn
    <3>. QED
      BY <1>7, <3>1, <3>4, Zenon DEF Settled
  <2>. QED
    BY <1>2, <1>3, <1>6, <1>9, <2>1, <2>3, TurnOne, ZenonT(30)
<1>. QED
  BY <1>10, <1>11

\* find_from_server ends with the last message of its answer, and reports
\* success only when the message says that the request took effect.
LEMMA ResponseTurn ==
  ASSUME FdInv, OrderInv, TurnInv, NEW c \in Client, socket_client_get_response(c)
  PROVE  TurnInv'
<1> DEFINE d == down[c]
           msg == Head(d)
           rest == Tail(d)
<1>1. /\ down \in [Client -> Seq(Message)] /\ up \in [Client -> Seq(Packet)]
      /\ executed \in [Client -> Seq(Nat)] /\ sent \in [Client -> Nat]
      /\ outcome = [x \in Client |-> outcome[x]]
      /\ mode = [x \in Client |-> mode[x]] /\ link = [x \in Client |-> link[x]]
  BY TurnTypes
<1>2. /\ mode[c] = "waiting" /\ d # <<>> /\ Accept(c, msg)
      /\ down' = [down EXCEPT ![c] = rest]
      /\ UNCHANGED <<link, up, executed, sent, skewed>>
  BY DEF socket_client_get_response
<1>3. /\ d \in Seq(Message) /\ Len(d) \in Nat \ {0} /\ msg = d[1] /\ 1 \in 1..Len(d)
      /\ rest \in Seq(Message) /\ Len(rest) = Len(d) - 1
      /\ \A i \in 1..Len(rest) : rest[i] = d[i + 1]
  <2>1. d \in Seq(Message) /\ d # <<>>
    BY <1>1, <1>2
  <2> HIDE DEF d
  <2>2. /\ Len(d) \in Nat \ {0} /\ msg = d[1] /\ 1 \in 1..Len(d)
        /\ rest \in Seq(Message) /\ Len(rest) = Len(d) - 1
    BY <2>1
  <2>3. \A i \in 1..Len(rest) : rest[i] = d[i + 1]
    BY <2>1, <2>2
  <2>. QED
    BY <2>1, <2>2, <2>3
<1>4. /\ down' \in [Client -> Seq(Message)] /\ down'[c] = rest
      /\ \A x \in Client \ {c} : down'[x] = down[x]
  BY <1>1, <1>2, <1>3
<1>5. ASSUME c \notin skewed
      PROVE  /\ Answering(d, sent[c], executed[c])
             /\ Settled(outcome[c], executed[c])
             /\ link[c] = "open" => Asking(up[c], sent[c]) /\ NoRequest(up[c])
             /\ msg.response # "r_failed" => Did(executed[c], sent[c])
             /\ Len(d) # 1 => msg.response = "r_success" /\ msg.kind = "find"
  <2>1. /\ Turn(mode[c], link[c], up[c], d, sent[c], executed[c])
        /\ Settled(outcome[c], executed[c])
    BY <1>5, Zenon DEF TurnInv
  <2>2. Answering(d, sent[c], executed[c])
    BY <2>1, Zenon DEF Turn
  <2>. QED
    BY <1>2, <1>3, <2>1, <2>2, Zenon DEF Turn, Answering
<1> HIDE DEF msg, d, rest
<1>6. ASSUME NEW result, Finish(c, result),
             ~(msg.response = "r_success" /\ msg.kind = "find"),
             result = "ok" => msg.response # "r_failed"
      PROVE  TurnInv'
  <2>1. /\ mode' = [mode EXCEPT ![c] = "idle"]
        /\ outcome' = [outcome EXCEPT ![c] = [n |-> sent[c], result |-> result]]
    BY <1>6 DEF Finish
  <2>2. mode'[c] = "idle" /\ outcome'[c].n = sent[c] /\ outcome'[c].result = result
    BY <1>1, <2>1
  <2>3. /\ outcome' = [x \in Client |-> outcome'[x]]
        /\ \A x \in Client \ {c} : mode'[x] = mode[x] /\ outcome'[x] = outcome[x]
    BY <1>1, <2>1, Zenon
  <2>4. ASSUME c \notin skewed
        PROVE  /\ Turn(mode'[c], link'[c], up'[c], down'[c], sent'[c], executed'[c])
               /\ Settled(outcome'[c], executed'[c])
    <3>1. rest = <<>>
      BY <1>3, <1>5, <1>6, <2>4, SMTT(30)
    <3>2. mode'[c] # "new" /\ down'[c] = <<>> /\ (link'[c] = "open" => NoRequest(up'[c]))
      BY <1>2, <1>4, <1>5, <2>2, <2>4, <3>1, ZenonT(30)
    <3>3. Settled(outcome'[c], executed'[c])
      BY <1>2, <1>5, <1>6, <2>2, <2>4 DEF Settled
    <3>. QED
      BY <3>2, <3>3, NothingUnderWay, Zenon
  <2>. QED
    BY <1>1, <1>2, <1>4, <2>3, <2>4, TurnOne, ZenonT(30)
<1>7. ASSUME UNCHANGED <<mode, outcome>> PROVE TurnInv'
  <2>1. ASSUME NEW i \in 1..Len(rest)
        PROVE  /\ i + 1 \in 1..Len(d) /\ rest[i] = d[i + 1]
               /\ i # Len(rest) => i + 1 # Len(d)
    <3>1. PICK n \in Nat : n = Len(d) /\ Len(rest) = n - 1
      BY <1>3, Zenon
    <3>2. i \in 1..n - 1
      BY <3>1, ZenonT(30)
    <3>. QED
      BY <1>3, <3>1, <3>2
  <2>2. ASSUME c \notin skewed
        PROVE  /\ Turn(mode[c], link[c], up[c], rest, sent[c], executed[c])
               /\ Settled(outcome[c], executed[c])
    <3>1. Answering(rest, sent[c], executed[c])
      BY <1>5, <2>1, <2>2, Zenon DEF Answering
    <3>. QED
      BY <1>2, <1>5, <2>2, <3>1, Zenon DEF Turn
  <2>. QED
    BY <1>1, <1>2, <1>4, <1>7, <2>2, TurnOne, ZenonT(30)
<1>8. \/ msg.response = "r_failed" /\ Finish(c, "failed")
      \/ \E result : msg.response = "r_find_end" /\ Finish(c, result)
      \/ msg.response = "r_find_end_more" /\ Finish(c, "ok")
      \/ msg.response = "r_success" /\ msg.kind = "plain" /\ Finish(c, "ok")
      \/ UNCHANGED <<mode, outcome>>
  BY <1>2 DEF Accept
<1>. QED
  BY <1>6, <1>7, <1>8

\* A packet behind the others.
LEMMA OneMore ==
  ASSUME NEW u \in Seq(Packet), NEW p \in Packet
  PROVE  /\ Append(u, p) \in Seq(Packet)
         /\ \A i \in 1..Len(Append(u, p)) :
              (i \in 1..Len(u) /\ Append(u, p)[i] = u[i]) \/ Append(u, p)[i] = p
OBVIOUS

\* A client sends when it waits for nothing, and then no request and no message
\* is on its way.
LEMMA RequestTurn ==
  ASSUME FdInv, OrderInv, TurnInv, NEW c \in Client, NEW kind \in {"plain", "find"},
         socket_client_send_request(c, kind)
  PROVE  TurnInv'
<1> DEFINE p == [kind |-> kind, n |-> sent[c] + 1]
<1>1. /\ down \in [Client -> Seq(Message)] /\ up \in [Client -> Seq(Packet)]
      /\ executed \in [Client -> Seq(Nat)] /\ sent \in [Client -> Nat]
      /\ outcome = [x \in Client |-> outcome[x]]
      /\ mode = [x \in Client |-> mode[x]] /\ link = [x \in Client |-> link[x]]
  BY TurnTypes, ZenonT(30)
<1>2. /\ mode[c] = "idle" /\ link[c] = "open"
      /\ sent' = [sent EXCEPT ![c] = @ + 1]
      /\ up' = [up EXCEPT ![c] = Append(@, p)]
      /\ mode' = [mode EXCEPT ![c] = "waiting"]
      /\ UNCHANGED <<link, down, executed, skewed, outcome>>
  BY DEF socket_client_send_request
<1>3. p \in Packet /\ p.n = sent[c] + 1
  BY <1>1 DEF Packet
<1> HIDE DEF p
<1>4. /\ mode'[c] = "waiting" /\ sent'[c] = sent[c] + 1 /\ up'[c] = Append(up[c], p)
      /\ \A x \in Client \ {c} : mode'[x] = mode[x] /\ sent'[x] = sent[x] /\ up'[x] = up[x]
  BY <1>1, <1>2
<1>5. ASSUME c \notin skewed
      PROVE  /\ Turn(mode'[c], link[c], up'[c], down[c], sent'[c], executed[c])
             /\ Settled(outcome[c], executed[c])
  <2>1. /\ Turn(mode[c], link[c], up[c], down[c], sent[c], executed[c])
        /\ Settled(outcome[c], executed[c])
    BY <1>5, Zenon DEF TurnInv
  <2>2. down[c] = <<>> /\ NoRequest(up[c])
    BY <1>2, <2>1, Zenon DEF Turn
  <2>3. Asking(up'[c], sent'[c])
    <3>1. \A i \in 1..Len(up'[c]) : (i \in 1..Len(up[c]) /\ up'[c][i] = up[c][i]) \/ up'[c][i] = p
      BY <1>1, <1>3, <1>4, OneMore
    <3>. QED
      BY <1>3, <1>4, <2>2, <3>1, Zenon DEF Asking, NoRequest
  <2>4. Answering(<<>>, sent'[c], executed[c])
    BY DEF Answering
  <2>. QED
    BY <1>4, <2>1, <2>2, <2>3, <2>4, Zenon DEF Turn
<1>. QED
  BY <1>1, <1>2, <1>4, <1>5, TurnOne, ZenonT(30)

\* A heartbeat on its way changes nothing yet.
LEMMA HeartbeatTurn ==
  ASSUME FdInv, OrderInv, TurnInv, NEW c \in Client, socket_client_send_heartbeat(c)
  PROVE  TurnInv'
<1> DEFINE p == [kind |-> "heartbeat"]
<1>1. /\ down \in [Client -> Seq(Message)] /\ up \in [Client -> Seq(Packet)]
      /\ outcome = [x \in Client |-> outcome[x]]
  BY TurnTypes, Zenon
<1>2. /\ mode[c] \in {"idle", "waiting"}
      /\ up' = [up EXCEPT ![c] = Append(@, p)]
      /\ UNCHANGED <<link, down, executed, skewed, mode, sent, outcome>>
  BY DEF socket_client_send_heartbeat
<1>3. p \in Packet /\ ~IsRequest(p)
  BY DEF Packet, IsRequest
<1> HIDE DEF p
<1>4. up'[c] = Append(up[c], p) /\ \A x \in Client \ {c} : up'[x] = up[x]
  BY <1>1, <1>2, Zenon
<1>5. \A i \in 1..Len(up'[c]) :
        (i \in 1..Len(up[c]) /\ up'[c][i] = up[c][i]) \/ ~IsRequest(up'[c][i])
  BY <1>1, <1>3, <1>4, OneMore
<1>6. ASSUME c \notin skewed
      PROVE  /\ Turn(mode[c], link[c], up'[c], down[c], sent[c], executed[c])
             /\ Settled(outcome[c], executed[c])
  <2>1. /\ Turn(mode[c], link[c], up[c], down[c], sent[c], executed[c])
        /\ Settled(outcome[c], executed[c])
    BY <1>6, Zenon DEF TurnInv
  <2>2. /\ Asking(up[c], sent[c]) => Asking(up'[c], sent[c])
        /\ NoRequest(up[c]) => NoRequest(up'[c])
    BY <1>5, Zenon DEF Asking, NoRequest
  <2>3. mode[c] # "new"
    BY <1>2
  <2>. QED
    BY <2>1, <2>2, <2>3, Zenon DEF Turn
<1>. QED
  BY <1>1, <1>2, <1>4, <1>6, TurnOne, ZenonT(30)

\* The other steps of a client: it connects, stops waiting (and is skewed, unless
\* the server is gone and nothing can arrive late), or leaves.
LEMMA ClientTurn ==
  ASSUME FdInv, OrderInv, TurnInv, NEW c \in Client,
         socket_client_init(c) \/ ReceiveNothing(c) \/ Leave(c)
  PROVE  TurnInv'
<1>1. /\ down \in [Client -> Seq(Message)] /\ up \in [Client -> Seq(Packet)]
      /\ executed \in [Client -> Seq(Nat)] /\ sent \in [Client -> Nat]
      /\ outcome = [x \in Client |-> outcome[x]]
      /\ mode = [x \in Client |-> mode[x]] /\ link = [x \in Client |-> link[x]]
  BY TurnTypes
<1>2. ASSUME c \notin skewed
      PROVE  /\ Turn(mode[c], link[c], up[c], down[c], sent[c], executed[c])
             /\ Settled(outcome[c], executed[c])
  BY <1>2, Zenon DEF TurnInv
<1>3. CASE socket_client_init(c)
  <2>1. /\ mode[c] = "new" /\ mode' = [mode EXCEPT ![c] = "idle"]
        /\ link' = [link EXCEPT ![c] = "open"]
        /\ UNCHANGED <<up, down, executed, skewed, sent, outcome>>
    BY <1>3 DEF socket_client_init
  <2>2. /\ mode'[c] = "idle"
        /\ \A x \in Client \ {c} : mode'[x] = mode[x] /\ link'[x] = link[x]
    BY <1>1, <2>1, ZenonT(30)
  <2>3. ASSUME c \notin skewed
        PROVE  /\ Turn(mode'[c], link'[c], up[c], down[c], sent[c], executed[c])
               /\ Settled(outcome[c], executed[c])
    <3>1. up[c] = <<>> /\ down[c] = <<>>
      BY <1>2, <2>1, <2>3, Zenon DEF Turn
    <3>2. NoRequest(<<>>)
      BY DEF NoRequest
    <3>. QED
      BY <1>2, <2>2, <2>3, <3>1, <3>2, NothingUnderWay, Zenon
  <2>. QED
    BY <1>1, <2>1, <2>2, <2>3, TurnOne, ZenonT(30)
<1>4. CASE ReceiveNothing(c)
  <2>1. /\ down[c] = <<>>
        /\ mode' = [mode EXCEPT ![c] = "idle"]
        /\ outcome' = [outcome EXCEPT ![c] = [n |-> sent[c], result |-> "failed"]]
        /\ skewed' = IF link[c] = "open" THEN skewed \cup {c} ELSE skewed
        /\ UNCHANGED <<link, up, down, executed, sent>>
    BY <1>4, Zenon DEF ReceiveNothing, Finish
  <2>2. /\ mode'[c] = "idle" /\ outcome'[c].result = "failed"
        /\ outcome' = [x \in Client |-> outcome'[x]]
        /\ \A x \in Client \ {c} : mode'[x] = mode[x] /\ outcome'[x] = outcome[x]
    BY <1>1, <2>1, Zenon
  <2>3. ASSUME c \notin skewed'
        PROVE  /\ Turn(mode'[c], link[c], up[c], down[c], sent[c], executed[c])
               /\ Settled(outcome'[c], executed[c])
    <3>1. mode'[c] # "new" /\ link[c] # "open" /\ down[c] = <<>>
      BY <2>1, <2>2, <2>3
    <3>2. Settled(outcome'[c], executed[c])
      BY <2>2 DEF Settled
    <3>. QED
      BY <3>1, <3>2, NothingUnderWay, Zenon
  <2>4. skewed' = skewed \/ skewed' = skewed \cup {c}
    BY <2>1, Zenon
  <2>. QED
    BY <1>1, <2>1, <2>2, <2>3, <2>4, TurnOne, ZenonT(30)
<1>5. CASE Leave(c)
  <2>1. /\ mode' = [mode EXCEPT ![c] = "over"]
        /\ link' = [link EXCEPT ![c] = IF @ = "open" THEN "gone" ELSE @]
        /\ down' = [down EXCEPT ![c] = <<>>]
        /\ UNCHANGED <<up, executed, skewed, sent, outcome>>
    BY <1>5 DEF Leave
  <2>2. <<>> \in Seq(Message) /\ (IF link[c] = "open" THEN "gone" ELSE link[c]) # "open"
    OBVIOUS
  <2>3. down' \in [Client -> Seq(Message)]
    BY <1>1, <2>1, <2>2, Zenon
  <2>4. /\ mode'[c] = "over" /\ link'[c] # "open" /\ down'[c] = <<>>
        /\ \A x \in Client \ {c} :
             mode'[x] = mode[x] /\ link'[x] = link[x] /\ down'[x] = down[x]
    BY <1>1, <2>1, <2>2, Zenon
  <2>5. Turn(mode'[c], link'[c], up[c], down'[c], sent[c], executed[c])
    BY <2>4, NothingUnderWay, Zenon
  <2>. QED
    BY <1>1, <1>2, <2>1, <2>3, <2>4, <2>5, TurnOne, ZenonT(30)
<1>. QED
  BY <1>3, <1>4, <1>5

\* Every step keeps the clients in step that it does not skew.
LEMMA TurnStep == FdInv /\ OrderInv /\ TurnInv /\ [Next]_vars => TurnInv'
<1> SUFFICES ASSUME FdInv, OrderInv, TurnInv, [Next]_vars PROVE TurnInv'
  OBVIOUS
<1>1. ASSUME UNCHANGED <<mode, up, down, sent, executed, skewed, outcome>>,
             \A c \in Client : link'[c] = "open" => link[c] = "open"
      PROVE  TurnInv'
  <2>1. ASSUME NEW c \in Client \ skewed
        PROVE  /\ Turn(mode[c], link'[c], up[c], down[c], sent[c], executed[c])
               /\ Settled(outcome[c], executed[c])
    <3>1. /\ Turn(mode[c], link[c], up[c], down[c], sent[c], executed[c])
          /\ Settled(outcome[c], executed[c])
      BY DEF TurnInv
    <3>. QED
      BY <1>1, <3>1, TurnMono, Zenon
  <2>2. down \in [Client -> Seq(Message)] /\ outcome = [c \in Client |-> outcome[c]]
    BY DEF TurnInv
  <2>. QED
    BY <1>1, <2>1, <2>2, SMTT(30) DEF TurnInv
<1>2. CASE socket_srv_wait /\ UNCHANGED clivars
  BY <1>1, <1>2 DEF socket_srv_wait, netvars, clivars
<1>3. CASE EndRound /\ UNCHANGED clivars
  BY <1>1, <1>3 DEF EndRound, netvars, clivars
<1>4. CASE AcceptFails /\ UNCHANGED clivars
  <2>1. /\ link' = [c \in Client |-> IF link[c] = "open" THEN "closed" ELSE link[c]]
        /\ UNCHANGED <<mode, up, down, sent, executed, skewed, outcome>>
    BY <1>4, ZenonT(30) DEF AcceptFails, Die, clivars
  <2>. QED
    BY <1>1, <2>1
<1>5. ASSUME NEW c \in Client, AcceptClient(c) \/ CloseClient(c), UNCHANGED clivars
      PROVE  TurnInv'
  BY <1>1, <1>5 DEF AcceptClient, CloseClient, netvars, clivars
<1>6. CASE UNCHANGED vars
  BY <1>1, <1>6 DEF vars, netvars, clivars
<1>. QED
  BY <1>2, <1>3, <1>4, <1>5, <1>6, ProcessTurn, RequestTurn, HeartbeatTurn, ResponseTurn,
     ClientTurn
  DEF Next, SrvNext

\* At the start nothing has been asked or reported either.
LEMMA TurnInit == Init => TurnInv
<1> SUFFICES ASSUME Init PROVE TurnInv
  OBVIOUS
<1>1. /\ down = [c \in Client |-> <<>>] /\ up = [c \in Client |-> <<>>]
      /\ outcome = [c \in Client |-> [n |-> 0, result |-> "none"]]
  BY DEF Init, SrvInit
<1>2. /\ down \in [Client -> Seq(Message)] /\ outcome = [c \in Client |-> outcome[c]]
      /\ \A c \in Client : down[c] = <<>> /\ up[c] = <<>> /\ outcome[c].result = "none"
  BY <1>1
<1>3. ASSUME NEW c \in Client
      PROVE  /\ Turn(mode[c], link[c], up[c], down[c], sent[c], executed[c])
             /\ Settled(outcome[c], executed[c])
  BY <1>2 DEF Turn, Answering, Asking, NoRequest, Settled
<1>. QED
  BY <1>2, <1>3 DEF TurnInv

\* What find_from_server takes for its answer is its answer, with heartbeats and
\* late answers, for any number of clients that come, ask and leave, and even
\* when the server dies between: for every client until it has itself given up
\* waiting on an open connection, or heartbeats of it alone were read at once.
THEOREM InStepAlways == Spec => []InStep
<1>1. TurnInv => InStep
  BY DEF TurnInv, Turn, Answering, InStep
<1>. QED
  BY <1>1, FdAlways, OrderInit, OrderStep, TurnInit, TurnStep, PTL DEF Spec

\* To the same clients a request is reported as done only if it was executed.
\* (To a client that gave up waiting it need not have been: the run
\* session_timeout.)
THEOREM ReportedAlways == Spec => []ReportedInStep
<1>1. TurnInv => ReportedInStep
  BY DEF TurnInv, Settled, Did, ReportedInStep, Reported
<1>. QED
  BY <1>1, FdAlways, OrderInit, OrderStep, TurnInit, TurnStep, PTL DEF Spec

=============================================================================
