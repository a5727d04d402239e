----------------------------- MODULE SocketSrv ------------------------------
(***************************************************************************)
(* The server's loop over its connections (socketsrv.c, bsdq_server.c) and *)
(* the sockets it works on.  One process waits in select, then goes        *)
(* through the ready descriptors in ascending order: the listening socket  *)
(* is accepted from, a connection without data is closed, a connection     *)
(* with data is read and answered.                                         *)
(*                                                                         *)
(* A request is 704 bytes and a heartbeat 16, each sent by one call, so a  *)
(* packet arrives whole, but TCP keeps no boundaries: one recv of BUFSIZ   *)
(* bytes takes every packet that has arrived.  The server tells a          *)
(* heartbeat from a request by the number of bytes it got; any other       *)
(* number is answered with r_failed.                                       *)
(***************************************************************************)
EXTENDS Integers, Sequences, FiniteSetsExt

CONSTANTS
  Client,          \* runs of the client program, each with one connection
  Fd,              \* the descriptors accept may return
  server_sockfd,   \* the listening socket
  NoFd,            \* a connection without a descriptor
  DEFAULT_FINDS    \* rows of one answer to a search

ASSUME DescriptorAssumption ==
  /\ Fd \subseteq Nat
  /\ server_sockfd \in Nat \ Fd
  /\ NoFd \notin Fd \cup {server_sockfd}
  /\ DEFAULT_FINDS \in Nat \ {0}

VARIABLES
  phase,           \* "wait" (in select), "fetch" (going through the ready),
                   \* "exited" or "killed" when the process is gone
  readfds, recordfds, max_fd_num, fd_loop,
  pending,         \* connections not accepted yet
  fdOf,            \* the descriptor of an accepted connection
  link,            \* the state of a connection as the server's kernel sees it
  up, down,        \* bytes on their way to the server, to the client
  executed,        \* the requests of each client that took effect, in this order
  skewed           \* history: the clients that gave up waiting for an answer, or were
                   \* sent one that answers no request

srvvars == <<phase, readfds, recordfds, max_fd_num, fd_loop, pending, fdOf>>
netvars == <<link, up, down, executed, skewed>>

\* "gone": the client closed its end; "reset": and answered a reply with RST;
\* "closed": the server process is gone.
LinkState == {"none", "open", "gone", "reset", "closed"}

Packet == [kind : {"heartbeat"}] \cup [kind : {"plain", "find"}, n : Nat]
Response == {"r_success", "r_failed", "r_find_end", "r_find_end_more"}
Message == [to : Nat, kind : {"plain", "find"}, response : Response]

Reply(req, response) == [to |-> req.n, kind |-> req.kind, response |-> response]

\* The answer to a read of the wrong length refuses the request in it; a read of
\* several heartbeats is answered too, and then the answer answers no request.
Requests(got) == {got[i].n : i \in {j \in 1..Len(got) : got[j].kind # "heartbeat"}}
Refusal(n) == [to |-> n, kind |-> "plain", response |-> "r_failed"]

-----------------------------------------------------------------------------
\* The descriptor sets.
find_max_fd(fds, max) == Max({f \in fds : f <= max})

ClientOn(f) == {c \in Client : fdOf[c] = f}
Readable(c) == up[c] # <<>> \/ link[c] \in {"gone", "reset"}
Ready(f) ==
  \/ f = server_sockfd /\ pending # {}
  \/ \E c \in ClientOn(f) : Readable(c)

\* The descriptors that this round has still to visit.
Remaining == {f \in readfds : fd_loop <= f /\ f <= max_fd_num}

-----------------------------------------------------------------------------
\* Variant: the set is copied after select has changed it, not before.
socket_srv_wait_CopiedAfter ==
  /\ phase = "wait"
  /\ \E f \in recordfds : f <= max_fd_num /\ Ready(f)
  /\ readfds' = recordfds
  /\ phase' = "fetch"
  /\ UNCHANGED <<recordfds, max_fd_num, fd_loop, pending, fdOf, netvars>>

socket_srv_wait ==
  /\ phase = "wait"
  /\ readfds' = {f \in recordfds : f <= max_fd_num /\ Ready(f)}
  /\ readfds' # {}
  /\ phase' = "fetch"
  /\ UNCHANGED <<recordfds, max_fd_num, fd_loop, pending, fdOf, netvars>>

\* Variant: the scan does not start again from the first descriptor.
EndRound_NoReset ==
  /\ phase = "fetch"
  /\ Remaining = {}
  /\ phase' = "wait"
  /\ UNCHANGED <<readfds, recordfds, max_fd_num, fd_loop, pending, fdOf, netvars>>

EndRound ==
  /\ phase = "fetch"
  /\ Remaining = {}
  /\ fd_loop' = 0
  /\ phase' = "wait"
  /\ UNCHANGED <<readfds, recordfds, max_fd_num, pending, fdOf, netvars>>

\* The next ready descriptor of the scan; the ones between are skipped.
Visit(f) ==
  /\ phase = "fetch"
  /\ f \in Remaining
  /\ \A g \in Remaining : f <= g
  /\ fd_loop' = f + 1

\* Variant: the largest descriptor is not raised by a new connection.
NewMax_Stale(newfd) == max_fd_num
NewMax(newfd) == IF newfd > max_fd_num THEN newfd ELSE max_fd_num

\* accept returns the lowest free descriptor.
FreeFd == Fd \ {fdOf[c] : c \in Client}
AcceptClient(c) ==
  /\ Visit(server_sockfd)
  /\ c \in pending
  /\ pending' = pending \ {c}
  /\ \E newfd \in {f \in FreeFd : \A g \in FreeFd : f <= g} :
       /\ fdOf' = [fdOf EXCEPT ![c] = newfd]
       /\ recordfds' = recordfds \cup {newfd}
       /\ max_fd_num' = NewMax(newfd)
  /\ UNCHANGED <<phase, readfds, netvars>>

\* The server process ends: the kernel closes its connections.
Running == phase \in {"wait", "fetch"}
Die(how) ==
  /\ phase' = how
  /\ link' = [c \in Client |-> IF link[c] = "open" THEN "closed" ELSE link[c]]

\* No descriptor is left: the server exits.
AcceptFails ==
  /\ Visit(server_sockfd)
  /\ FreeFd = {}
  /\ Die("exited")
  /\ UNCHANGED <<readfds, recordfds, max_fd_num, pending, fdOf, up, down, executed, skewed>>

Forget(f) == recordfds \ {f}

\* A ready connection without data was closed by its client.
CloseClient(c) ==
  /\ Visit(fdOf[c])
  /\ up[c] = <<>>
  /\ fdOf' = [fdOf EXCEPT ![c] = NoFd]
  /\ recordfds' = Forget(fdOf[c])
  /\ max_fd_num' = find_max_fd(recordfds', max_fd_num)
  /\ UNCHANGED <<phase, readfds, pending, netvars>>

-----------------------------------------------------------------------------
\* The packets one recv returns: all that have arrived, at least one.
Arrived(c) == {SubSeq(up[c], 1, n) : n \in 1..Len(up[c])}

\* The answers the dispatcher sends to one request: a search sends its rows
\* and an end, every other request one message.  The results of a search are
\* stored before they are fetched, so fetching them does not fail.
Answers(req) ==
  IF req.kind = "plain"
  THEN {<<Reply(req, "r_success")>>, <<Reply(req, "r_failed")>>}
  ELSE {<<Reply(req, "r_failed")>>} \cup
       {Append([i \in 1..n |-> Reply(req, "r_success")],
               Reply(req, IF n = DEFAULT_FINDS THEN "r_find_end_more" ELSE "r_find_end")) :
        n \in 0..DEFAULT_FINDS}

\* What the server answers to the packets of one recv.
Process(got) ==
  IF Len(got) = 1
  THEN IF got[1].kind = "heartbeat" THEN {<<>>} ELSE Answers(got[1])
  ELSE {<<Refusal(n)>> : n \in IF Requests(got) = {} THEN {0} ELSE Requests(got)}

\* send: an answer to a client that is gone is lost and brings an RST sooner
\* or later; a send after the RST raises SIGPIPE, which the server does not
\* handle.
Send(c, msgs) ==
  \/ /\ link[c] = "open"
     /\ down' = [down EXCEPT ![c] = @ \o msgs]
     /\ UNCHANGED <<phase, link>>
  \/ /\ link[c] = "gone" /\ msgs # <<>>
     /\ link' = [link EXCEPT ![c] = "reset"]
     /\ UNCHANGED <<phase, down>>
  \/ /\ msgs = <<>> \/ (link[c] = "gone" /\ Len(msgs) = 1)
     /\ link[c] # "open"
     /\ UNCHANGED <<phase, link, down>>
  \/ /\ \/ link[c] = "reset" /\ msgs # <<>>
        \/ link[c] = "gone" /\ Len(msgs) > 1
     /\ Die("killed")
     /\ UNCHANGED down

socket_srv_process_request(c) ==
  /\ Visit(fdOf[c])
  /\ up[c] # <<>>
  /\ \E got \in Arrived(c) : \E msgs \in Process(got) :
       /\ up' = [up EXCEPT ![c] = SubSeq(@, Len(got) + 1, Len(@))]
       /\ executed' = IF msgs # <<>> /\ msgs[1].response # "r_failed"
                      THEN [executed EXCEPT ![c] = Append(@, msgs[1].to)] ELSE executed
       /\ skewed' = IF Len(got) > 1 /\ Requests(got) = {} THEN skewed \cup {c} ELSE skewed
       /\ Send(c, msgs)
  /\ UNCHANGED <<readfds, recordfds, max_fd_num, pending, fdOf>>

-----------------------------------------------------------------------------
SrvInit ==
  /\ phase = "wait"
  /\ readfds = {}
  /\ recordfds = {server_sockfd}
  /\ max_fd_num = server_sockfd
  /\ fd_loop = 0
  /\ pending = {}
  /\ fdOf = [c \in Client |-> NoFd]
  /\ link = [c \in Client |-> "none"]
  /\ up = [c \in Client |-> <<>>]
  /\ down = [c \in Client |-> <<>>]
  /\ executed = [c \in Client |-> <<>>]
  /\ skewed = {}

SrvNext ==
  \/ socket_srv_wait
  \/ EndRound
  \/ AcceptFails
  \/ \E c \in Client :
       \/ AcceptClient(c)
       \/ CloseClient(c)
       \/ socket_srv_process_request(c)

\* The main loop takes its next step whenever there is one.
SrvFairness == WF_<<srvvars, netvars>>(SrvNext)

-----------------------------------------------------------------------------
\* The recorded descriptors are the listening socket and the accepted
\* connections, and the bound of the scan and of select is the largest of them:
\* a descriptor above it would never be served (FD_SET, FD_CLR, find_max_fd).
RecordedExactly ==
  Running =>
    /\ recordfds = {server_sockfd} \cup ({fdOf[c] : c \in Client} \ {NoFd})
    /\ max_fd_num \in recordfds
    /\ \A f \in recordfds : f <= max_fd_num

\* Every descriptor this round has still to visit is recorded and ready, even
\* when connections are accepted and closed, and descriptors reused, during
\* the round: neither accept nor recv ever blocks the server.
NeverBlocks ==
  phase = "fetch" => \A f \in Remaining : f \in recordfds /\ Ready(f)

\* No signal ends the server but through its own exit ("屏蔽信号安全退出").
SignalsMasked == phase # "killed"
=============================================================================
