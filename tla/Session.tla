------------------------------ MODULE Session -------------------------------
(***************************************************************************)
(* Clients at work with the server: each client's main thread sends a      *)
(* request and waits for its answer (find_from_server in clishell.c), for  *)
(* at most SOCKET_RECV_TIMEOUT, while its heartbeat thread writes to the   *)
(* same socket.  Requests carry no identification and neither do answers:  *)
(* a client takes what comes next as the answer to its current request.    *)
(***************************************************************************)
EXTENDS SocketSrv

CONSTANTS
  MaxRequests, MaxHeartbeats,     \* bounds: per client
  Impatient,     \* whether an answer may take longer than the timeout
  Leaves         \* whether a client may end while it could go on

ASSUME SessionAssumption ==
  /\ MaxRequests \in Nat /\ MaxHeartbeats \in Nat
  /\ Impatient \in BOOLEAN /\ Leaves \in BOOLEAN

VARIABLES
  mode,      \* "new", "idle", "waiting", "over"
  sent,      \* the number of the client's last request
  nfinds,    \* rows received for it
  beats,     \* heartbeats sent
  outcome    \* what find_from_server last returned, and for which request

clivars == <<mode, sent, nfinds, beats, outcome>>
vars == <<srvvars, netvars, clivars>>

Result == {"none", "ok", "empty", "failed"}

-----------------------------------------------------------------------------
socket_client_init(c) ==
  /\ mode[c] = "new" /\ Running
  /\ mode' = [mode EXCEPT ![c] = "idle"]
  /\ link' = [link EXCEPT ![c] = "open"]
  /\ pending' = pending \cup {c}
  /\ UNCHANGED <<phase, readfds, recordfds, max_fd_num, fd_loop, fdOf, up, down, executed, skewed,
                 sent, nfinds, beats, outcome>>

socket_client_send_request(c, kind) ==
  /\ mode[c] = "idle" /\ link[c] = "open" /\ sent[c] < MaxRequests
  /\ sent' = [sent EXCEPT ![c] = @ + 1]
  /\ up' = [up EXCEPT ![c] = Append(@, [kind |-> kind, n |-> sent[c] + 1])]
  /\ mode' = [mode EXCEPT ![c] = "waiting"]
  /\ nfinds' = [nfinds EXCEPT ![c] = 0]
  /\ UNCHANGED <<srvvars, link, down, executed, skewed, beats, outcome>>

socket_client_send_heartbeat(c) ==
  /\ mode[c] \in {"idle", "waiting"} /\ link[c] = "open" /\ beats[c] < MaxHeartbeats
  /\ beats' = [beats EXCEPT ![c] = @ + 1]
  /\ up' = [up EXCEPT ![c] = Append(@, [kind |-> "heartbeat"])]
  /\ UNCHANGED <<srvvars, link, down, executed, skewed, mode, sent, nfinds, outcome>>

Finish(c, result) ==
  /\ mode' = [mode EXCEPT ![c] = "idle"]
  /\ outcome' = [outcome EXCEPT ![c] = [n |-> sent[c], result |-> result]]
  /\ UNCHANGED nfinds

\* Variant: the first row of a search ends it.
Accept_FirstRow(c, msg) ==
  \/ msg.response = "r_failed" /\ Finish(c, "failed")
  \/ msg.response = "r_find_end" /\ Finish(c, "empty")
  \/ msg.response \in {"r_success", "r_find_end_more"} /\ Finish(c, "ok")

\* Variant: an end after rows is taken for one more row.
Accept_EndIgnored(c, msg) ==
  \/ msg.response = "r_failed" /\ Finish(c, "failed")
  \/ msg.response = "r_find_end" /\ nfinds[c] = 0 /\ Finish(c, "empty")
  \/ msg.response = "r_find_end_more" /\ Finish(c, "ok")
  \/ msg.response = "r_success" /\ msg.kind = "plain" /\ Finish(c, "ok")
  \/ /\ \/ msg.response = "r_success" /\ msg.kind = "find"
        \/ msg.response = "r_find_end" /\ nfinds[c] > 0
     /\ nfinds' = [nfinds EXCEPT ![c] = @ + 1]
     /\ UNCHANGED <<mode, outcome>>

\* The body of find_from_server's loop: the message decides by its own fields.
Accept(c, msg) ==
  \/ msg.response = "r_failed" /\ Finish(c, "failed")
  \/ /\ msg.response = "r_find_end"
     /\ Finish(c, IF nfinds[c] = 0 THEN "empty" ELSE "ok")
  \/ msg.response = "r_find_end_more" /\ Finish(c, "ok")
  \/ msg.response = "r_success" /\ msg.kind = "plain" /\ Finish(c, "ok")
  \/ /\ msg.response = "r_success" /\ msg.kind = "find"
     /\ nfinds' = [nfinds EXCEPT ![c] = @ + 1]
     /\ UNCHANGED <<mode, outcome>>

socket_client_get_response(c) ==
  /\ mode[c] = "waiting" /\ down[c] # <<>>
  /\ Accept(c, Head(down[c]))
  /\ down' = [down EXCEPT ![c] = Tail(@)]
  /\ UNCHANGED <<srvvars, link, up, executed, skewed, sent, beats>>

\* Variant: the request is sent once more when its answer does not come.
ReceiveNothing_Resends(c) ==
  /\ mode[c] = "waiting" /\ down[c] = <<>>
  /\ Impatient \/ link[c] = "closed"
  /\ \/ Finish(c, "failed") /\ UNCHANGED up
     \/ /\ up' = [up EXCEPT ![c] = Append(@, [kind |-> "plain", n |-> sent[c]])]
        /\ UNCHANGED <<mode, nfinds, outcome>>
  /\ UNCHANGED <<srvvars, link, down, executed, skewed, sent, beats>>

\* recv returns without a message: the timeout, or the server is gone.  The
\* request fails for the user; the connection is kept.
ReceiveNothing(c) ==
  /\ mode[c] = "waiting" /\ down[c] = <<>>
  /\ Impatient \/ link[c] = "closed"
  /\ Finish(c, "failed")
  /\ skewed' = IF link[c] = "open" THEN skewed \cup {c} ELSE skewed
  /\ UNCHANGED <<srvvars, link, up, down, executed, sent, beats>>

\* The client ends: its user quits or it is killed, or it writes to the socket
\* of a server that is gone and SIGPIPE ends it.
Leave(c) ==
  /\ \/ mode[c] \in {"idle", "waiting"} /\ Leaves
     \/ mode[c] = "idle" /\ link[c] = "closed"
  /\ mode' = [mode EXCEPT ![c] = "over"]
  /\ link' = [link EXCEPT ![c] = IF @ = "open" THEN "gone" ELSE @]
  /\ down' = [down EXCEPT ![c] = <<>>]
  /\ UNCHANGED <<srvvars, up, executed, skewed, sent, nfinds, beats, outcome>>

-----------------------------------------------------------------------------
Init ==
  /\ SrvInit
  /\ mode = [c \in Client |-> "new"]
  /\ sent = [c \in Client |-> 0]
  /\ nfinds = [c \in Client |-> 0]
  /\ beats = [c \in Client |-> 0]
  /\ outcome = [c \in Client |-> [n |-> 0, result |-> "none"]]

Next ==
  \/ SrvNext /\ UNCHANGED clivars
  \/ \E c \in Client :
       \/ socket_client_init(c)
       \/ \E kind \in {"plain", "find"} : socket_client_send_request(c, kind)
       \/ socket_client_send_heartbeat(c)
       \/ socket_client_get_response(c)
       \/ ReceiveNothing(c)
       \/ Leave(c)

\* The server and every client's recv go on when they can; nobody has to send
\* a request, a heartbeat, or to leave.
Fairness ==
  /\ WF_vars(SrvNext /\ UNCHANGED clivars)
  /\ \A c \in Client : WF_vars(socket_client_get_response(c) \/ ReceiveNothing(c))

Spec == Init /\ [][Next]_vars /\ Fairness

-----------------------------------------------------------------------------
\* The server's and the clients' variables are of their types.
TypeOK ==
  /\ phase \in {"wait", "fetch", "exited", "killed"}
  /\ readfds \subseteq Fd \cup {server_sockfd}
  /\ recordfds \subseteq Fd \cup {server_sockfd}
  /\ max_fd_num \in Fd \cup {server_sockfd}
  /\ fd_loop \in Nat
  /\ pending \subseteq Client
  /\ fdOf \in [Client -> Fd \cup {NoFd}]
  /\ link \in [Client -> LinkState]
  /\ up \in [Client -> Seq(Packet)]
  /\ down \in [Client -> Seq(Message)]
  /\ executed \in [Client -> Seq(Nat)] /\ skewed \subseteq Client
  /\ mode \in [Client -> {"new", "idle", "waiting", "over"}]
  /\ sent \in [Client -> 0..MaxRequests]
  /\ nfinds \in [Client -> Nat]
  /\ beats \in [Client -> 0..MaxHeartbeats]
  /\ outcome \in [Client -> [n : Nat, result : Result]]

\* As long as a client has not given up waiting, and the server has not read two
\* of its heartbeats and nothing else at once, every message on its way to it
\* answers its current request, and none is on its way when it waits for nothing:
\* what find_from_server takes for its answer is its answer.  A request that is
\* read together with heartbeats is refused, and its client told so.
InStep ==
  \A c \in Client \ skewed :
    /\ \A i \in 1..Len(down[c]) : down[c][i].to = sent[c]
    /\ mode[c] = "idle" => down[c] = <<>>

\* What find_from_server returned as success is a request that took effect.
Reported(c) ==
  outcome[c].result = "ok" => \E i \in 1..Len(executed[c]) : executed[c][i] = outcome[c].n

\* To such a client only a request that took effect is reported as a success
\* (find_from_server, socket_srv_process_request).
ReportedInStep == \A c \in Client \ skewed : Reported(c)

\* What find_from_server returns as success is a request that took effect
\* ("执行成功").
ReportedMeansExecuted == \A c \in Client : Reported(c)

\* Whatever is lost, late or merged, a request is executed at most once, and
\* after the requests the client sent before it: nothing is sent again when
\* its answer does not come.
ExecutedOnceInOrder ==
  \A c \in Client : \A i, j \in 1..Len(executed[c]) :
    /\ executed[c][i] <= sent[c]
    /\ i < j => executed[c][i] < executed[c][j]

\* No client waits forever for an answer: the scan reaches every connection.
EveryRequestAnswered ==
  \A c \in Client : mode[c] = "waiting" ~> mode[c] # "waiting"

\* A connection whose client has left is found and its descriptor released,
\* unless the server ends before (socket_srv_fetch_client closes a connection
\* that is ready and has no data).
DescriptorReleased ==
  \A c \in Client :
    (link[c] \in {"gone", "reset"} /\ fdOf[c] # NoFd) ~> fdOf[c] = NoFd \/ ~Running
=============================================================================
