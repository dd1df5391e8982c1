-------------------------------- MODULE Sockets --------------------------------
(***************************************************************************)
(* The sockets the board opens as a client, beside the HTTP server:        *)
(*   - the HTTP client (application/network_http.c, lines 488-770), used   *)
(*     by the network thread while it boots and by button 2;               *)
(*   - the UDP socket (application/network_socket.c), used by button 1 and *)
(*     by the TWT event handler (application/network_manager.c, lines      *)
(*     365-393 and 511-546).                                               *)
(* Each file keeps its descriptor in one static variable sock, which every *)
(* caller overwrites, and close() is applied to what the variable holds at *)
(* that moment.  Descriptors are small numbers that the HTTP server and    *)
(* both clients take from the same table.                                  *)
(*                                                                         *)
(* Buttons are handled one at a time by the button library's work item,    *)
(* TWT events one at a time by the network-event thread.  These two and    *)
(* the network thread interleave at the calls that may block: name         *)
(* resolution, connect, send, recv, the HTTP request, and the pause.       *)
(***************************************************************************)
EXTENDS Integers, FiniteSets

CONSTANTS
  Users,           (* which of "network", "button", "twt" run               *)
  Fds,             (* the descriptors                                       *)
  Faults,          (* which calls may fail: "resolve", "socket", "connect", "request" *)
  MAX_CALLBACKS,   (* bound: fragments in which an HTTP response arrives    *)
  MAX_JOBS,        (* bound: button presses, and TWT wake-ups               *)
  MAX_SERVER,      (* bound: descriptors that the HTTP server holds         *)
  SERIAL           (* bound: whether a button or a TWT event comes only when *)
                   (* no other user of the same file is at work              *)

ASSUME SocketsConstants ==
  /\ Users \subseteq {"network", "button", "twt"}
  /\ Fds \subseteq Nat
  /\ Faults \subseteq {"resolve", "socket", "connect", "request"}
  /\ MAX_CALLBACKS \in Nat \ {0} /\ MAX_JOBS \in Nat /\ MAX_SERVER \in Nat
  /\ SERIAL \in BOOLEAN

Free == [by |-> "nobody", proto |-> "none"]
Socket(u, p) == [by |-> u, proto |-> p]
Owners == Users \cup {"server", "nobody"}

(* What a descriptor may refer to; "unconnected" is a UDP socket whose connect()
   has failed. *)
Protos == {"none", "tcp", "udp", "unconnected"}
Entries == [by : Owners, proto : Protos]
Failures == {"none", "resolve", "socket", "connect"}

VARIABLES
  fdtab,      (* the socket each descriptor refers to                        *)
  httpSock,   (* sock of network_http.c                                      *)
  udpSock,    (* sock of network_socket.c                                    *)
  started,    (* network_http_server_start() was called                      *)
  pc,         (* the call that a user is in                                  *)
  job,        (* what it is doing: "id", "put", "get" or "udp"               *)
  reqFd,      (* the descriptor its HTTP request was made on                 *)
  callbacks,  (* response callbacks of its request so far                    *)
  met,        (* the failure of its network_socket_connect(), until it sends *)
  counter,    (* the static counter of network_http.c                        *)
  jobs,       (* presses and wake-ups so far                                 *)
  closes,     (* history: who closed a socket, whose it was, and whether a   *)
              (* second callback of one request did                          *)
  sends,      (* history: who called send(), what it had met, and on which   *)
              (* socket the call was                                         *)
  faults      (* history: failures each user met that may leave a socket     *)

clientVars == <<httpSock, counter>>
historyVars == <<closes, sends, faults>>
vars == <<fdtab, clientVars, udpSock, started, pc, job, reqFd, callbacks, met, jobs, historyVars>>

TypeOK ==
  /\ fdtab \in [Fds -> Entries]
  /\ httpSock \in Fds \cup {-1, 0} /\ udpSock \in Fds \cup {-1, 0}
  /\ started \in BOOLEAN
  /\ pc \in [Users -> {"idle", "resolve", "connect", "request", "pause", "open",
                       "send", "recv", "over"}]
  /\ job \in [Users -> {"id", "put", "get", "udp"}]
  /\ reqFd \in [Users -> Fds \cup {-1, 0}] /\ callbacks \in [Users -> 0..MAX_CALLBACKS]
  /\ counter \in 0..(MAX_JOBS + 1) /\ jobs \in 0..MAX_JOBS
  /\ closes \subseteq [by : Owners, of : Owners, again : BOOLEAN]
  /\ sends \subseteq [by : Owners, met : Failures, into : Entries]
  /\ met \in [Users -> Failures] /\ faults \in [Users -> Nat]

(* The network thread begins with network_http_client_connect(). *)
Init ==
  /\ fdtab = [fd \in Fds |-> Free]
  /\ httpSock = 0 /\ udpSock = 0
  /\ started = ("network" \notin Users)
  /\ pc = [u \in Users |-> IF u = "network" THEN "resolve" ELSE "idle"]
  /\ job = [u \in Users |-> IF u = "network" THEN "id" ELSE "udp"]
  /\ reqFd = [u \in Users |-> 0] /\ callbacks = [u \in Users |-> 0]
  /\ counter = 0 /\ jobs = 0
  /\ met = [u \in Users |-> "none"]
  /\ closes = {} /\ sends = {} /\ faults = [u \in Users |-> 0]

--------------------------------------------------------------------------------
(* The socket layer. *)

Refers(fd) == IF fd \in Fds THEN fdtab[fd] ELSE Free

IsNext(fd) == /\ fdtab[fd] = Free
              /\ \A f \in Fds : f < fd => fdtab[f] # Free

Full == \A fd \in Fds : fdtab[fd] # Free

(* close(fd) called by u: a free descriptor is an error without effect *)
Close(u, fd, again) ==
  /\ fdtab' = [f \in Fds |-> IF f = fd THEN Free ELSE fdtab[f]]
  /\ closes' = IF Refers(fd) = Free THEN closes
               ELSE closes \cup {[by |-> u, of |-> Refers(fd).by, again |-> again]}

Goto(u, from, to) == /\ pc[u] = from
                     /\ pc' = [pc EXCEPT ![u] = to]

Fault(u, kind) == /\ kind \in Faults
                  /\ faults' = [faults EXCEPT ![u] = @ + 1]

(* The users of one sock that are at work. *)
InHttp == {u \in Users : job[u] # "udp" /\ pc[u] \notin {"idle", "over"}}
InUdp == {u \in Users : job[u] = "udp" /\ pc[u] # "idle"}

(* The HTTP server takes and gives back descriptors once it was started. *)
ServerFds == {fd \in Fds : fdtab[fd].by = "server"}

ServerOpens ==
  /\ started /\ Cardinality(ServerFds) < MAX_SERVER
  /\ \E fd \in Fds : IsNext(fd) /\ fdtab' = [fdtab EXCEPT ![fd] = Socket("server", "tcp")]
  /\ UNCHANGED <<clientVars, udpSock, started, pc, job, reqFd, callbacks, met, jobs, historyVars>>

ServerCloses ==
  /\ \E fd \in ServerFds : fdtab' = [fdtab EXCEPT ![fd] = Free]
  /\ UNCHANGED <<clientVars, udpSock, started, pc, job, reqFd, callbacks, met, jobs, historyVars>>

--------------------------------------------------------------------------------
(* The HTTP client. *)

(* what follows a step of job j: the ID, the PUT, the pause and the GET *)
AfterJob(u) == CASE job[u] = "id" -> "open"
                 [] job[u] = "put" -> "pause"
                 [] job[u] = "get" -> IF u = "network" THEN "over" ELSE "idle"
NextJob(u) == IF job[u] = "id" THEN "put" ELSE job[u]
Finish(u, from) == /\ Goto(u, from, AfterJob(u))
                   /\ job' = [job EXCEPT ![u] = NextJob(u)]
                   /\ started' = (started \/ (u = "network" /\ job[u] = "get"))

(* button_handler for button 2: network_http_client_test() *)
PressButton2 ==
  /\ "button" \in Users /\ jobs < MAX_JOBS /\ (SERIAL => InHttp = {})
  /\ Goto("button", "idle", "open")
  /\ job' = [job EXCEPT !["button"] = "put"]
  /\ jobs' = jobs + 1
  /\ UNCHANGED <<fdtab, clientVars, udpSock, started, reqFd, callbacks, met, historyVars>>

(* server_resolve of network_http_client_connect, only at boot; if it fails the
   caller goes on with network_http_client_test *)
HttpResolves ==
  /\ "network" \in Users
  /\ \/ Goto("network", "resolve", "open") /\ UNCHANGED <<job, faults>>
     \/ /\ Finish("network", "resolve")
        /\ "resolve" \in Faults /\ UNCHANGED faults
  /\ UNCHANGED <<fdtab, clientVars, udpSock, started, reqFd, callbacks, met, jobs, closes, sends>>

(* server_connect: sock = socket(), and connect() is called *)
HttpOpens(u, fd) ==
  /\ IsNext(fd)
  /\ Goto(u, "open", "connect")
  /\ fdtab' = [fdtab EXCEPT ![fd] = Socket(u, "tcp")]
  /\ httpSock' = fd
  /\ UNCHANGED <<counter, udpSock, started, job, reqFd, callbacks, met, jobs, historyVars>>

HttpOpenFails(u) ==
  /\ Full \/ "socket" \in Faults
  /\ Finish(u, "open")
  /\ httpSock' = -1
  /\ UNCHANGED <<fdtab, counter, udpSock, reqFd, callbacks, met, jobs, historyVars>>

(* http_client_req(sock, ...) is called, with what sock holds by now *)
Requests(u) ==
  /\ Goto(u, "connect", "request")
  /\ reqFd' = [reqFd EXCEPT ![u] = httpSock]
  /\ callbacks' = [callbacks EXCEPT ![u] = 0]

HttpConnected(u) ==
  /\ Requests(u)
  /\ UNCHANGED <<fdtab, clientVars, udpSock, started, job, met, jobs, historyVars>>

(* connect() fails: server_connect returns and leaves the socket open *)
HttpConnectFails(u) ==
  /\ Fault(u, "connect")
  /\ Finish(u, "connect")
  /\ UNCHANGED <<fdtab, clientVars, udpSock, reqFd, callbacks, met, jobs, closes, sends>>

(* A fragment of a response arrives through the descriptor of the request,
   whoever owns it meanwhile; through a closed one nothing arrives. *)
FragmentArrives(u) ==
  /\ pc[u] = "request" /\ callbacks[u] < MAX_CALLBACKS
  /\ Refers(reqFd[u]) # Free
  /\ callbacks' = [callbacks EXCEPT ![u] = @ + 1]

(* Mutant of HttpCallback: the socket is not closed. *)
CallbackWithoutClose(u) ==
  /\ FragmentArrives(u)
  /\ UNCHANGED <<fdtab, httpSock, counter, udpSock, started, pc, job, reqFd, met, jobs, historyVars>>

(* response_cb and client_id_cb: the library calls them for each fragment of
   the response, and each time they close sock.  The ID that client_id_cb
   appends to client_id_buf is left out. *)
HttpCallback(u) ==
  /\ FragmentArrives(u)
  /\ Close(u, httpSock, callbacks[u] > 0)
  /\ UNCHANGED <<httpSock, counter, udpSock, started, pc, job, reqFd, met, jobs, sends, faults>>

(* Mutant of HttpRequestEnds: sock is closed once more. *)
RequestEndsClosing(u) ==
  /\ Finish(u, "request")
  /\ callbacks[u] > 0 \/ Refers(reqFd[u]) = Free
  /\ Close(u, httpSock, FALSE)
  /\ counter' = IF job[u] = "put" THEN counter + 1 ELSE counter
  /\ UNCHANGED <<httpSock, udpSock, reqFd, callbacks, met, jobs, sends, faults>>

(* http_client_req() returns: after an answer, on a descriptor that was closed
   under it, or after 5 s without an answer *)
HttpRequestEnds(u) ==
  /\ Finish(u, "request")
  /\ IF callbacks[u] > 0 \/ Refers(reqFd[u]) = Free THEN UNCHANGED faults ELSE Fault(u, "request")
  /\ counter' = IF job[u] = "put" THEN counter + 1 ELSE counter
  /\ UNCHANGED <<fdtab, httpSock, udpSock, reqFd, callbacks, met, jobs, closes, sends>>

(* Mutant of PauseEnds: the PUT is made again. *)
PutAgain(u) ==
  /\ Goto(u, "pause", "open")
  /\ job' = [job EXCEPT ![u] = "put"]
  /\ UNCHANGED <<fdtab, clientVars, udpSock, started, reqFd, callbacks, met, jobs, historyVars>>

(* k_msleep(500) between the PUT and the GET *)
PauseEnds(u) ==
  /\ Goto(u, "pause", "open")
  /\ job' = [job EXCEPT ![u] = "get"]
  /\ UNCHANGED <<fdtab, clientVars, udpSock, started, reqFd, callbacks, met, jobs, historyVars>>

--------------------------------------------------------------------------------
(* The UDP socket: button 1, and a TWT wake-up. *)

UdpBegins(u) ==
  /\ u # "network" /\ jobs < MAX_JOBS /\ (SERIAL => InUdp = {})
  /\ Goto(u, "idle", "resolve")
  /\ job' = [job EXCEPT ![u] = "udp"]
  /\ jobs' = jobs + 1
  /\ UNCHANGED <<fdtab, clientVars, udpSock, started, reqFd, callbacks, met, historyVars>>

(* What network_socket_connect() has met; its result is not looked at, and every
   caller goes on to send. *)
Meets(u, failure) == /\ job[u] = "udp" /\ Goto(u, "resolve", "send")
                     /\ met' = [met EXCEPT ![u] = failure]

(* Mutant of UdpOpens: the descriptor stays in a local variable. *)
UdpShadowed(u, fd) ==
  /\ Meets(u, "none") /\ IsNext(fd)
  /\ fdtab' = [fdtab EXCEPT ![fd] = Socket(u, "udp")]
  /\ UNCHANGED <<clientVars, udpSock, started, job, reqFd, callbacks, jobs, historyVars>>

(* network_socket_connect: the name is resolved, sock = socket(), and the UDP
   socket is connected at once *)
UdpOpens(u, fd) ==
  /\ Meets(u, "none") /\ IsNext(fd)
  /\ fdtab' = [fdtab EXCEPT ![fd] = Socket(u, "udp")]
  /\ udpSock' = fd
  /\ UNCHANGED <<clientVars, started, job, reqFd, callbacks, jobs, historyVars>>

(* connect() fails: the socket stays open, and sock refers to it *)
UdpConnectFails(u, fd) ==
  /\ Meets(u, "connect") /\ "connect" \in Faults /\ IsNext(fd)
  /\ fdtab' = [fdtab EXCEPT ![fd] = Socket(u, "unconnected")]
  /\ udpSock' = fd
  /\ UNCHANGED <<clientVars, started, job, reqFd, callbacks, jobs, historyVars>>

UdpOpenFails(u) ==
  /\ Meets(u, "socket") /\ (Full \/ "socket" \in Faults)
  /\ udpSock' = -1
  /\ UNCHANGED <<fdtab, clientVars, started, job, reqFd, callbacks, jobs, historyVars>>

(* the name is not resolved: sock keeps its value *)
UdpResolveFails(u) ==
  /\ Meets(u, "resolve") /\ "resolve" \in Faults
  /\ UNCHANGED <<fdtab, clientVars, udpSock, started, job, reqFd, callbacks, jobs, historyVars>>

(* send(): on a free descriptor, or an unconnected socket, it fails and no message
   goes.  Its result is only logged, so that a failure on a connected socket makes no
   difference here. *)
Sends(u) ==
  /\ sends' = sends \cup {[by |-> u, met |-> met[u], into |-> Refers(udpSock)]}
  /\ met' = [met EXCEPT ![u] = "none"]

(* Mutant of ButtonSends: network_socket_close() is missing. *)
ButtonSendsOnly ==
  /\ "button" \in Users /\ Goto("button", "send", "idle") /\ Sends("button")
  /\ UNCHANGED <<fdtab, clientVars, udpSock, started, job, reqFd, callbacks, jobs, closes, faults>>

(* send() and then network_socket_close() *)
ButtonSends ==
  /\ "button" \in Users /\ Goto("button", "send", "idle") /\ Sends("button")
  /\ Close("button", udpSock, FALSE)
  /\ UNCHANGED <<clientVars, udpSock, started, job, reqFd, callbacks, jobs, faults>>

TwtSends ==
  /\ "twt" \in Users /\ Goto("twt", "send", "recv") /\ Sends("twt")
  /\ UNCHANGED <<fdtab, clientVars, udpSock, started, job, reqFd, callbacks, jobs, closes, faults>>

(* recv() returned data, which only a connected socket has *)
TwtReceives ==
  /\ "twt" \in Users /\ Goto("twt", "recv", "idle")
  /\ Refers(udpSock).proto \in {"tcp", "udp"}
  /\ Close("twt", udpSock, FALSE)
  /\ UNCHANGED <<clientVars, udpSock, started, job, reqFd, callbacks, met, jobs, sends, faults>>

(* recv() failed, as it does on a free descriptor, or the datagram was empty:
   break, without a close.  On an unconnected socket it may as well wait for ever. *)
TwtReceiveFails ==
  /\ "twt" \in Users /\ Goto("twt", "recv", "idle")
  /\ IF Refers(udpSock) = Free THEN UNCHANGED faults ELSE Fault("twt", "request")
  /\ UNCHANGED <<fdtab, clientVars, udpSock, started, job, reqFd, callbacks, met, jobs, closes, sends>>

--------------------------------------------------------------------------------
HttpClient(u) ==
  \/ HttpOpenFails(u) \/ HttpConnected(u) \/ HttpConnectFails(u)
  \/ HttpCallback(u) \/ HttpRequestEnds(u) \/ PauseEnds(u)
  \/ \E fd \in Fds : HttpOpens(u, fd)

UdpClient(u) ==
  \/ UdpBegins(u) \/ UdpOpenFails(u) \/ UdpResolveFails(u)
  \/ \E fd \in Fds : UdpOpens(u, fd) \/ UdpConnectFails(u, fd)

Next ==
  \/ ServerOpens \/ ServerCloses \/ PressButton2 \/ HttpResolves
  \/ ButtonSends \/ TwtSends \/ TwtReceives \/ TwtReceiveFails
  \/ \E u \in Users : HttpClient(u) \/ UdpClient(u)

Spec == Init /\ [][Next]_vars

--------------------------------------------------------------------------------
(* Properties. *)

Owned(u) == {fd \in Fds : fdtab[fd].by = u}

(* What begins the trouble with sockets: a resolution fails, and the old number
   in sock is used; or a further callback of one request closes sock again,
   which somebody else was given meanwhile. *)
Stray == \/ \E m \in sends : m.met = "resolve"
         \/ \E c \in closes : c.again /\ c.by # c.of

(* "Close the socket" (network_http.c:597): a callback, and
   network_socket_close(), close a socket of the one who calls, never one that
   another user of the descriptors has opened meanwhile, unless one of the two
   steps above came first. *)
ClosesOwn == Stray \/ \A c \in closes : c.by = c.of

(* "Send a message every time button 1 is pressed" (network_manager.c:365): each
   send() is on the socket that this press, or this wake-up, has opened and connected
   for it.  When connect() or socket() failed and the caller goes on
   (network_socket.c:73-87), it is on the socket left unconnected, or on none, so that
   send() fails and no message goes, into no other user's socket either.  Except for
   Stray. *)
Opened(m) == CASE m.met = "none" -> Socket(m.by, "udp")
               [] m.met = "connect" -> Socket(m.by, "unconnected")
               [] m.met \in {"socket", "resolve"} -> Free
SendsAsOpened == Stray \/ \A m \in sends : m.into = Opened(m)

(* Even when the connect failed and the caller goes on, the message of button 1
   is sent as a datagram or not at all, and into nobody else's socket. *)
MessagesStayOwn == \A m \in sends : m.into = Free \/ (m.into.by = m.by /\ m.into.proto # "tcp")

(* A user that is done, and has met no failure, has left no socket behind. *)
NothingLeft == \A u \in Users : pc[u] \in {"idle", "over", "pause"} /\ faults[u] = 0 => Owned(u) = {}

(* A user leaves at most one socket behind for each failure it met (connect,
   network_http.c:555-559; request; and network_manager.c:531-541). *)
LeaksCounted ==
  \A u \in Users : Cardinality(Owned(u)) <=
    faults[u] + (IF pc[u] \in {"connect", "request", "send", "recv"} THEN 1 ELSE 0)
================================================================================
