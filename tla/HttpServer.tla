------------------------------ MODULE HttpServer -------------------------------
(***************************************************************************)
(* The HTTP server of application/network_http.c (lines 97-484): the       *)
(* listener thread tcp4_thread_id, one handler thread per slot of          *)
(* tcp4_accepted, and the state they share (led_states, page_buf, the      *)
(* slots, the socket descriptors).                                         *)
(*                                                                         *)
(* The listener and the handlers run at one cooperative priority on one    *)
(* core (THREAD_PRIORITY, line 52): a thread gives up the processor only   *)
(* inside a socket call.  So an action is the code from the return of one  *)
(* socket call to the next one, and socket calls of different threads      *)
(* interleave in any order.  What recv() delivers before a request is      *)
(* complete changes nothing here; module HttpReceive has it in detail.     *)
(***************************************************************************)
EXTENDS Integers, Sequences, FiniteSets

CONSTANTS
  MAX_CLIENT_QUEUE,  (* slots, and the backlog given to listen(): 2 in the code *)
  NUM_LEDS,          (* ARRAY_SIZE(led_states): 2 in the code                  *)
  Fds,               (* descriptors of the socket layer, 0 the first one       *)
  Conns,             (* bound: the TCP connections that clients attempt        *)
  Requests,          (* bound: what clients send                               *)
  PAGE_CHUNKS,       (* bound: send() calls that one page may take             *)
  MAX_UPTIME,        (* bound: seconds the clock counts                        *)
  SocketErrors,      (* whether socket(), bind(), listen(), accept() may fail  *)
  Free, Listening,   (* a descriptor is free, the listening socket, ...        *)
  Unbound,           (* ... or a socket that bind() or listen() refused        *)
  NoConn, NoReq

Slots == 0 .. MAX_CLIENT_QUEUE - 1
NoFd == -1

ASSUME ServerConstants ==
  /\ MAX_CLIENT_QUEUE \in Nat \ {0}
  /\ NUM_LEDS \in Nat \ {0}
  /\ Fds \subseteq Nat /\ 0 \in Fds
  /\ PAGE_CHUNKS \in Nat \ {0}
  /\ MAX_UPTIME \in Nat
  /\ SocketErrors \in BOOLEAN
  /\ {Free, Listening, Unbound} \cap Conns = {}
  /\ Free # Listening /\ Free # Unbound /\ Listening # Unbound
  /\ NoConn \notin Conns /\ NoReq \notin Requests

(* A request as the handler sees it once it is complete: path "led" with the
   number %u scanned, "root", or "other"; value is the uint8_t that atoi()
   left in new_state, and empty says that no body byte arrived. *)
ASSUME RequestShape ==
  Requests \subseteq [method : {"PUT", "GET", "OTHER"}, path : {"led", "root", "other"},
                      id : Nat, value : 0..255, empty : BOOLEAN]

VARIABLES
  (* the socket layer and the peers *)
  fdtab,               (* what each descriptor refers to                    *)
  conn,                (* TCP state: "new", "backlog", "open", "closed"     *)
  peer,                (* "up", or "gone" once the client closed or reset   *)
  sent,                (* the complete request the client has sent          *)
  got,                 (* the pieces of the response the client received    *)
  (* the listener *)
  listener,            (* "unstarted", "setup", "accept", "reject", "dead"  *)
  client,              (* process_tcp's local of that name                  *)
  tcp4_listen_sock, tcp4_accepted, tcp4_handler_tid,
  (* the handlers: k_thread state, and locals of client_conn_handler *)
  thread,              (* "dead", "ready", "recv", "send", "close", "exit"  *)
  request_socket, resp_ptr, len,
  (* shared data *)
  led_states, led, page_buf, uptime

netVars == <<fdtab, conn, peer, sent, got>>
listenVars == <<listener, client, tcp4_listen_sock>>
slotVars == <<tcp4_accepted, tcp4_handler_tid, thread, request_socket>>
dataVars == <<resp_ptr, len, led_states, led, page_buf>>
vars == <<netVars, listenVars, slotVars, dataVars, uptime>>

ThreadStates == {"dead", "ready", "recv", "send", "close", "exit"}
Responses == [kind : {"200", "403", "404", "led", "page"}, val : Nat]

TypeOK ==
  /\ fdtab \in [Fds -> Conns \cup {Free, Listening, Unbound}]
  /\ conn \in [Conns -> {"new", "backlog", "open", "closed"}]
  /\ peer \in [Conns -> {"up", "gone"}]
  /\ sent \in [Conns -> Requests \cup {NoReq}]
  /\ got \in [Conns -> Seq(Responses)]
  /\ listener \in {"unstarted", "setup", "accept", "reject", "dead"}
  /\ client \in Fds \cup {NoFd}
  /\ tcp4_listen_sock \in Fds \cup {NoFd}
  /\ tcp4_accepted \in [Slots -> Fds \cup {NoFd}]
  /\ tcp4_handler_tid \in [Slots -> Slots \cup {-1}]
  /\ thread \in [Slots -> ThreadStates]
  /\ request_socket \in [Slots -> Fds \cup {NoFd}]
  /\ resp_ptr \in [Slots -> Responses]
  /\ len \in [Slots -> 0..PAGE_CHUNKS]
  /\ led_states \in [1..NUM_LEDS -> {0, 1}]
  /\ led \in [1..NUM_LEDS -> {0, 1}]
  /\ page_buf \in 0..MAX_UPTIME
  /\ uptime \in 0..MAX_UPTIME

(* Statically allocated data starts as zero; the thread is defined but not
   started (delay -1 at line 108). *)
Init ==
  /\ fdtab = [fd \in Fds |-> Free]
  /\ conn = [c \in Conns |-> "new"]
  /\ peer = [c \in Conns |-> "up"]
  /\ sent = [c \in Conns |-> NoReq]
  /\ got = [c \in Conns |-> <<>>]
  /\ listener = "unstarted"
  /\ client = NoFd
  /\ tcp4_listen_sock = 0
  /\ tcp4_accepted = [s \in Slots |-> 0]
  /\ tcp4_handler_tid = [s \in Slots |-> -1]
  /\ thread = [s \in Slots |-> "dead"]
  /\ request_socket = [s \in Slots |-> NoFd]
  /\ resp_ptr = [s \in Slots |-> [kind |-> "403", val |-> 0]]
  /\ len = [s \in Slots |-> 0]
  /\ led_states = [i \in 1..NUM_LEDS |-> 0]
  /\ led = [i \in 1..NUM_LEDS |-> 0]
  /\ page_buf = 0
  /\ uptime = 0

--------------------------------------------------------------------------------
(* The clients, and the clock. *)

IsListening == \E fd \in Fds : fdtab[fd] = Listening
Backlog == {c \in Conns : conn[c] = "backlog"}

Connect(c) ==
  /\ IsListening
  /\ conn[c] = "new"
  /\ Cardinality(Backlog) < MAX_CLIENT_QUEUE
  /\ conn' = [conn EXCEPT ![c] = "backlog"]
  /\ UNCHANGED <<fdtab, peer, sent, got, listenVars, slotVars, dataVars, uptime>>

ClientSend(c, r) ==
  /\ conn[c] \in {"backlog", "open"} /\ peer[c] = "up" /\ sent[c] = NoReq
  /\ sent' = [sent EXCEPT ![c] = r]
  /\ UNCHANGED <<fdtab, conn, peer, got, listenVars, slotVars, dataVars, uptime>>

ClientGone(c) ==
  /\ conn[c] \in {"backlog", "open"} /\ peer[c] = "up"
  /\ peer' = [peer EXCEPT ![c] = "gone"]
  /\ UNCHANGED <<fdtab, conn, sent, got, listenVars, slotVars, dataVars, uptime>>

Tick ==
  /\ uptime < MAX_UPTIME
  /\ uptime' = uptime + 1
  /\ UNCHANGED <<netVars, listenVars, slotVars, dataVars>>

--------------------------------------------------------------------------------
(* The listener thread. *)

(* Mutant of Start: the slots are left as static storage has them. *)
StartWithoutReset ==
  /\ listener = "unstarted"
  /\ listener' = "setup"
  /\ UNCHANGED <<netVars, client, tcp4_listen_sock, slotVars, dataVars, uptime>>

(* network_http_server_start: parser_init, then start_listener *)
Start ==
  /\ listener = "unstarted"
  /\ listener' = "setup"
  /\ tcp4_accepted' = [s \in Slots |-> NoFd]
  /\ tcp4_listen_sock' = NoFd
  /\ UNCHANGED <<netVars, client, tcp4_handler_tid, thread, request_socket,
                 dataVars, uptime>>

(* the socket layer hands out its lowest free descriptor *)
NextFd(fd) == /\ fdtab[fd] = Free
              /\ \A f \in Fds : f < fd => fdtab[f] # Free

SetupServer(fd) ==
  /\ listener = "setup"
  /\ NextFd(fd)
  /\ fdtab' = [fdtab EXCEPT ![fd] = Listening]
  /\ tcp4_listen_sock' = fd
  /\ listener' = "accept"
  /\ UNCHANGED <<conn, peer, sent, got, client, slotVars, dataVars, uptime>>

(* socket() fails, or a socket is made and bind() or listen() fails: the
   thread ends and the socket stays open *)
SetupFails ==
  /\ listener = "setup" /\ SocketErrors
  /\ \/ tcp4_listen_sock' = NoFd /\ UNCHANGED fdtab
     \/ \E fd \in Fds : /\ NextFd(fd)
                        /\ fdtab' = [fdtab EXCEPT ![fd] = Unbound]
                        /\ tcp4_listen_sock' = fd
  /\ listener' = "dead"
  /\ UNCHANGED <<conn, peer, sent, got, client, slotVars, dataVars, uptime>>

(* Mutant of FreeSlots: the search stops one slot too early. *)
FreeSlotsButLast == {s \in Slots : tcp4_accepted[s] < 0 /\ s < MAX_CLIENT_QUEUE - 1}

(* get_free_slot: the first slot whose descriptor is negative *)
FreeSlots == {s \in Slots : tcp4_accepted[s] < 0}
IsFreeSlot(s) == s \in FreeSlots /\ \A t \in FreeSlots : s <= t

(* accept() returned descriptor fd for connection c *)
Accepted(c, fd) ==
  /\ listener = "accept"
  /\ fdtab[tcp4_listen_sock] = Listening
  /\ conn[c] = "backlog"
  /\ NextFd(fd)
  /\ fdtab' = [fdtab EXCEPT ![fd] = c]
  /\ conn' = [conn EXCEPT ![c] = "open"]

(* process_tcp with a free slot.  The listening socket is AF_INET, so is every
   client address, and the handler thread is always created. *)
AcceptServe(c, fd, s) ==
  /\ Accepted(c, fd)
  /\ IsFreeSlot(s)
  /\ tcp4_accepted' = [tcp4_accepted EXCEPT ![s] = fd]
  /\ thread' = [thread EXCEPT ![s] = "ready"]
  /\ tcp4_handler_tid' = [tcp4_handler_tid EXCEPT ![s] = s]
  /\ UNCHANGED <<peer, sent, got, listenVars, request_socket, dataVars, uptime>>

(* process_tcp with no free slot, up to the close() of the new connection *)
AcceptRefuse(c, fd) ==
  /\ Accepted(c, fd)
  /\ FreeSlots = {}
  /\ client' = fd
  /\ listener' = "reject"
  /\ UNCHANGED <<peer, sent, got, tcp4_listen_sock, slotVars, dataVars, uptime>>

Shut(fd) ==
  /\ fdtab' = [fdtab EXCEPT ![fd] = Free]
  /\ conn' = [c \in Conns |-> IF c = fdtab[fd] THEN "closed" ELSE conn[c]]

(* Mutant of CloseRefused: the connection is not closed. *)
RefusedNotClosed ==
  /\ listener = "reject"
  /\ client' = NoFd
  /\ listener' = "accept"
  /\ UNCHANGED <<netVars, tcp4_listen_sock, slotVars, dataVars, uptime>>

CloseRefused ==
  /\ listener = "reject"
  /\ Shut(client)
  /\ client' = NoFd
  /\ listener' = "accept"
  /\ UNCHANGED <<peer, sent, got, tcp4_listen_sock, slotVars, dataVars, uptime>>

(* Mutant of AcceptFails: a client that is gone before it was accepted ends the
   server. *)
ResetEndsServer ==
  /\ listener = "accept"
  /\ \E c \in Backlog : peer[c] = "gone"
  /\ listener' = "dead"
  /\ UNCHANGED <<netVars, client, tcp4_listen_sock, slotVars, dataVars, uptime>>

(* accept() fails, for an error of its own or for want of a descriptor: the
   listener thread ends, and leaves the listening socket open *)
AcceptFails ==
  /\ listener = "accept"
  /\ SocketErrors \/ \A fd \in Fds : fdtab[fd] # Free
  /\ listener' = "dead"
  /\ UNCHANGED <<netVars, client, tcp4_listen_sock, slotVars, dataVars, uptime>>

--------------------------------------------------------------------------------
(* The handler thread of slot s: client_conn_handler. *)

HandlerStep(s, from, to) == /\ thread[s] = from
                            /\ thread' = [thread EXCEPT ![s] = to]

HandlerStart(s) ==
  /\ HandlerStep(s, "ready", "recv")
  /\ request_socket' = [request_socket EXCEPT ![s] = tcp4_accepted[s]]
  /\ UNCHANGED <<netVars, listenVars, tcp4_accepted, tcp4_handler_tid, dataVars, uptime>>

(* recv() returned what completes request r, and the handler answers it *)
Receives(s, r) ==
  /\ HandlerStep(s, "recv", "send")
  /\ fdtab[request_socket[s]] \in Conns
  /\ sent[fdtab[request_socket[s]]] = r
  /\ UNCHANGED <<netVars, listenVars, tcp4_accepted, tcp4_handler_tid, request_socket, uptime>>

Respond(s, kind, val, chunks) ==
  /\ resp_ptr' = [resp_ptr EXCEPT ![s] = [kind |-> kind, val |-> val]]
  /\ len' = [len EXCEPT ![s] = chunks]

NamesLed(r) == r.path = "led" /\ r.id > 0 /\ r.id < NUM_LEDS + 1

(* Mutant of LegalUpdate: the new state is not compared with 1. *)
AnyUpdate(r) == ~r.empty

(* what handle_led_update accepts: some body byte, and 0 or 1 in new_state *)
LegalUpdate(r) == ~r.empty /\ r.value <= 1

PutLed(s, r) ==
  /\ Receives(s, r)
  /\ r.method = "PUT" /\ NamesLed(r) /\ LegalUpdate(r)
  /\ led_states' = [led_states EXCEPT ![r.id] = r.value]
  /\ led' = [led EXCEPT ![r.id] = r.value]                (* dk_set_led *)
  /\ Respond(s, "200", 0, 1)
  /\ UNCHANGED page_buf

PutForbidden(s, r) ==
  /\ Receives(s, r)
  /\ r.method = "PUT" /\ ~(NamesLed(r) /\ LegalUpdate(r))
  /\ Respond(s, "403", 0, 1)
  /\ UNCHANGED <<led_states, led, page_buf>>

GetLed(s, r) ==
  /\ Receives(s, r)
  /\ r.method = "GET" /\ NamesLed(r)
  /\ Respond(s, "led", led_states[r.id], 1)
  /\ UNCHANGED <<led_states, led, page_buf>>

(* the page is rendered into page_buf, which all handlers share *)
GetPage(s, r) ==
  /\ Receives(s, r)
  /\ r.method = "GET" /\ r.path = "root"
  /\ page_buf' = uptime
  /\ Respond(s, "page", 0, PAGE_CHUNKS)
  /\ UNCHANGED <<led_states, led>>

GetUnknown(s, r) ==
  /\ Receives(s, r)
  /\ r.method = "GET" /\ ~NamesLed(r) /\ r.path # "root"
  /\ Respond(s, "404", 0, 1)
  /\ UNCHANGED <<led_states, led, page_buf>>

OtherMethod(s, r) ==
  /\ Receives(s, r)
  /\ r.method = "OTHER"
  /\ Respond(s, "403", 0, 1)
  /\ UNCHANGED <<led_states, led, page_buf>>

(* Mutant of RecvEnds: the handler returns where it should leave the loop. *)
RecvEndsUnclosed(s) ==
  /\ HandlerStep(s, "recv", "exit")
  /\ fdtab[request_socket[s]] \in Conns => peer[fdtab[request_socket[s]]] = "gone"
  /\ UNCHANGED <<netVars, listenVars, tcp4_accepted, tcp4_handler_tid, request_socket,
                 dataVars, uptime>>

(* the connection was closed or reset before a request was complete *)
RecvEnds(s) ==
  /\ HandlerStep(s, "recv", "close")
  /\ fdtab[request_socket[s]] \in Conns => peer[fdtab[request_socket[s]]] = "gone"
  /\ UNCHANGED <<netVars, listenVars, tcp4_accepted, tcp4_handler_tid, request_socket,
                 dataVars, uptime>>

(* What resp_ptr points at now: page_buf, or data of this handler alone. *)
Piece(s) == IF resp_ptr[s].kind = "page" THEN [kind |-> "page", val |-> page_buf]
                                         ELSE resp_ptr[s]

(* Mutant of Send: no break after the request was processed. *)
SendThenRecv(s, k) ==
  /\ HandlerStep(s, "send", IF k = len[s] THEN "recv" ELSE "send")
  /\ k \in 1..len[s]
  /\ fdtab[request_socket[s]] \in Conns
  /\ got' = [got EXCEPT ![fdtab[request_socket[s]]] = Append(@, Piece(s))]
  /\ len' = [len EXCEPT ![s] = @ - k]
  /\ UNCHANGED <<fdtab, conn, peer, sent, listenVars, tcp4_accepted, tcp4_handler_tid,
                 request_socket, resp_ptr, led_states, led, page_buf, uptime>>

(* send() takes k of the remaining chunks *)
Send(s, k) ==
  /\ HandlerStep(s, "send", IF k = len[s] THEN "close" ELSE "send")
  /\ k \in 1..len[s]
  /\ fdtab[request_socket[s]] \in Conns
  /\ got' = [got EXCEPT ![fdtab[request_socket[s]]] = Append(@, Piece(s))]
  /\ len' = [len EXCEPT ![s] = @ - k]
  /\ UNCHANGED <<fdtab, conn, peer, sent, listenVars, tcp4_accepted, tcp4_handler_tid,
                 request_socket, resp_ptr, led_states, led, page_buf, uptime>>

(* Mutant of SendFails: the socket is closed here, and again after the loop. *)
SendFailsAndCloses(s) ==
  /\ HandlerStep(s, "send", "close")
  /\ fdtab[request_socket[s]] \in Conns => peer[fdtab[request_socket[s]]] = "gone"
  /\ Shut(request_socket[s])
  /\ UNCHANGED <<peer, sent, got, listenVars, tcp4_accepted, tcp4_handler_tid,
                 request_socket, dataVars, uptime>>

SendFails(s) ==
  /\ HandlerStep(s, "send", "close")
  /\ fdtab[request_socket[s]] \in Conns => peer[fdtab[request_socket[s]]] = "gone"
  /\ UNCHANGED <<netVars, listenVars, tcp4_accepted, tcp4_handler_tid, request_socket,
                 dataVars, uptime>>

(* Mutant of CloseConn: the slot is given back before close() is called, and
   so before the thread ends. *)
CloseAfterSlot(s) ==
  /\ HandlerStep(s, "close", "exit")
  /\ Shut(request_socket[s])
  /\ tcp4_accepted' = [tcp4_accepted EXCEPT ![s] = NoFd]
  /\ UNCHANGED <<peer, sent, got, listenVars, tcp4_handler_tid,
                 request_socket, dataVars, uptime>>

CloseConn(s) ==
  /\ HandlerStep(s, "close", "exit")
  /\ Shut(request_socket[s])
  /\ UNCHANGED <<peer, sent, got, listenVars, tcp4_accepted, tcp4_handler_tid,
                 request_socket, dataVars, uptime>>

(* Mutant of Exit: *sock = -1 is missing. *)
ExitKeepsSlot(s) ==
  /\ HandlerStep(s, "exit", "dead")
  /\ tcp4_handler_tid' = [tcp4_handler_tid EXCEPT ![s] = -1]
  /\ request_socket' = [request_socket EXCEPT ![s] = NoFd]
  /\ Respond(s, "403", 0, 0)
  /\ UNCHANGED <<netVars, listenVars, tcp4_accepted, led_states, led, page_buf, uptime>>

(* after close() returned: the slot is given back and the thread ends; its
   locals are out of scope *)
Exit(s) ==
  /\ HandlerStep(s, "exit", "dead")
  /\ tcp4_accepted' = [tcp4_accepted EXCEPT ![s] = NoFd]
  /\ tcp4_handler_tid' = [tcp4_handler_tid EXCEPT ![s] = -1]
  /\ request_socket' = [request_socket EXCEPT ![s] = NoFd]
  /\ Respond(s, "403", 0, 0)
  /\ UNCHANGED <<netVars, listenVars, led_states, led, page_buf, uptime>>

--------------------------------------------------------------------------------
Clients == \E c \in Conns : \/ Connect(c) \/ ClientGone(c)
                            \/ \E r \in Requests : ClientSend(c, r)

Listener ==
  \/ Start \/ SetupFails \/ AcceptFails \/ CloseRefused
  \/ \E fd \in Fds : SetupServer(fd)
  \/ \E c \in Conns, fd \in Fds, s \in Slots : AcceptServe(c, fd, s)
  \/ \E c \in Conns, fd \in Fds : AcceptRefuse(c, fd)

Handles(s, r) == \/ PutLed(s, r) \/ PutForbidden(s, r)
                 \/ GetLed(s, r) \/ GetPage(s, r) \/ GetUnknown(s, r)
                 \/ OtherMethod(s, r)

Handler(s) == \/ HandlerStart(s) \/ RecvEnds(s) \/ SendFails(s)
              \/ CloseConn(s) \/ Exit(s)
              \/ \E r \in Requests : Handles(s, r)
              \/ \E k \in 1..PAGE_CHUNKS : Send(s, k)

Next == Clients \/ Listener \/ (\E s \in Slots : Handler(s)) \/ Tick

Spec == Init /\ [][Next]_vars

(* Threads of equal priority take turns, so every thread that can run does.  A
   client that was served and never sends a request keeps its handler in recv()
   for ever: the code has no timeout, so progress is claimed only if every
   client in the end completes its request or leaves. *)
ClientDecides(c) == /\ sent[c] = NoReq
                    /\ ClientGone(c) \/ \E r \in Requests : ClientSend(c, r)

Fairness == /\ WF_vars(Listener)
            /\ \A s \in Slots : WF_vars(Handler(s))
            /\ \A c \in Conns : WF_vars(ClientDecides(c))

FairSpec == Spec /\ Fairness
--------------------------------------------------------------------------------
(* Properties. *)

(* k_thread_create (line 439) is never applied to the thread and the stack of a
   handler that has not ended: a slot is given to a connection only when its
   handler is dead. *)
NoLiveThreadReuse ==
  [][\A s \in Slots : thread'[s] = "ready" => thread[s] \in {"dead", "ready"}]_vars

(* The descriptor a handler is to use: its own copy, once it has made one. *)
Uses(s) == IF thread[s] = "ready" THEN tcp4_accepted[s] ELSE request_socket[s]
Holding(s) == thread[s] \in {"ready", "recv", "send", "close"}

(* recv, send and close are called on a descriptor that refers to an open
   connection which no other handler and no pending refusal uses, although
   accept() may return a number again as soon as close() gave it back and before
   the old handler has cleared its slot (lines 391-394). *)
SocketOwnership ==
  /\ \A s \in Slots : Holding(s) => /\ fdtab[Uses(s)] \in Conns
                                    /\ conn[fdtab[Uses(s)]] = "open"
  /\ \A s, t \in Slots : Holding(s) /\ Holding(t) /\ Uses(s) = Uses(t) => s = t
  /\ listener = "reject" => /\ fdtab[client] \in Conns
                            /\ \A s \in Slots : Holding(s) => Uses(s) # client

(* Once the server was started, a slot is taken (get_free_slot, line 402)
   exactly while its handler thread has not ended, and tcp4_handler_tid agrees. *)
SlotsMatchThreads ==
  listener # "unstarted" =>
    \A s \in Slots : /\ tcp4_accepted[s] = NoFd <=> thread[s] = "dead"
                     /\ tcp4_handler_tid[s] = -1 <=> thread[s] = "dead"

(* No connection is forgotten: one that accept() returned and that is not closed
   is held by a handler that will close it, or by the listener refusing it. *)
NoConnectionLeak ==
  \A c \in Conns : conn[c] = "open" =>
    \/ listener = "reject" /\ fdtab[client] = c
    \/ \E s \in Slots : Holding(s) /\ fdtab[Uses(s)] = c

(* The table of descriptors and the TCP states agree: a descriptor that names a
   connection names an open one, no two name the same, and what is neither free
   nor a connection is the one listening socket. *)
TableAgrees ==
  /\ \A fd \in Fds : fdtab[fd] \in Conns => conn[fdtab[fd]] = "open"
  /\ \A fd1, fd2 \in Fds : fdtab[fd1] \in Conns /\ fdtab[fd1] = fdtab[fd2] => fd1 = fd2
  /\ \A fd \in Fds : fdtab[fd] \in {Listening, Unbound} =>
       fd = tcp4_listen_sock /\ listener \notin {"unstarted", "setup"}
  /\ listener \in {"accept", "reject"} =>
       tcp4_listen_sock \in Fds /\ fdtab[tcp4_listen_sock] = Listening
  /\ \A s \in Slots : Holding(s) => Uses(s) \in Fds
  /\ listener = "reject" => client \in Fds
  /\ listener = "unstarted" =>
       \A s \in Slots : thread[s] = "dead" /\ tcp4_handler_tid[s] = -1

(* The inductive invariant of the proofs. *)
IInv == TypeOK /\ SlotsMatchThreads /\ SocketOwnership /\ NoConnectionLeak /\ TableAgrees

(* The server holds a descriptor to listen, one for each handler at work and one
   for a connection that it is refusing, and never more: MAX_CLIENT_QUEUE + 2
   of them in all (process_tcp, lines 412-450). *)
Serving == {s \in Slots : Holding(s)}
FdBudget ==
  Cardinality({fd \in Fds : fdtab[fd] # Free})
    <= 1 + Cardinality(Serving) + (IF listener = "reject" THEN 1 ELSE 0)

(* The answers a request may get. *)
Answers(r) ==
  IF r.method = "PUT" /\ NamesLed(r) /\ LegalUpdate(r) THEN {"200"}
  ELSE IF r.method = "GET" /\ NamesLed(r) THEN {"led"}
  ELSE IF r.method = "GET" /\ r.path = "root" THEN {"page"}
  ELSE IF r.method = "GET" THEN {"404"} ELSE {"403"}

(* Whatever two handlers do at once, a client receives an answer to the request
   it sent and to no other, and one answer only (handle_http_request, lines
   147-240). *)
AnswersMatch ==
  \A c \in Conns : \A i \in DOMAIN got[c] :
    /\ sent[c] # NoReq /\ got[c][i].kind \in Answers(sent[c])
    /\ got[c][i].kind # "page" => Len(got[c]) = 1

(* The pieces of a page that one client receives come from one rendering of it,
   as "Set up threads for handling multiple incoming TCP connections
   simultaneously" (line 104) requires.  The code does not ensure it. *)
PageIntact == \A c \in Conns : \A i, j \in DOMAIN got[c] : got[c][i].val = got[c][j].val

(* A connection in the backlog is accepted, to be served or refused. *)
BacklogDrains == \A c \in Conns : conn[c] = "backlog" ~> conn[c] # "backlog"

(* An accepted connection is closed by the server. *)
ServedIsClosed == \A c \in Conns : conn[c] = "open" ~> conn[c] = "closed"

(* A slot that is taken becomes free again. *)
SlotsComeBack ==
  \A s \in Slots : listener # "unstarted" /\ tcp4_accepted[s] # NoFd ~> tcp4_accepted[s] = NoFd

--------------------------------------------------------------------------------
(* The server implements the abstract connection service. *)

AbsPhase == CASE listener \in {"unstarted", "setup"} -> "closed"
              [] listener \in {"accept", "reject"} -> "open"
              [] listener = "dead" -> "stopped"

AbsConn(c) ==
  CASE conn[c] = "backlog" -> "waiting"
    [] conn[c] = "open" -> IF listener = "reject" /\ fdtab[client] = c
                           THEN "refused" ELSE "served"
    [] OTHER -> conn[c]

Service == INSTANCE ConnService WITH
  Workers <- Slots,
  phase <- AbsPhase,
  conn <- [c \in Conns |-> AbsConn(c)],
  busy <- {s \in Slots : thread[s] # "dead"},
  serves <- [s \in Slots |-> IF Holding(s) THEN fdtab[Uses(s)] ELSE NoConn],
  answered <- {c \in Conns : got[c] # <<>>}

(* Every step of the server is a step of the service it promises, or none. *)
ImplementsService == Service!Spec
================================================================================
