--------------------------- MODULE HttpServerProofs ----------------------------
(* Theorems about HttpServer, for every value of its constants. *)
EXTENDS HttpServer, FiniteSetTheorems, SequenceTheorems, TLAPS

(* The statically allocated data is well typed when the system boots. *)
LEMMA InitTypeOK == Init => TypeOK
  BY ServerConstants DEF Init, TypeOK, Slots, NoFd, ThreadStates, Responses

(* The fields of a request have the types that RequestShape gives them. *)
LEMMA RequestFields ==
  ASSUME NEW r \in Requests
  PROVE  r.id \in Nat /\ r.value \in 0..255 /\ r.empty \in BOOLEAN
BY RequestShape

(* A request that names an LED names one that led_states has. *)
LEMMA NamedLedExists ==
  ASSUME NEW r \in Requests, NamesLed(r)
  PROVE  r.id \in 1..NUM_LEDS
BY RequestFields, ServerConstants DEF NamesLed

(* handle_led_update lets no value but 0 and 1 through. *)
LEMMA LegalValue ==
  ASSUME NEW r \in Requests, LegalUpdate(r)
  PROVE  r.value \in {0, 1}
<1>1. r.value \in 0..255
  BY RequestFields
<1>2. r.value <= 1
  BY DEF LegalUpdate
<1> QED
  BY <1>1, <1>2

(* What every action that answers a request leaves well typed. *)
LEMMA AnswerTypes ==
  ASSUME TypeOK, NEW s \in Slots, NEW r \in Requests, Receives(s, r),
         NEW kind \in {"200", "403", "404", "led", "page"}, NEW val \in Nat,
         NEW chunks \in 0..PAGE_CHUNKS, Respond(s, kind, val, chunks),
         page_buf' \in 0..MAX_UPTIME,
         led_states' \in [1..NUM_LEDS -> {0, 1}], led' \in [1..NUM_LEDS -> {0, 1}]
  PROVE  TypeOK'
<1>1. [kind |-> kind, val |-> val] \in Responses
  BY DEF Responses
<1>2. resp_ptr' \in [Slots -> Responses] /\ len' \in [Slots -> 0..PAGE_CHUNKS]
  BY <1>1 DEF Respond, TypeOK
<1>3. thread' \in [Slots -> ThreadStates]
  BY DEF Receives, HandlerStep, TypeOK, ThreadStates
<1> QED
  BY <1>2, <1>3 DEF TypeOK, Receives, netVars, listenVars

(* No step of the server, a client or the clock spoils a type. *)
LEMMA TypeOKInductive == TypeOK /\ [Next]_vars => TypeOK'
<1> SUFFICES ASSUME TypeOK, [Next]_vars PROVE TypeOK'
  OBVIOUS
<1> USE ServerConstants, RequestShape
<1> USE DEF TypeOK, Slots, NoFd, ThreadStates, netVars, listenVars, slotVars, dataVars
<1>1. ASSUME NEW c \in Conns, Connect(c) PROVE TypeOK'
  BY <1>1 DEF Connect
<1>2. ASSUME NEW c \in Conns, ClientGone(c) PROVE TypeOK'
  BY <1>2 DEF ClientGone
<1>3. ASSUME NEW c \in Conns, NEW r \in Requests, ClientSend(c, r) PROVE TypeOK'
  BY <1>3 DEF ClientSend
<1>4. CASE Start
  BY <1>4 DEF Start
<1>5. CASE SetupFails
  BY <1>5 DEF SetupFails
<1>6. CASE AcceptFails
  BY <1>6 DEF AcceptFails
<1>7. CASE CloseRefused
  BY <1>7 DEF CloseRefused, Shut
<1>8. ASSUME NEW fd \in Fds, SetupServer(fd) PROVE TypeOK'
  BY <1>8 DEF SetupServer
<1>9. ASSUME NEW c \in Conns, NEW fd \in Fds, NEW s \in Slots, AcceptServe(c, fd, s)
      PROVE TypeOK'
  BY <1>9 DEF AcceptServe, Accepted
<1>10. ASSUME NEW c \in Conns, NEW fd \in Fds, AcceptRefuse(c, fd) PROVE TypeOK'
  BY <1>10 DEF AcceptRefuse, Accepted
<1>11. ASSUME NEW s \in Slots, HandlerStart(s) PROVE TypeOK'
  BY <1>11 DEF HandlerStart, HandlerStep
<1>12. ASSUME NEW s \in Slots, RecvEnds(s) PROVE TypeOK'
  BY <1>12 DEF RecvEnds, HandlerStep
<1>13. ASSUME NEW s \in Slots, SendFails(s) PROVE TypeOK'
  BY <1>13 DEF SendFails, HandlerStep
<1>14. ASSUME NEW s \in Slots, CloseConn(s) PROVE TypeOK'
  BY <1>14 DEF CloseConn, HandlerStep, Shut
<1>15. ASSUME NEW s \in Slots, Exit(s) PROVE TypeOK'
  BY <1>15 DEF Exit, HandlerStep, Respond, Responses
<1>16. ASSUME NEW s \in Slots, NEW r \in Requests, Handles(s, r) PROVE TypeOK'
  <2>0. /\ 0 \in Nat /\ 1 \in 0..PAGE_CHUNKS /\ PAGE_CHUNKS \in 0..PAGE_CHUNKS
        /\ page_buf \in 0..MAX_UPTIME /\ uptime \in 0..MAX_UPTIME
        /\ led_states \in [1..NUM_LEDS -> {0, 1}] /\ led \in [1..NUM_LEDS -> {0, 1}]
    OBVIOUS
  <2>1. CASE PutLed(s, r)
    <3>1. r.id \in 1..NUM_LEDS
      BY ONLY <2>1, NamedLedExists, <1>16 DEF PutLed
    <3>2. r.value \in {0, 1}
      BY ONLY <2>1, LegalValue, <1>16 DEF PutLed
    <3>3. /\ led_states' \in [1..NUM_LEDS -> {0, 1}]
          /\ led' \in [1..NUM_LEDS -> {0, 1}]
      BY <2>1, <3>1, <3>2 DEF PutLed
    <3> QED BY <2>0, <2>1, <3>3, AnswerTypes DEF PutLed
  <2>2. CASE GetLed(s, r)
    <3>1. led_states[r.id] \in Nat
      <4>1. NamesLed(r)
        BY <2>2 DEF GetLed
      <4>2. r.id \in 1..NUM_LEDS
        BY ONLY <4>1, <1>16, NamedLedExists
      <4> QED BY <4>2
    <3> QED BY <2>0, <2>2, <3>1, AnswerTypes DEF GetLed
  <2>3. CASE GetPage(s, r)
    BY <2>0, <2>3, AnswerTypes DEF GetPage
  <2>4. CASE PutForbidden(s, r)
    BY <2>0, <2>4, AnswerTypes DEF PutForbidden
  <2>5. CASE GetUnknown(s, r)
    BY <2>0, <2>5, AnswerTypes DEF GetUnknown
  <2>6. CASE OtherMethod(s, r)
    BY <2>0, <2>6, AnswerTypes DEF OtherMethod
  <2> QED BY <1>16, <2>1, <2>2, <2>3, <2>4, <2>5, <2>6 DEF Handles
<1>17. ASSUME NEW s \in Slots, NEW k \in 1..PAGE_CHUNKS, Send(s, k) PROVE TypeOK'
  <2>1. Piece(s) \in Responses
    BY DEF Piece, Responses
  <2>2. got' \in [Conns -> Seq(Responses)]
    BY <1>17, <2>1 DEF Send
  <2>3. len' \in [Slots -> 0..PAGE_CHUNKS]
    BY <1>17 DEF Send
  <2> QED BY <1>17, <2>2, <2>3 DEF Send, HandlerStep
<1>18. CASE Tick
  BY <1>18 DEF Tick
<1>19. CASE UNCHANGED vars
  BY <1>19 DEF vars
<1> QED
  BY <1>1, <1>2, <1>3, <1>4, <1>5, <1>6, <1>7, <1>8, <1>9, <1>10, <1>11, <1>12, <1>13,
     <1>14, <1>15, <1>16, <1>17, <1>18, <1>19
  DEF Next, Clients, Listener, Handler

(* Every variable keeps its type; led_states holds nothing but 0 and 1. *)
THEOREM TypeCorrect == Spec => []TypeOK
<1>1. Init => TypeOK
  BY InitTypeOK
<1>2. TypeOK /\ [Next]_vars => TypeOK'
  BY TypeOKInductive
<1> QED BY <1>1, <1>2, PTL DEF Spec

--------------------------------------------------------------------------------
(* The inductive invariant IInv.  Its step lemmas come first: the actions that
   do not touch what IInv speaks of, the ones that only move a handler on, and
   then the ones that open or close a descriptor. *)

(* The inductive invariant holds when the system boots. *)
LEMMA InitIInv == Init => IInv
<1> SUFFICES ASSUME Init PROVE IInv
  OBVIOUS
<1>1. TypeOK
  BY InitTypeOK
<1>2. \A s \in Slots : thread[s] = "dead" /\ tcp4_handler_tid[s] = -1
  BY DEF Init
<1>3. \A fd \in Fds : fdtab[fd] = Free
  BY DEF Init
<1>4. \A c \in Conns : conn[c] = "new"
  BY DEF Init
<1>5. listener = "unstarted"
  BY DEF Init
<1> QED
  BY <1>1, <1>2, <1>3, <1>4, <1>5, ServerConstants
  DEF IInv, SlotsMatchThreads, SocketOwnership, NoConnectionLeak, TableAgrees, Holding

(* A step that changes no descriptor, no connection, no slot and not the listener
   keeps IInv. *)
LEMMA QuietStep ==
  ASSUME IInv, TypeOK',
         UNCHANGED <<fdtab, conn, listenVars, slotVars>>
  PROVE  IInv'
BY DEF IInv, SlotsMatchThreads, SocketOwnership, NoConnectionLeak, TableAgrees,
       Holding, Uses, listenVars, slotVars

(* A handler that only moves on within recv(), send() and close() keeps IInv. *)
LEMMA HandlerMoves ==
  ASSUME IInv, TypeOK', NEW s \in Slots, NEW to \in {"send", "close"},
         thread[s] \in {"recv", "send"},
         thread' = [thread EXCEPT ![s] = to],
         UNCHANGED <<fdtab, conn, listenVars, tcp4_accepted, tcp4_handler_tid, request_socket>>
  PROVE  IInv'
<1>0. thread \in [Slots -> ThreadStates]
  BY DEF IInv, TypeOK
<1>1. \A t \in Slots : /\ Holding(t)' <=> Holding(t)
                       /\ Uses(t)' = Uses(t)
                       /\ thread'[t] = "dead" <=> thread[t] = "dead"
  BY <1>0 DEF Holding, Uses
<1>2. SlotsMatchThreads'
  BY <1>1 DEF IInv, SlotsMatchThreads, listenVars
<1>3. SocketOwnership'
  BY <1>1 DEF IInv, SocketOwnership, listenVars
<1>4. NoConnectionLeak'
  BY <1>1 DEF IInv, NoConnectionLeak, listenVars
<1>5. listener' # "unstarted"
  BY <1>0 DEF IInv, TableAgrees, listenVars
<1>6. TableAgrees'
  BY <1>1, <1>5 DEF IInv, TableAgrees, listenVars
<1> QED
  BY <1>2, <1>3, <1>4, <1>6 DEF IInv

(* The handler's copy of its descriptor (line 354) names the same connection. *)
LEMMA HandlerStartKeepsIInv ==
  ASSUME IInv, TypeOK', NEW s \in Slots, HandlerStart(s)
  PROVE  IInv'
<1>0. /\ thread \in [Slots -> ThreadStates]
      /\ request_socket \in [Slots -> Fds \cup {NoFd}]
  BY DEF IInv, TypeOK
<1>1. \A t \in Slots : /\ Holding(t)' <=> Holding(t)
                       /\ Uses(t)' = Uses(t)
                       /\ thread'[t] = "dead" <=> thread[t] = "dead"
  BY <1>0 DEF HandlerStart, HandlerStep, Holding, Uses
<1>2. SlotsMatchThreads'
  BY <1>1 DEF IInv, SlotsMatchThreads, HandlerStart, listenVars
<1>3. SocketOwnership'
  BY <1>1 DEF IInv, SocketOwnership, HandlerStart, listenVars, netVars
<1>4. NoConnectionLeak'
  BY <1>1 DEF IInv, NoConnectionLeak, HandlerStart, listenVars, netVars
<1>5. listener' # "unstarted"
  BY <1>0 DEF IInv, TableAgrees, HandlerStart, HandlerStep, listenVars
<1>6. TableAgrees'
  BY <1>1, <1>5 DEF IInv, TableAgrees, HandlerStart, listenVars, netVars
<1> QED
  BY <1>2, <1>3, <1>4, <1>6 DEF IInv

(* The end of a handler frees its slot and nothing else (lines 393-395). *)
LEMMA ExitKeepsIInv ==
  ASSUME IInv, TypeOK', NEW s \in Slots, Exit(s)
  PROVE  IInv'
<1>0. /\ thread \in [Slots -> ThreadStates]
      /\ request_socket \in [Slots -> Fds \cup {NoFd}]
      /\ tcp4_accepted \in [Slots -> Fds \cup {NoFd}]
      /\ tcp4_handler_tid \in [Slots -> Slots \cup {-1}]
  BY DEF IInv, TypeOK
<1>1. /\ \A t \in Slots : Holding(t)' <=> Holding(t)
      /\ \A t \in Slots : Holding(t) => Uses(t)' = Uses(t)
  BY <1>0 DEF Exit, HandlerStep, Holding, Uses
<1>2. SlotsMatchThreads'
  BY <1>0 DEF IInv, SlotsMatchThreads, Exit, HandlerStep, listenVars
<1>3. SocketOwnership'
  BY <1>1 DEF IInv, SocketOwnership, Exit, listenVars, netVars
<1>4. NoConnectionLeak'
  BY <1>1 DEF IInv, NoConnectionLeak, Exit, listenVars, netVars
<1>5. listener' # "unstarted"
  BY <1>0 DEF IInv, TableAgrees, Exit, HandlerStep, listenVars
<1>6. TableAgrees'
  BY <1>1, <1>5 DEF IInv, TableAgrees, Exit, listenVars, netVars
<1> QED
  BY <1>2, <1>3, <1>4, <1>6 DEF IInv

(* What close() on the descriptor of a connection leaves of the table. *)
LEMMA ShutKeepsTable ==
  ASSUME IInv, NEW d \in Fds, fdtab[d] \in Conns, Shut(d),
         listener' # "unstarted",
         listener' = listener \/ (listener = "reject" /\ listener' = "accept"),
         tcp4_listen_sock' = tcp4_listen_sock,
         (\A t \in Slots : Holding(t) => Uses(t) \in Fds)',
         (listener = "reject" => client \in Fds)'
  PROVE  TableAgrees'
<1>0. /\ fdtab \in [Fds -> Conns \cup {Free, Listening, Unbound}]
      /\ conn \in [Conns -> {"new", "backlog", "open", "closed"}]
  BY DEF IInv, TypeOK
<1>1. /\ \A f \in Fds : fdtab'[f] = IF f = d THEN Free ELSE fdtab[f]
      /\ \A c \in Conns : conn'[c] = IF c = fdtab[d] THEN "closed" ELSE conn[c]
  BY <1>0 DEF Shut
<1>2. Free \notin Conns /\ Listening \notin Conns /\ Free \notin {Listening, Unbound}
  BY ServerConstants
<1>3. /\ \A f \in Fds : fdtab[f] \in Conns => conn[fdtab[f]] = "open"
      /\ \A f1, f2 \in Fds : fdtab[f1] \in Conns /\ fdtab[f1] = fdtab[f2] => f1 = f2
      /\ \A f \in Fds : fdtab[f] \in {Listening, Unbound} =>
           f = tcp4_listen_sock /\ listener \notin {"unstarted", "setup"}
      /\ listener \in {"accept", "reject"} =>
           tcp4_listen_sock \in Fds /\ fdtab[tcp4_listen_sock] = Listening
  BY DEF IInv, TableAgrees
<1>4. ASSUME NEW f \in Fds, fdtab'[f] \in Conns
      PROVE  fdtab'[f] = fdtab[f] /\ conn'[fdtab'[f]] = "open"
  BY <1>1, <1>2, <1>3, <1>4
<1>5. (\A f1, f2 \in Fds : fdtab[f1] \in Conns /\ fdtab[f1] = fdtab[f2] => f1 = f2)'
  BY <1>3, <1>4
<1>6. ASSUME NEW f \in Fds, fdtab'[f] \in {Listening, Unbound}
      PROVE  f = tcp4_listen_sock' /\ listener' \notin {"unstarted", "setup"}
  <2>1. fdtab'[f] = fdtab[f]
    BY <1>1, <1>2, <1>6
  <2> QED BY <1>3, <1>6, <2>1
<1>7. (listener \in {"accept", "reject"} =>
         tcp4_listen_sock \in Fds /\ fdtab[tcp4_listen_sock] = Listening)'
  BY <1>1, <1>2, <1>3
<1> QED
  BY <1>4, <1>5, <1>6, <1>7 DEF TableAgrees

(* A handler's close() ends its own connection and nobody else's (line 391). *)
LEMMA CloseConnKeepsIInv ==
  ASSUME IInv, TypeOK', NEW s \in Slots, CloseConn(s)
  PROVE  IInv'
<1> DEFINE d == request_socket[s]
<1>0. /\ thread \in [Slots -> ThreadStates]
      /\ fdtab \in [Fds -> Conns \cup {Free, Listening, Unbound}]
      /\ conn \in [Conns -> {"new", "backlog", "open", "closed"}]
  BY DEF IInv, TypeOK
<1>1. /\ thread[s] = "close" /\ Holding(s) /\ Uses(s) = d
      /\ d \in Fds /\ fdtab[d] \in Conns
  BY DEF CloseConn, HandlerStep, Holding, Uses, IInv, SocketOwnership, TableAgrees
<1>2. /\ \A t \in Slots : Holding(t)' <=> Holding(t) /\ t # s
      /\ \A t \in Slots : Uses(t)' = Uses(t)
      /\ \A t \in Slots : thread'[t] = "dead" <=> thread[t] = "dead"
  BY <1>0, <1>1 DEF CloseConn, HandlerStep, Holding, Uses
<1>3. /\ \A fd \in Fds : fdtab'[fd] = IF fd = d THEN Free ELSE fdtab[fd]
      /\ \A c \in Conns : conn'[c] = IF c = fdtab[d] THEN "closed" ELSE conn[c]
  BY <1>0 DEF CloseConn, Shut
<1>4. \A fd \in Fds : fd # d /\ fdtab[fd] \in Conns => fdtab[fd] # fdtab[d]
  BY <1>1 DEF IInv, TableAgrees
<1>5. \A t \in Slots : t # s /\ Holding(t) => Uses(t) # d /\ Uses(t) \in Fds
  BY <1>1 DEF IInv, TableAgrees, SocketOwnership
<1>6. listener = "reject" => client # d /\ client \in Fds
  BY <1>1 DEF IInv, TableAgrees, SocketOwnership
<1>7. SlotsMatchThreads'
  BY <1>2 DEF IInv, SlotsMatchThreads, CloseConn, listenVars
<1>8. SocketOwnership'
  BY <1>2, <1>3, <1>4, <1>5, <1>6 DEF IInv, SocketOwnership, CloseConn, listenVars
<1>9. NoConnectionLeak'
  BY <1>1, <1>2, <1>3, <1>4, <1>5, <1>6 DEF IInv, NoConnectionLeak, CloseConn, listenVars
<1>10. listener' # "unstarted"
  BY <1>1 DEF IInv, TableAgrees, CloseConn, listenVars
<1>11. TableAgrees'
  <2>1. /\ tcp4_listen_sock' = tcp4_listen_sock /\ listener' = listener /\ client' = client
        /\ Shut(d)
    BY DEF CloseConn, listenVars
  <2>2. (\A t \in Slots : Holding(t) => Uses(t) \in Fds)'
    BY <1>2, <1>5
  <2>3. (listener = "reject" => client \in Fds)'
    BY <1>6, <2>1
  <2> QED
    BY <1>1, <1>10, <2>1, <2>2, <2>3, ShutKeepsTable
<1> QED
  BY <1>7, <1>8, <1>9, <1>11 DEF IInv

(* A new connection in the backlog disturbs nothing. *)
LEMMA ConnectKeepsIInv ==
  ASSUME IInv, TypeOK', NEW c \in Conns, Connect(c)
  PROVE  IInv'
<1>1. /\ \A t \in Slots : Holding(t)' <=> Holding(t)
      /\ \A t \in Slots : Uses(t)' = Uses(t)
  BY DEF Connect, Holding, Uses, slotVars
<1>2. \A b \in Conns : (conn[b] = "open" => b # c) /\ (conn'[b] = "open" <=> conn[b] = "open")
  BY DEF Connect, IInv, TypeOK
<1>3. SlotsMatchThreads'
  BY DEF IInv, SlotsMatchThreads, Connect, slotVars, listenVars
<1>4. SocketOwnership'
  BY <1>1, <1>2 DEF IInv, SocketOwnership, Connect, listenVars
<1>5. NoConnectionLeak'
  BY <1>1, <1>2 DEF IInv, NoConnectionLeak, Connect, listenVars
<1>6. TableAgrees'
  BY <1>1, <1>2 DEF IInv, TableAgrees, Connect, listenVars, slotVars
<1> QED
  BY <1>3, <1>4, <1>5, <1>6 DEF IInv

(* start_listener (lines 475-484) frees all slots while no handler lives. *)
LEMMA StartKeepsIInv ==
  ASSUME IInv, TypeOK', Start
  PROVE  IInv'
<1>1. /\ \A t \in Slots : thread[t] = "dead" /\ tcp4_handler_tid[t] = -1 /\ thread'[t] = "dead"
      /\ \A t \in Slots : ~ Holding(t)'
      /\ \A t \in Slots : ~ Holding(t)
  BY DEF Start, IInv, TableAgrees, Holding
<1>2. SlotsMatchThreads'
  BY <1>1 DEF SlotsMatchThreads, Start
<1>3. SocketOwnership'
  BY <1>1 DEF SocketOwnership, Start
<1>4. \A c \in Conns : conn[c] # "open"
  BY <1>1 DEF IInv, NoConnectionLeak, Start
<1>5. NoConnectionLeak'
  BY <1>4 DEF NoConnectionLeak, Start, netVars
<1>6. TableAgrees'
  BY <1>1 DEF IInv, TableAgrees, Start, netVars
<1> QED
  BY <1>2, <1>3, <1>5, <1>6 DEF IInv

(* What a step that fills the free descriptor fd preserves. *)
LEMMA SetupKeepsIInv ==
  ASSUME IInv, TypeOK', SetupFails \/ \E fd \in Fds : SetupServer(fd)
  PROVE  IInv'
<1>1. listener = "setup" /\ listener' \in {"accept", "dead"} /\ UNCHANGED <<conn, client, slotVars>>
  BY DEF SetupFails, SetupServer
<1>2. \A fd \in Fds : fdtab[fd] \notin {Listening, Unbound}
  BY <1>1 DEF IInv, TableAgrees
<1>3. /\ \A t \in Slots : Holding(t)' <=> Holding(t)
      /\ \A t \in Slots : Uses(t)' = Uses(t)
      /\ \A t \in Slots : Holding(t) => Uses(t) \in Fds /\ fdtab[Uses(t)] \in Conns
  BY <1>1 DEF Holding, Uses, slotVars, IInv, SocketOwnership, TableAgrees
<1>4. CASE UNCHANGED fdtab /\ listener' = "dead"
  <2>1. SlotsMatchThreads' /\ SocketOwnership' /\ NoConnectionLeak'
    BY <1>1, <1>3, <1>4
    DEF IInv, SlotsMatchThreads, SocketOwnership, NoConnectionLeak, slotVars
  <2>2. TableAgrees'
    BY <1>1, <1>2, <1>3, <1>4 DEF IInv, TableAgrees, slotVars
  <2> QED BY <2>1, <2>2 DEF IInv
<1>5. ASSUME NEW fd \in Fds, NEW what \in {Listening, Unbound},
             fdtab[fd] = Free, fdtab' = [fdtab EXCEPT ![fd] = what],
             tcp4_listen_sock' = fd,
             listener' = "accept" => what = Listening
      PROVE  IInv'
  <2>1. \A f \in Fds : fdtab'[f] = IF f = fd THEN what ELSE fdtab[f]
    BY <1>5 DEF IInv, TypeOK
  <2>2. \A t \in Slots : Holding(t) => Uses(t) # fd
    BY <1>3, <1>5, ServerConstants
  <2>3. SlotsMatchThreads'
    BY <1>1 DEF IInv, SlotsMatchThreads, slotVars
  <2>4. SocketOwnership'
    BY <1>1, <1>3, <2>1, <2>2 DEF IInv, SocketOwnership
  <2>5. NoConnectionLeak'
    BY <1>1, <1>3, <2>1, <2>2 DEF IInv, NoConnectionLeak
  <2>6. TableAgrees'
    BY <1>1, <1>2, <1>3, <1>5, <2>1, ServerConstants DEF IInv, TableAgrees
  <2> QED BY <2>3, <2>4, <2>5, <2>6 DEF IInv
<1>6. CASE SetupFails
  BY <1>4, <1>5, <1>6 DEF SetupFails, NextFd
<1>7. ASSUME NEW fd \in Fds, SetupServer(fd) PROVE IInv'
  BY <1>5, <1>7 DEF SetupServer, NextFd
<1> QED
  BY <1>6, <1>7

(* A listener that ends leaves the handlers as they are. *)
LEMMA AcceptFailsKeepsIInv ==
  ASSUME IInv, TypeOK', AcceptFails
  PROVE  IInv'
<1>1. /\ \A t \in Slots : Holding(t)' <=> Holding(t)
      /\ \A t \in Slots : Uses(t)' = Uses(t)
  BY DEF AcceptFails, Holding, Uses, slotVars
<1>2. SlotsMatchThreads' /\ SocketOwnership' /\ NoConnectionLeak' /\ TableAgrees'
  BY <1>1 DEF IInv, SlotsMatchThreads, SocketOwnership, NoConnectionLeak, TableAgrees,
              AcceptFails, slotVars, netVars
<1> QED
  BY <1>2 DEF IInv

(* The close() of a refused connection (line 431) touches no handler's. *)
LEMMA CloseRefusedKeepsIInv ==
  ASSUME IInv, TypeOK', CloseRefused
  PROVE  IInv'
<1>0. /\ fdtab \in [Fds -> Conns \cup {Free, Listening, Unbound}]
      /\ conn \in [Conns -> {"new", "backlog", "open", "closed"}]
  BY DEF IInv, TypeOK
<1>1. listener = "reject" /\ client \in Fds /\ fdtab[client] \in Conns
  BY DEF CloseRefused, IInv, SocketOwnership, TableAgrees
<1>2. /\ \A t \in Slots : Holding(t)' <=> Holding(t)
      /\ \A t \in Slots : Uses(t)' = Uses(t)
  BY DEF CloseRefused, Holding, Uses, slotVars
<1>3. /\ \A fd \in Fds : fdtab'[fd] = IF fd = client THEN Free ELSE fdtab[fd]
      /\ \A c \in Conns : conn'[c] = IF c = fdtab[client] THEN "closed" ELSE conn[c]
  BY <1>0 DEF CloseRefused, Shut
<1>4. \A fd \in Fds : fd # client /\ fdtab[fd] \in Conns => fdtab[fd] # fdtab[client]
  BY <1>1 DEF IInv, TableAgrees
<1>5. \A t \in Slots : Holding(t) => Uses(t) # client /\ Uses(t) \in Fds
  BY <1>1 DEF IInv, SocketOwnership, TableAgrees
<1>6. SlotsMatchThreads'
  BY <1>1 DEF IInv, SlotsMatchThreads, CloseRefused, slotVars
<1>7. SocketOwnership'
  BY <1>1, <1>2, <1>3, <1>4, <1>5 DEF IInv, SocketOwnership, CloseRefused
<1>8. NoConnectionLeak'
  BY <1>1, <1>2, <1>3, <1>4, <1>5 DEF IInv, NoConnectionLeak
<1>9. TableAgrees'
  <2>1. /\ tcp4_listen_sock' = tcp4_listen_sock /\ listener' = "accept"
        /\ Shut(client)
    BY DEF CloseRefused
  <2>2. (\A t \in Slots : Holding(t) => Uses(t) \in Fds)'
    BY <1>2, <1>5
  <2> QED
    BY <1>1, <2>1, <2>2, ShutKeepsTable
<1> QED
  BY <1>6, <1>7, <1>8, <1>9 DEF IInv

(* What accept() leaves true: the new connection has the new descriptor. *)
LEMMA AcceptFacts ==
  ASSUME IInv, NEW c \in Conns, NEW fd \in Fds, Accepted(c, fd)
  PROVE  /\ listener = "accept" /\ fdtab[fd] = Free /\ conn[c] = "backlog"
         /\ \A f \in Fds : fdtab'[f] = IF f = fd THEN c ELSE fdtab[f]
         /\ \A b \in Conns : conn'[b] = IF b = c THEN "open" ELSE conn[b]
         /\ \A f \in Fds : fdtab[f] # c
         /\ \A t \in Slots : Holding(t) => Uses(t) \in Fds /\ Uses(t) # fd
         /\ tcp4_listen_sock \in Fds /\ tcp4_listen_sock # fd
<1>1. /\ fdtab \in [Fds -> Conns \cup {Free, Listening, Unbound}]
      /\ conn \in [Conns -> {"new", "backlog", "open", "closed"}]
  BY DEF IInv, TypeOK
<1>2. listener = "accept" /\ fdtab[fd] = Free /\ conn[c] = "backlog"
  BY DEF Accepted, NextFd
<1>3. /\ \A f \in Fds : fdtab'[f] = IF f = fd THEN c ELSE fdtab[f]
      /\ \A b \in Conns : conn'[b] = IF b = c THEN "open" ELSE conn[b]
  BY <1>1 DEF Accepted
<1>4. \A f \in Fds : fdtab[f] # c
  BY <1>2 DEF IInv, TableAgrees
<1>5. \A t \in Slots : Holding(t) => Uses(t) \in Fds /\ Uses(t) # fd
  BY <1>2, ServerConstants DEF IInv, TableAgrees, SocketOwnership
<1>6. tcp4_listen_sock \in Fds /\ tcp4_listen_sock # fd
  BY <1>2, ServerConstants DEF IInv, TableAgrees
<1> QED
  BY <1>2, <1>3, <1>4, <1>5, <1>6

(* accept() leaves the table and the states of the connections in agreement. *)
LEMMA AcceptKeepsTable ==
  ASSUME IInv, NEW c \in Conns, NEW fd \in Fds, Accepted(c, fd),
         listener' \in {"accept", "reject"}, tcp4_listen_sock' = tcp4_listen_sock,
         (\A t \in Slots : Holding(t) => Uses(t) \in Fds)',
         (listener = "reject" => client \in Fds)'
  PROVE  TableAgrees'
<1>1. \A f \in Fds : /\ fdtab'[f] = IF f = fd THEN c ELSE fdtab[f]
                     /\ fdtab[f] # c
  BY AcceptFacts
<1>2. \A b \in Conns : conn'[b] = IF b = c THEN "open" ELSE conn[b]
  BY AcceptFacts
<1>3. (\A f \in Fds : fdtab[f] \in Conns => conn[fdtab[f]] = "open")'
  BY <1>1, <1>2 DEF IInv, TableAgrees
<1>4. (\A fd1, fd2 \in Fds : fdtab[fd1] \in Conns /\ fdtab[fd1] = fdtab[fd2] => fd1 = fd2)'
  BY <1>1 DEF IInv, TableAgrees
<1>5. listener = "accept"
  BY AcceptFacts
<1>6. (\A f \in Fds : fdtab[f] \in {Listening, Unbound} =>
         f = tcp4_listen_sock /\ listener \notin {"unstarted", "setup"})'
  BY <1>1, <1>5, ServerConstants DEF IInv, TableAgrees
<1>7. tcp4_listen_sock \in Fds /\ fdtab'[tcp4_listen_sock] = Listening
  BY <1>1, <1>5, AcceptFacts DEF IInv, TableAgrees
<1> QED
  BY <1>3, <1>4, <1>6, <1>7 DEF TableAgrees

(* A new connection gets a slot whose thread is dead (lines 437-446). *)
LEMMA AcceptServeKeepsIInv ==
  ASSUME IInv, TypeOK', NEW c \in Conns, NEW fd \in Fds, NEW s \in Slots,
         AcceptServe(c, fd, s)
  PROVE  IInv'
<1>0. /\ thread \in [Slots -> ThreadStates]
      /\ tcp4_accepted \in [Slots -> Fds \cup {NoFd}]
      /\ tcp4_handler_tid \in [Slots -> Slots \cup {-1}]
  BY DEF IInv, TypeOK
<1>1. Accepted(c, fd) /\ listener' = "accept" /\ tcp4_listen_sock' = tcp4_listen_sock
  BY DEF AcceptServe, listenVars, Accepted
<1>2. thread[s] = "dead"
  <2>1. tcp4_accepted[s] = NoFd
    <3>1. tcp4_accepted[s] \in Fds \cup {NoFd}
      BY <1>0
    <3>2. tcp4_accepted[s] < 0
      BY DEF AcceptServe, IsFreeSlot, FreeSlots
    <3>3. \A fd_ \in Fds : ~ (fd_ < 0)
      BY ServerConstants
    <3> QED BY <3>1, <3>2, <3>3
  <2> QED BY <1>1, <2>1 DEF Accepted, IInv, SlotsMatchThreads
<1>3. /\ \A t \in Slots : tcp4_accepted'[t] = IF t = s THEN fd ELSE tcp4_accepted[t]
      /\ \A t \in Slots : thread'[t] = IF t = s THEN "ready" ELSE thread[t]
      /\ \A t \in Slots : tcp4_handler_tid'[t] = IF t = s THEN s ELSE tcp4_handler_tid[t]
      /\ request_socket' = request_socket
  BY <1>0 DEF AcceptServe
<1>4. /\ \A t \in Slots : Holding(t)' <=> t = s \/ Holding(t)
      /\ \A t \in Slots : Holding(t)' => Uses(t)' = IF t = s THEN fd ELSE Uses(t)
  BY <1>2, <1>3 DEF Holding, Uses
<1>5. ~ Holding(s)
  BY <1>2 DEF Holding
<1>6. SlotsMatchThreads'
  BY <1>1, <1>3, ServerConstants DEF IInv, SlotsMatchThreads, NoFd, Slots, Accepted
<1>7. SocketOwnership'
  BY <1>1, <1>4, <1>5, AcceptFacts DEF IInv, SocketOwnership
<1>8. NoConnectionLeak'
  BY <1>1, <1>4, <1>5, AcceptFacts DEF IInv, NoConnectionLeak
<1>9. TableAgrees'
  BY <1>1, <1>4, AcceptFacts, AcceptKeepsTable
<1> QED
  BY <1>6, <1>7, <1>8, <1>9 DEF IInv

(* A connection to be refused belongs to the listener alone (lines 428-433). *)
LEMMA AcceptRefuseKeepsIInv ==
  ASSUME IInv, TypeOK', NEW c \in Conns, NEW fd \in Fds, AcceptRefuse(c, fd)
  PROVE  IInv'
<1>1. /\ Accepted(c, fd) /\ listener' = "reject" /\ tcp4_listen_sock' = tcp4_listen_sock
      /\ client' = fd
  BY DEF AcceptRefuse
<1>2. /\ \A t \in Slots : Holding(t)' <=> Holding(t)
      /\ \A t \in Slots : Uses(t)' = Uses(t)
  BY DEF AcceptRefuse, Holding, Uses, slotVars
<1>3. SlotsMatchThreads'
  BY DEF IInv, SlotsMatchThreads, AcceptRefuse, Accepted, slotVars
<1>4. SocketOwnership'
  BY <1>1, <1>2, AcceptFacts DEF IInv, SocketOwnership
<1>5. NoConnectionLeak'
  BY <1>1, <1>2, AcceptFacts DEF IInv, NoConnectionLeak
<1>6. TableAgrees'
  BY <1>1, <1>2, AcceptFacts, AcceptKeepsTable
<1> QED
  BY <1>3, <1>4, <1>5, <1>6 DEF IInv

(* Every step keeps the inductive invariant. *)
LEMMA IInvInductive == IInv /\ [Next]_vars => IInv'
<1> SUFFICES ASSUME IInv, [Next]_vars PROVE IInv'
  OBVIOUS
<1>0. TypeOK'
  BY TypeOKInductive DEF IInv
<1>1. CASE Clients
  <2>1. ASSUME NEW c \in Conns, Connect(c) PROVE IInv'
    BY <1>0, <2>1, ConnectKeepsIInv
  <2>2. ASSUME NEW c \in Conns, ClientGone(c) PROVE IInv'
    BY <1>0, <2>2, QuietStep DEF ClientGone
  <2>3. ASSUME NEW c \in Conns, NEW r \in Requests, ClientSend(c, r) PROVE IInv'
    BY <1>0, <2>3, QuietStep DEF ClientSend
  <2> QED
    BY <1>1, <2>1, <2>2, <2>3 DEF Clients
<1>2. CASE Listener
  <2>1. CASE Start
    BY <1>0, <2>1, StartKeepsIInv
  <2>2. CASE SetupFails \/ \E fd \in Fds : SetupServer(fd)
    BY <1>0, <2>2, SetupKeepsIInv
  <2>3. CASE AcceptFails
    BY <1>0, <2>3, AcceptFailsKeepsIInv
  <2>4. CASE CloseRefused
    BY <1>0, <2>4, CloseRefusedKeepsIInv
  <2>5. CASE \E c \in Conns, fd \in Fds, s \in Slots : AcceptServe(c, fd, s)
    BY <1>0, <2>5, AcceptServeKeepsIInv
  <2>6. CASE \E c \in Conns, fd \in Fds : AcceptRefuse(c, fd)
    BY <1>0, <2>6, AcceptRefuseKeepsIInv
  <2> QED
    BY <1>2, <2>1, <2>2, <2>3, <2>4, <2>5, <2>6 DEF Listener
<1>3. ASSUME NEW s \in Slots, Handler(s) PROVE IInv'
  <2>1. CASE HandlerStart(s)
    BY <1>0, <2>1, HandlerStartKeepsIInv
  <2>2. CASE RecvEnds(s)
    BY <1>0, <2>2, HandlerMoves DEF RecvEnds, HandlerStep, netVars
  <2>3. CASE SendFails(s)
    BY <1>0, <2>3, HandlerMoves DEF SendFails, HandlerStep, netVars
  <2>4. CASE CloseConn(s)
    BY <1>0, <2>4, CloseConnKeepsIInv
  <2>5. CASE Exit(s)
    BY <1>0, <2>5, ExitKeepsIInv
  <2>6. ASSUME NEW r \in Requests, Handles(s, r) PROVE IInv'
    <3>1. Receives(s, r)
      BY <2>6 DEF Handles, PutLed, PutForbidden, GetLed, GetPage, GetUnknown, OtherMethod
    <3> QED
      BY <1>0, <3>1, HandlerMoves DEF Receives, HandlerStep, netVars
  <2>7. ASSUME NEW k \in 1..PAGE_CHUNKS, Send(s, k) PROVE IInv'
    <3>1. CASE k = len[s]
      BY <1>0, <2>7, <3>1, HandlerMoves DEF Send, HandlerStep
    <3>2. CASE k # len[s]
      BY <1>0, <2>7, <3>2, HandlerMoves DEF Send, HandlerStep
    <3> QED BY <3>1, <3>2
  <2> QED
    BY <1>3, <2>1, <2>2, <2>3, <2>4, <2>5, <2>6, <2>7 DEF Handler
<1>4. CASE Tick
  BY <1>0, <1>4, QuietStep DEF Tick, netVars
<1>5. CASE UNCHANGED vars
  BY <1>0, <1>5, QuietStep DEF vars, netVars
<1> QED
  BY <1>1, <1>2, <1>3, <1>4, <1>5 DEF Next

(* IInv holds in every reachable state: the descriptor table, the TCP states,
   the slots and the threads agree. *)
THEOREM InductiveInvariant == Spec => []IInv
<1>1. Init => IInv
  BY InitIInv
<1>2. IInv /\ [Next]_vars => IInv'
  BY IInvInductive
<1> QED BY <1>1, <1>2, PTL DEF Spec

(* No handler ever uses a descriptor that is closed, or that another thread
   uses, however accept() and close() interleave (lines 350-394, 419-434). *)
THEOREM SocketsAreOwned == Spec => []SocketOwnership
<1>1. IInv => SocketOwnership
  BY DEF IInv
<1> QED BY <1>1, InductiveInvariant, PTL

(* get_free_slot sees a slot as free exactly when its thread has ended. *)
THEOREM SlotsAgree == Spec => []SlotsMatchThreads
<1>1. IInv => SlotsMatchThreads
  BY DEF IInv
<1> QED BY <1>1, InductiveInvariant, PTL

(* Every accepted connection has an owner that will close it. *)
THEOREM NoLeak == Spec => []NoConnectionLeak
<1>1. IInv => NoConnectionLeak
  BY DEF IInv
<1> QED BY <1>1, InductiveInvariant, PTL

--------------------------------------------------------------------------------
(* Every client gets the answer to its own request. *)

Peer(s) == fdtab[Uses(s)]
Works(s) == thread[s] \in {"ready", "recv", "send"}

(* A handler that has yet to receive has sent its client nothing; one that sends
   has what answers its client's request, and if that is not a page it has sent
   nothing and will send it in one piece. *)
Answering(s) ==
  /\ thread[s] \in {"ready", "recv"} => got[Peer(s)] = <<>>
  /\ thread[s] = "send" =>
       /\ sent[Peer(s)] # NoReq
       /\ resp_ptr[s].kind \in Answers(sent[Peer(s)])
       /\ resp_ptr[s].kind # "page" => len[s] <= 1 /\ got[Peer(s)] = <<>>

(* With that, no client was sent anything before it was accepted or before it
   sent its request. *)
AnswersInv ==
  /\ AnswersMatch
  /\ \A c \in Conns : got[c] # <<>> => sent[c] # NoReq
  /\ \A c \in Conns : conn[c] \in {"new", "backlog"} => got[c] = <<>>
  /\ \A s \in Slots : Answering(s)

(* At boot nothing was sent. *)
LEMMA InitAnswersInv == Init => AnswersInv
<1> SUFFICES ASSUME Init PROVE AnswersInv
  OBVIOUS
<1>1. \A c \in Conns : got[c] = <<>> /\ DOMAIN got[c] = {}
  BY DEF Init
<1>2. \A s \in Slots : thread[s] = "dead"
  BY DEF Init
<1> QED BY <1>1, <1>2 DEF AnswersInv, AnswersMatch, Answering

(* A handler to which nothing happens, or which makes its copy of the descriptor. *)
LEMMA AnsweringKept ==
  ASSUME NEW s \in Slots, Answering(s), UNCHANGED <<got, sent>>,
         Works(s)' => /\ Peer(s)' = Peer(s)
                      /\ \/ thread'[s] = thread[s]
                         \/ thread[s] = "ready" /\ thread'[s] = "recv"
                      /\ resp_ptr'[s] = resp_ptr[s] /\ len'[s] = len[s]
  PROVE  Answering(s)'
BY DEF Answering, Works

(* A step in which no client sends or is sent anything. *)
LEMMA SilentStep ==
  ASSUME AnswersInv, UNCHANGED <<got, sent>>,
         \A c \in Conns : conn'[c] \in {"new", "backlog"} => conn[c] \in {"new", "backlog"},
         \A s \in Slots : Answering(s)'
  PROVE  AnswersInv'
BY DEF AnswersInv, AnswersMatch

(* The peer of a handler that works is an open connection, and no other's. *)
LEMMA PeerFacts ==
  ASSUME IInv, NEW s \in Slots, Works(s)
  PROVE  /\ Peer(s) \in Conns /\ conn[Peer(s)] = "open"
         /\ Uses(s) \in Fds /\ Holding(s)
         /\ \A t \in Slots : Works(t) /\ Peer(t) = Peer(s) => t = s
<1>1. \A t \in Slots : Works(t) => Holding(t)
  BY DEF Works, Holding
<1> QED BY <1>1 DEF Peer, IInv, SocketOwnership, TableAgrees

(* Clients that come or go, the clock, and a listener that fails. *)
LEMMA OthersKeepAnswers ==
  ASSUME IInv, AnswersInv,
         \/ \E c \in Conns : Connect(c) \/ ClientGone(c)
         \/ Tick \/ AcceptFails \/ UNCHANGED vars
  PROVE  AnswersInv'
<1>1. UNCHANGED <<fdtab, got, sent, thread, request_socket, tcp4_accepted, resp_ptr, len>>
  BY DEF Connect, ClientGone, Tick, AcceptFails, vars, netVars, slotVars, dataVars
<1>2. \A c \in Conns : conn'[c] \in {"new", "backlog"} => conn[c] \in {"new", "backlog"}
  BY DEF Connect, ClientGone, Tick, AcceptFails, vars, netVars, IInv, TypeOK
<1>3. \A s \in Slots : Answering(s)'
  BY <1>1 DEF AnswersInv, Answering, Peer, Uses
<1> QED BY <1>1, <1>2, <1>3, SilentStep

(* Starting and setting up the server: no handler works, or a descriptor that no
   handler uses is given out. *)
LEMMA SetupKeepsAnswers ==
  ASSUME IInv, AnswersInv, Start \/ SetupFails \/ \E fd \in Fds : SetupServer(fd)
  PROVE  AnswersInv'
<1>1. UNCHANGED <<conn, got, sent, thread, resp_ptr, len>>
  BY DEF Start, SetupFails, SetupServer, netVars, slotVars, dataVars
<1>2. CASE Start
  <2>1. \A s \in Slots : thread'[s] = "dead"
    BY <1>1, <1>2 DEF Start, IInv, TableAgrees
  <2>2. \A s \in Slots : Answering(s)'
    BY <2>1 DEF Answering
  <2> QED BY <1>1, <2>2, SilentStep
<1>3. CASE SetupFails \/ \E fd \in Fds : SetupServer(fd)
  <2>1. UNCHANGED <<request_socket, tcp4_accepted>>
    BY <1>3 DEF SetupFails, SetupServer, slotVars
  <2>2. ASSUME NEW f \in Fds, fdtab[f] \in Conns PROVE fdtab'[f] = fdtab[f]
    <3>1. CASE UNCHANGED fdtab
      BY <3>1
    <3>2. ASSUME NEW fd \in Fds, fdtab[fd] = Free, NEW what,
                 fdtab' = [fdtab EXCEPT ![fd] = what]
          PROVE  fdtab'[f] = fdtab[f]
      BY <2>2, <3>2, ServerConstants DEF IInv, TypeOK
    <3> QED BY <1>3, <3>1, <3>2 DEF SetupFails, SetupServer, NextFd
  <2>3. ASSUME NEW s \in Slots, Works(s)' PROVE Peer(s)' = Peer(s)
    <3>1. Works(s) /\ Uses(s)' = Uses(s)
      BY <1>1, <2>1, <2>3 DEF Works, Uses
    <3> QED BY <2>2, <3>1, PeerFacts DEF Peer
  <2>4. \A s \in Slots : Answering(s)'
    BY <1>1, <2>3, AnsweringKept DEF AnswersInv
  <2> QED BY <1>1, <2>4, SilentStep
<1> QED BY <1>2, <1>3

(* Accepting: the connection has been sent nothing yet. *)
LEMMA AcceptKeepsAnswers ==
  ASSUME IInv, AnswersInv, NEW c \in Conns, NEW fd \in Fds,
         AcceptRefuse(c, fd) \/ \E s \in Slots : AcceptServe(c, fd, s)
  PROVE  AnswersInv'
<1>1. Accepted(c, fd) /\ UNCHANGED <<got, sent, request_socket, resp_ptr, len>>
  BY DEF AcceptRefuse, AcceptServe, slotVars, dataVars
<1>2. /\ conn[c] = "backlog"
      /\ \A f \in Fds : fdtab'[f] = IF f = fd THEN c ELSE fdtab[f]
      /\ \A b \in Conns : conn'[b] = IF b = c THEN "open" ELSE conn[b]
      /\ \A t \in Slots : Holding(t) => Uses(t) \in Fds /\ Uses(t) # fd
  BY <1>1, AcceptFacts
<1>3. ASSUME NEW t \in Slots, thread'[t] = thread[t], tcp4_accepted'[t] = tcp4_accepted[t]
      PROVE  Answering(t)'
  <2>1. Works(t) => Peer(t)' = Peer(t)
    BY <1>1, <1>2, <1>3 DEF Works, Holding, Peer, Uses
  <2>2. Answering(t) /\ (Works(t)' => Works(t))
    BY <1>3 DEF AnswersInv, Works
  <2> QED BY <1>1, <1>3, <2>1, <2>2, AnsweringKept
<1>4. \A t \in Slots : Answering(t)'
  <2>1. CASE AcceptRefuse(c, fd)
    BY <1>3, <2>1 DEF AcceptRefuse, slotVars
  <2>2. ASSUME NEW s \in Slots, AcceptServe(c, fd, s) PROVE \A t \in Slots : Answering(t)'
    <3>1. /\ thread' = [thread EXCEPT ![s] = "ready"] /\ thread \in [Slots -> ThreadStates]
          /\ tcp4_accepted' = [tcp4_accepted EXCEPT ![s] = fd]
          /\ tcp4_accepted \in [Slots -> Fds \cup {NoFd}]
      BY <2>2 DEF AcceptServe, IInv, TypeOK
    <3>2. \A t \in Slots \ {s} : Answering(t)'
      BY <1>3, <3>1
    <3>3. thread'[s] = "ready" /\ Peer(s)' = c
      BY <1>2, <3>1 DEF Peer, Uses
    <3>4. got'[c] = <<>>
      BY <1>1, <1>2 DEF AnswersInv
    <3>5. Answering(s)'
      BY <3>3, <3>4 DEF Answering
    <3> QED BY <3>2, <3>5
  <2> QED BY <2>1, <2>2
<1>5. \A b \in Conns : conn'[b] \in {"new", "backlog"} => conn[b] \in {"new", "backlog"}
  BY <1>2
<1> QED BY <1>1, <1>4, <1>5, SilentStep

(* Closing, by a handler or by the listener, leaves the others' peers alone. *)
LEMMA CloseKeepsAnswers ==
  ASSUME IInv, AnswersInv, CloseRefused \/ \E s \in Slots : CloseConn(s)
  PROVE  AnswersInv'
<1>1. UNCHANGED <<got, sent, request_socket, tcp4_accepted, resp_ptr, len>>
  BY DEF CloseRefused, CloseConn, slotVars, dataVars
<1>2. ASSUME NEW d, Shut(d)
      PROVE  /\ \A f \in Fds : f # d => fdtab'[f] = fdtab[f]
             /\ \A b \in Conns : conn'[b] \in {"new", "backlog"} => conn[b] \in {"new", "backlog"}
  BY <1>2 DEF Shut, IInv, TypeOK
<1>3. ASSUME NEW d, Shut(d), NEW t \in Slots,
             Works(t)' => thread'[t] = thread[t] /\ Uses(t) # d
      PROVE  Answering(t)'
  <2>1. Works(t)' => Works(t) /\ Uses(t)' = Uses(t) /\ Uses(t) \in Fds
    BY <1>1, <1>3, PeerFacts DEF Works, Uses
  <2>2. Works(t)' => Peer(t)' = Peer(t)
    BY <1>2, <1>3, <2>1 DEF Peer
  <2> QED BY <1>1, <1>3, <2>2, AnsweringKept DEF AnswersInv
<1>4. CASE CloseRefused
  <2>1. Shut(client) /\ listener = "reject" /\ thread' = thread
    BY <1>4 DEF CloseRefused, slotVars
  <2>2. \A t \in Slots : Works(t) => Uses(t) # client
    BY <2>1, PeerFacts DEF IInv, SocketOwnership
  <2>3. \A t \in Slots : Answering(t)'
    BY <1>3, <2>1, <2>2 DEF Works
  <2> QED BY <1>1, <1>2, <2>1, <2>3, SilentStep
<1>5. ASSUME NEW s \in Slots, CloseConn(s) PROVE AnswersInv'
  <2>1. /\ Shut(request_socket[s]) /\ thread[s] = "close"
        /\ thread' = [thread EXCEPT ![s] = "exit"] /\ thread \in [Slots -> ThreadStates]
    BY <1>5 DEF CloseConn, HandlerStep, IInv, TypeOK
  <2>2. Holding(s) /\ Uses(s) = request_socket[s]
    BY <2>1 DEF Holding, Uses
  <2>3. \A t \in Slots : Works(t)' => t # s /\ thread'[t] = thread[t] /\ Works(t)
    BY <2>1 DEF Works
  <2>4. \A t \in Slots : Works(t)' => Uses(t) # request_socket[s]
    BY <2>2, <2>3, PeerFacts DEF IInv, SocketOwnership
  <2>5. \A t \in Slots : Answering(t)'
    BY <1>3, <2>1, <2>3, <2>4
  <2> QED BY <1>1, <1>2, <2>1, <2>5, SilentStep
<1> QED BY <1>4, <1>5

(* A handler that begins, gives up or ends sends nothing. *)
LEMMA HandlerMovesKeepAnswers ==
  ASSUME IInv, AnswersInv, NEW s \in Slots,
         HandlerStart(s) \/ RecvEnds(s) \/ SendFails(s) \/ Exit(s)
  PROVE  AnswersInv'
<1>0. /\ thread \in [Slots -> ThreadStates] /\ resp_ptr \in [Slots -> Responses]
      /\ len \in [Slots -> 0..PAGE_CHUNKS] /\ request_socket \in [Slots -> Fds \cup {NoFd}]
      /\ tcp4_accepted \in [Slots -> Fds \cup {NoFd}]
  BY DEF IInv, TypeOK
<1>1. UNCHANGED <<fdtab, conn, got, sent>>
  BY DEF HandlerStart, RecvEnds, SendFails, Exit, netVars
<1>2. ASSUME NEW t \in Slots, t # s PROVE Answering(t)'
  <2>1. /\ thread'[t] = thread[t] /\ request_socket'[t] = request_socket[t]
        /\ tcp4_accepted'[t] = tcp4_accepted[t]
        /\ resp_ptr'[t] = resp_ptr[t] /\ len'[t] = len[t]
    BY <1>0, <1>2 DEF HandlerStart, RecvEnds, SendFails, Exit, HandlerStep, Respond, dataVars
  <2>2. Peer(t)' = Peer(t)
    BY <1>1, <2>1 DEF Peer, Uses
  <2> QED BY <1>1, <2>1, <2>2, AnsweringKept DEF AnswersInv
<1>3. ASSUME HandlerStart(s) PROVE Answering(s)'
  <2>1. /\ thread[s] = "ready" /\ thread'[s] = "recv"
        /\ request_socket'[s] = tcp4_accepted[s] /\ resp_ptr' = resp_ptr /\ len' = len
    BY <1>0, <1>3 DEF HandlerStart, HandlerStep, dataVars
  <2>2. Peer(s)' = Peer(s)
    BY <1>1, <2>1 DEF Peer, Uses
  <2> QED BY <1>1, <2>1, <2>2, AnsweringKept DEF AnswersInv
<1>4. ASSUME RecvEnds(s) \/ SendFails(s) \/ Exit(s) PROVE Answering(s)'
  <2>1. thread'[s] \in {"close", "dead"}
    BY <1>0, <1>4 DEF RecvEnds, SendFails, Exit, HandlerStep
  <2> QED BY <2>1 DEF Answering
<1>5. Answering(s)'
  BY <1>3, <1>4
<1> QED BY <1>1, <1>2, <1>5, SilentStep

(* A client that sends its one request has received nothing. *)
LEMMA ClientSendKeepsAnswers ==
  ASSUME IInv, AnswersInv, NEW c \in Conns, NEW r \in Requests, ClientSend(c, r)
  PROVE  AnswersInv'
<1>1. /\ sent[c] = NoReq /\ sent' = [sent EXCEPT ![c] = r]
      /\ UNCHANGED <<fdtab, conn, got, thread, request_socket, tcp4_accepted, resp_ptr, len>>
  BY DEF ClientSend, slotVars, dataVars
<1>2. got[c] = <<>> /\ DOMAIN got[c] = {}
  BY <1>1 DEF AnswersInv
<1>3. \A b \in Conns : b # c => sent'[b] = sent[b]
  BY <1>1 DEF IInv, TypeOK
<1>4. AnswersMatch'
  BY <1>1, <1>2, <1>3 DEF AnswersInv, AnswersMatch
<1>5. \A b \in Conns : (got[b] # <<>> => sent[b] # NoReq)'
  BY <1>1, <1>2, <1>3 DEF AnswersInv
<1>6. ASSUME NEW s \in Slots PROVE Answering(s)'
  <2>1. Answering(s)
    BY DEF AnswersInv
  <2>2. Peer(s)' = Peer(s) /\ (Works(s) => Peer(s) \in Conns)
    BY <1>1, PeerFacts DEF Peer, Uses
  <2>3. thread[s] = "send" => sent'[Peer(s)] = sent[Peer(s)]
    BY <1>1, <1>3, <2>1, <2>2 DEF Answering, Works
  <2> QED BY <1>1, <2>1, <2>2, <2>3 DEF Answering
<1> QED BY <1>1, <1>4, <1>5, <1>6 DEF AnswersInv

(* The handler chooses what answers the request it received. *)
LEMMA HandlesKeepsAnswers ==
  ASSUME IInv, AnswersInv, NEW s \in Slots, NEW r \in Requests, Handles(s, r)
  PROVE  AnswersInv'
<1>0. /\ thread \in [Slots -> ThreadStates] /\ resp_ptr \in [Slots -> Responses]
      /\ len \in [Slots -> 0..PAGE_CHUNKS]
  BY DEF IInv, TypeOK
<1>1. Receives(s, r)
  BY DEF Handles, PutLed, PutForbidden, GetLed, GetPage, GetUnknown, OtherMethod
<1>2. /\ thread[s] = "recv" /\ thread' = [thread EXCEPT ![s] = "send"]
      /\ UNCHANGED <<fdtab, conn, got, sent, request_socket, tcp4_accepted>>
      /\ sent[Peer(s)] = r
  BY <1>1 DEF Receives, HandlerStep, netVars, Peer, Uses
<1>3. PICK kind, val, chunks :
        /\ Respond(s, kind, val, chunks) /\ kind \in Answers(r)
        /\ kind # "page" => chunks = 1
  <2>1. CASE PutLed(s, r)
    <3>1. Respond(s, "200", 0, 1) /\ "200" \in Answers(r)
      BY <2>1 DEF PutLed, Answers
    <3> QED BY <3>1
  <2>2. CASE PutForbidden(s, r)
    <3>1. Respond(s, "403", 0, 1) /\ "403" \in Answers(r)
      BY <2>2 DEF PutForbidden, Answers
    <3> QED BY <3>1
  <2>3. CASE GetLed(s, r)
    <3>1. Respond(s, "led", led_states[r.id], 1) /\ "led" \in Answers(r)
      BY <2>3 DEF GetLed, Answers
    <3> QED BY <3>1
  <2>4. CASE GetPage(s, r)
    <3>1. Respond(s, "page", 0, PAGE_CHUNKS) /\ "page" \in Answers(r)
      BY <2>4 DEF GetPage, Answers, NamesLed
    <3> QED BY <3>1
  <2>5. CASE GetUnknown(s, r)
    <3>1. Respond(s, "404", 0, 1) /\ "404" \in Answers(r)
      BY <2>5 DEF GetUnknown, Answers
    <3> QED BY <3>1
  <2>6. CASE OtherMethod(s, r)
    <3>1. Respond(s, "403", 0, 1) /\ "403" \in Answers(r)
      BY <2>6 DEF OtherMethod, Answers
    <3> QED BY <3>1
  <2> QED BY <2>1, <2>2, <2>3, <2>4, <2>5, <2>6 DEF Handles
<1>4. /\ resp_ptr' = [resp_ptr EXCEPT ![s] = [kind |-> kind, val |-> val]]
      /\ len' = [len EXCEPT ![s] = chunks]
  BY <1>3 DEF Respond
<1>5. ASSUME NEW t \in Slots, t # s PROVE Answering(t)'
  <2>1. thread'[t] = thread[t] /\ resp_ptr'[t] = resp_ptr[t] /\ len'[t] = len[t]
    BY <1>0, <1>2, <1>4, <1>5
  <2>2. Peer(t)' = Peer(t)
    BY <1>2, <2>1 DEF Peer, Uses
  <2> QED BY <1>2, <2>1, <2>2, AnsweringKept DEF AnswersInv
<1>6. Answering(s)'
  <2>1. thread'[s] = "send" /\ resp_ptr'[s].kind = kind /\ len'[s] = chunks
    BY <1>0, <1>2, <1>4
  <2>2. Peer(s)' = Peer(s)
    BY <1>2, <2>1 DEF Peer, Uses
  <2>3. got[Peer(s)] = <<>>
    BY <1>2 DEF AnswersInv, Answering
  <2>4. r # NoReq
    BY ServerConstants
  <2> QED BY <1>2, <1>3, <2>1, <2>2, <2>3, <2>4 DEF Answering
<1> QED BY <1>2, <1>5, <1>6, SilentStep

(* A piece that is sent answers the request; it is the only one, or one of a page. *)
LEMMA SendKeepsAnswers ==
  ASSUME IInv, AnswersInv, NEW s \in Slots, NEW k \in 1..PAGE_CHUNKS, Send(s, k)
  PROVE  AnswersInv'
<1> DEFINE c == Peer(s)
           to == IF k = len[s] THEN "close" ELSE "send"
<1>0. /\ thread \in [Slots -> ThreadStates] /\ len \in [Slots -> 0..PAGE_CHUNKS]
      /\ got \in [Conns -> Seq(Responses)] /\ len[s] \in Nat
  BY ServerConstants DEF IInv, TypeOK
<1>1. /\ thread[s] = "send" /\ thread' = [thread EXCEPT ![s] = to] /\ k \in 1..len[s]
      /\ got' = [got EXCEPT ![c] = Append(@, Piece(s))] /\ len' = [len EXCEPT ![s] = @ - k]
      /\ UNCHANGED <<fdtab, conn, sent, request_socket, tcp4_accepted, resp_ptr>>
  BY DEF Send, HandlerStep, Peer, Uses
<1>2. /\ c \in Conns /\ conn[c] = "open"
      /\ \A t \in Slots : Works(t) /\ Peer(t) = c => t = s
  BY <1>1, PeerFacts DEF Works
<1>3. /\ sent[c] # NoReq /\ resp_ptr[s].kind \in Answers(sent[c])
      /\ resp_ptr[s].kind # "page" => len[s] <= 1 /\ got[c] = <<>>
  BY <1>1 DEF AnswersInv, Answering
<1>4. Piece(s).kind = resp_ptr[s].kind /\ Piece(s) \in Responses
  BY DEF Piece, Responses, IInv, TypeOK
<1>5. ASSUME NEW t \in Slots PROVE Uses(t)' = Uses(t) /\ Peer(t)' = Peer(t)
  BY <1>0, <1>1 DEF Uses, Peer
<1>6. \A b \in Conns : b # c => got'[b] = got[b]
  BY <1>0, <1>1
<1>7. /\ got'[c] = Append(got[c], Piece(s)) /\ Len(got'[c]) = Len(got[c]) + 1
      /\ DOMAIN got'[c] = 1..Len(got[c]) + 1 /\ DOMAIN got[c] = 1..Len(got[c])
      /\ Len(got[c]) \in Nat
      /\ \A i \in 1..Len(got[c]) : got'[c][i] = got[c][i]
      /\ got'[c][Len(got[c]) + 1] = Piece(s)
  <2>1. got[c] \in Seq(Responses)
    BY <1>0, <1>2
  <2>2. got'[c] = Append(got[c], Piece(s))
    BY <1>0, <1>1, <1>2
  <2> HIDE DEF c
  <2> QED BY <1>4, <2>1, <2>2, AppendProperties, LenProperties
<1> HIDE DEF c, to
<1>8. ASSUME NEW i \in DOMAIN got'[c]
      PROVE  /\ got'[c][i].kind \in Answers(sent[c])
             /\ got'[c][i].kind # "page" => Len(got'[c]) = 1
  <2>1. CASE i = Len(got[c]) + 1
    <3>1. got'[c][i].kind = resp_ptr[s].kind
      BY <1>4, <1>7, <2>1
    <3>2. resp_ptr[s].kind # "page" => Len(got'[c]) = 1
      BY <1>3, <1>7
    <3> QED BY <1>3, <3>1, <3>2
  <2>2. CASE i # Len(got[c]) + 1
    <3>1. i \in DOMAIN got[c] /\ got'[c][i] = got[c][i] /\ got[c] # <<>>
      BY <1>7, <2>2
    <3>2. got[c][i].kind \in Answers(sent[c])
      BY <1>2, <3>1 DEF AnswersInv, AnswersMatch
    <3>3. resp_ptr[s].kind = "page" /\ "page" \in Answers(sent[c])
      BY <1>3, <3>1
    <3>4. got[c][i].kind = "page"
      BY <3>2, <3>3 DEF Answers
    <3> QED BY <3>1, <3>2, <3>4
  <2> QED BY <2>1, <2>2
<1>9. AnswersMatch'
  <2>1. ASSUME NEW b \in Conns, NEW i \in DOMAIN got'[b]
        PROVE  /\ sent'[b] # NoReq /\ got'[b][i].kind \in Answers(sent'[b])
               /\ got'[b][i].kind # "page" => Len(got'[b]) = 1
    <3>1. CASE b = c
      BY <1>1, <1>3, <1>8, <3>1
    <3>2. CASE b # c
      BY <1>1, <1>6, <3>2 DEF AnswersInv, AnswersMatch
    <3> QED BY <3>1, <3>2
  <2> QED BY <2>1 DEF AnswersMatch, Answers, NamesLed, LegalUpdate
<1>10. \A b \in Conns : (got[b] # <<>> => sent[b] # NoReq)'
  BY <1>1, <1>3, <1>6 DEF AnswersInv
<1>11. \A b \in Conns : (conn[b] \in {"new", "backlog"} => got[b] = <<>>)'
  BY <1>1, <1>2, <1>6 DEF AnswersInv
<1>12. ASSUME NEW t \in Slots, t # s PROVE Answering(t)'
  <2>1. thread'[t] = thread[t] /\ len'[t] = len[t]
    BY <1>0, <1>1, <1>12
  <2>2. Works(t) => Peer(t) \in Conns /\ Peer(t) # c
    BY <1>2, <1>12, PeerFacts
  <2>3. Works(t) => got'[Peer(t)] = got[Peer(t)]
    BY <1>6, <2>2
  <2>4. Answering(t) /\ Peer(t)' = Peer(t)
    BY <1>5 DEF AnswersInv
  <2> QED BY <1>1, <2>1, <2>3, <2>4 DEF Answering, Works
<1>13. Answering(s)'
  <2>1. CASE k = len[s]
    <3>1. thread'[s] = "close"
      BY <1>0, <1>1, <2>1 DEF to
    <3> QED BY <3>1 DEF Answering
  <2>2. CASE k # len[s]
    <3>1. thread'[s] = "send" /\ Peer(s)' = c /\ resp_ptr[s].kind = "page"
      BY <1>0, <1>1, <1>3, <1>5, <2>2 DEF to, c
    <3> QED BY <1>1, <1>3, <3>1 DEF Answering
  <2> QED BY <2>1, <2>2
<1> QED BY <1>9, <1>10, <1>11, <1>12, <1>13 DEF AnswersInv

(* No step sends a client anything but the answer to its request. *)
LEMMA AnswersInvInductive == IInv /\ AnswersInv /\ [Next]_vars => AnswersInv'
<1> SUFFICES ASSUME IInv, AnswersInv, [Next]_vars PROVE AnswersInv'
  OBVIOUS
<1>1. CASE Clients \/ Tick \/ UNCHANGED vars
  BY <1>1, OthersKeepAnswers, ClientSendKeepsAnswers DEF Clients
<1>2. CASE Listener
  BY <1>2, OthersKeepAnswers, SetupKeepsAnswers, AcceptKeepsAnswers, CloseKeepsAnswers DEF Listener
<1>3. ASSUME NEW s \in Slots, Handler(s) PROVE AnswersInv'
  BY <1>3, HandlerMovesKeepAnswers, CloseKeepsAnswers, HandlesKeepsAnswers, SendKeepsAnswers
     DEF Handler
<1> QED BY <1>1, <1>2, <1>3 DEF Next

(* Whatever handlers and clients do at once, a client receives the answer to its
   own request, and one only (lines 147-240). *)
THEOREM ClientsGetTheirAnswers == Spec => []AnswersMatch
<1>1. Spec => []AnswersInv
  BY InitAnswersInv, AnswersInvInductive, InductiveInvariant, PTL DEF Spec
<1>2. AnswersInv => AnswersMatch
  BY DEF AnswersInv
<1> QED BY <1>1, <1>2, PTL

--------------------------------------------------------------------------------
(* Consequences of the invariant about steps and about numbers. *)

(* A thread and its stack are given to a new handler only when the old one has
   ended (line 439). *)
THEOREM ThreadsAreNotReused == Spec => NoLiveThreadReuse
<1> DEFINE Keeps == \A s \in Slots : thread'[s] = "ready" => thread[s] \in {"dead", "ready"}
<1>1. IInv /\ [Next]_vars => [Keeps]_vars
  <2> SUFFICES ASSUME IInv, Next, NEW s \in Slots, thread'[s] = "ready"
               PROVE  thread[s] \in {"dead", "ready"}
    BY DEF vars
  <2>0. thread \in [Slots -> ThreadStates]
    BY DEF IInv, TypeOK
  <2>1. CASE Clients \/ Tick
    BY <2>1 DEF Clients, Connect, ClientGone, ClientSend, Tick, slotVars
  <2>2. CASE Listener
    <3>1. ASSUME NEW c \in Conns, NEW fd \in Fds, NEW t \in Slots, AcceptServe(c, fd, t)
          PROVE  thread[s] \in {"dead", "ready"}
      <4>1. tcp4_accepted[t] < 0 /\ listener = "accept"
        BY <3>1 DEF AcceptServe, Accepted, IsFreeSlot, FreeSlots
      <4>2. tcp4_accepted[t] \in Fds \cup {NoFd}
        BY DEF IInv, TypeOK
      <4>3. \A f \in Fds : ~ (f < 0)
        BY ServerConstants
      <4>4. thread[t] = "dead"
        BY <4>1, <4>2, <4>3 DEF IInv, SlotsMatchThreads
      <4> QED BY <2>0, <3>1, <4>4 DEF AcceptServe
    <3>2. CASE UNCHANGED thread
      BY <3>2
    <3> QED
      BY <2>2, <3>1, <3>2 DEF Listener, Start, SetupFails, AcceptFails, CloseRefused,
                              SetupServer, AcceptRefuse, slotVars
  <2>3. ASSUME NEW t \in Slots, Handler(t) PROVE thread[s] \in {"dead", "ready"}
    <3>1. \E to \in ThreadStates \ {"ready"} : thread' = [thread EXCEPT ![t] = to]
      BY <2>3 DEF Handler, HandlerStart, RecvEnds, SendFails, CloseConn, Exit, Handles, Send,
                  PutLed, PutForbidden, GetLed, GetPage, GetUnknown, OtherMethod,
                  Receives, HandlerStep, ThreadStates
    <3> QED BY <2>0, <3>1
  <2> QED BY <2>1, <2>2, <2>3 DEF Next
<1>2. Spec => [][Keeps]_vars
  BY <1>1, InductiveInvariant, PTL DEF Spec
<1> QED
  BY <1>2 DEF NoLiveThreadReuse

(* An element more makes a finite set larger by one at most. *)
LEMMA OneMore ==
  ASSUME NEW S, NEW x, NEW n \in Nat, IsFiniteSet(S), Cardinality(S) <= n
  PROVE  IsFiniteSet(S \cup {x}) /\ Cardinality(S \cup {x}) <= n + 1
<1>1. Cardinality(S) \in Nat
  BY FS_CardinalityType
<1> QED BY <1>1, FS_AddElement

(* The server never holds more descriptors than one to listen, one for each
   handler at work and one for the connection it is refusing. *)
THEOREM DescriptorsBounded == Spec => []FdBudget
<1>1. IInv => FdBudget
  <2> SUFFICES ASSUME IInv PROVE FdBudget
    OBVIOUS
  <2> DEFINE Used == {fd \in Fds : fdtab[fd] # Free}
             f == [s \in Serving |-> Uses(s)]
             Held == {f[s] : s \in Serving}
             Refused == IF listener = "reject" THEN {client} ELSE {}
             All == (Held \cup {tcp4_listen_sock}) \cup Refused
  <2>1. IsFiniteSet(Serving) /\ Cardinality(Serving) \in Nat
    <3>1. IsFiniteSet(Slots)
      BY ServerConstants, FS_Interval DEF Slots
    <3>2. Serving \subseteq Slots
      BY DEF Serving
    <3> QED BY <3>1, <3>2, FS_Subset, FS_CardinalityType
  <2>2. f \in Surjection(Serving, Held)
    BY DEF Surjection
  <2>3. IsFiniteSet(Held) /\ Cardinality(Held) <= Cardinality(Serving)
    BY <2>1, <2>2, FS_Surjection
  <2>4. /\ IsFiniteSet(All)
        /\ Cardinality(All) <= 1 + Cardinality(Serving) + (IF listener = "reject" THEN 1 ELSE 0)
    <3>1. /\ IsFiniteSet(Held \cup {tcp4_listen_sock})
          /\ Cardinality(Held \cup {tcp4_listen_sock}) <= Cardinality(Serving) + 1
      BY <2>1, <2>3, OneMore
    <3>2. CASE listener = "reject"
      <4>1. All = (Held \cup {tcp4_listen_sock}) \cup {client}
        BY <3>2
      <4>2. /\ IsFiniteSet(All)
            /\ Cardinality(All) <= (Cardinality(Serving) + 1) + 1
        <5> HIDE DEF Held, All
        <5>1. Cardinality(Serving) + 1 \in Nat
          BY <2>1
        <5> QED BY <3>1, <4>1, <5>1, OneMore
      <4> QED BY <2>1, <3>2, <4>2
    <3>3. CASE listener # "reject"
      <4>1. All = Held \cup {tcp4_listen_sock}
        BY <3>3
      <4> QED BY <2>1, <3>1, <3>3, <4>1
    <3> QED BY <3>2, <3>3
  <2>5. Used \subseteq All
    <3> SUFFICES ASSUME NEW fd \in Fds, fdtab[fd] # Free PROVE fd \in All
      OBVIOUS
    <3>1. CASE fdtab[fd] \in Conns
      <4>1. conn[fdtab[fd]] = "open"
        BY <3>1 DEF IInv, TableAgrees
      <4>2. CASE listener = "reject" /\ fdtab[client] = fdtab[fd]
        BY <3>1, <4>2 DEF IInv, TableAgrees
      <4>3. ASSUME NEW s \in Slots, Holding(s), fdtab[Uses(s)] = fdtab[fd] PROVE fd \in All
        <5>1. Uses(s) = fd
          BY <3>1, <4>3 DEF IInv, TableAgrees
        <5>2. s \in Serving
          BY <4>3 DEF Serving
        <5> QED BY <5>1, <5>2
      <4> QED BY <3>1, <4>1, <4>2, <4>3 DEF IInv, NoConnectionLeak
    <3>2. CASE fdtab[fd] \in {Listening, Unbound}
      BY <3>2 DEF IInv, TableAgrees
    <3> QED BY <3>1, <3>2 DEF IInv, TypeOK
  <2>6. Cardinality(Used) <= Cardinality(All) /\ IsFiniteSet(Used)
    BY <2>4, <2>5, FS_Subset
  <2>7. Cardinality(Used) \in Nat /\ Cardinality(All) \in Nat
    BY <2>4, <2>6, FS_CardinalityType
  <2> QED
    BY <2>1, <2>4, <2>6, <2>7 DEF FdBudget
<1> QED BY <1>1, InductiveInvariant, PTL

--------------------------------------------------------------------------------
(* The refinement: HttpServer implements ConnService. *)

(* What the abstract service sees of a slot and of a connection. *)
SBusy == {s \in Slots : thread[s] # "dead"}
SServes == [s \in Slots |-> IF Holding(s) THEN fdtab[Uses(s)] ELSE NoConn]
SConn == [c \in Conns |-> AbsConn(c)]
SAnswered == {c \in Conns : got[c] # <<>>}

(* What the variables of the service are under the refinement mapping. *)
LEMMA ServiceVars ==
  Service!vars = <<AbsPhase, SConn, SBusy, SServes, SAnswered>>
BY DEF Service!vars, SConn, SBusy, SServes, SAnswered

(* The server's initial states are initial states of the service. *)
LEMMA ServiceInit == Init => Service!Init
<1> SUFFICES ASSUME Init PROVE Service!Init
  OBVIOUS
<1>1. AbsPhase = "closed"
  BY DEF Init, AbsPhase
<1>2. SConn = [c \in Conns |-> "new"]
  BY DEF Init, SConn, AbsConn
<1>3. SBusy = {}
  BY DEF Init, SBusy
<1>4. SServes = [s \in Slots |-> NoConn]
  BY DEF Init, SServes, Holding
<1>5. SAnswered = {}
  BY DEF Init, SAnswered
<1> QED
  BY <1>1, <1>2, <1>3, <1>4, <1>5
  DEF Service!Init, SConn, SBusy, SServes, SAnswered

(* What a worker serves is a connection that was accepted and not refused, and
   no two workers serve the same. *)
LEMMA ServedFacts ==
  ASSUME IInv, NEW s \in Slots, Holding(s)
  PROVE  /\ Uses(s) \in Fds /\ fdtab[Uses(s)] \in Conns
         /\ AbsConn(fdtab[Uses(s)]) = "served"
         /\ \A t \in Slots : Holding(t) /\ t # s => fdtab[Uses(t)] # fdtab[Uses(s)]
<1>1. /\ Uses(s) \in Fds /\ fdtab[Uses(s)] \in Conns
      /\ conn[fdtab[Uses(s)]] = "open"
  BY DEF IInv, SocketOwnership, TableAgrees
<1>2. listener = "reject" => client \in Fds /\ Uses(s) # client
  BY DEF IInv, SocketOwnership, TableAgrees
<1>3. listener = "reject" => fdtab[client] # fdtab[Uses(s)]
  BY <1>1, <1>2 DEF IInv, TableAgrees
<1>4. AbsConn(fdtab[Uses(s)]) = "served"
  BY <1>1, <1>3 DEF AbsConn
<1>5. ASSUME NEW t \in Slots, Holding(t), t # s
      PROVE  fdtab[Uses(t)] # fdtab[Uses(s)]
  BY <1>1, <1>5 DEF IInv, SocketOwnership, TableAgrees
<1> QED
  BY <1>1, <1>4, <1>5

(* A step that changes none of what the service sees is a stutter. *)
LEMMA HiddenStep ==
  ASSUME UNCHANGED <<fdtab, conn, listener, client, got, tcp4_accepted, request_socket>>,
         \A t \in Slots : /\ thread'[t] = "dead" <=> thread[t] = "dead"
                          /\ Holding(t)' <=> Holding(t)
                          /\ Holding(t) => Uses(t)' = Uses(t)
  PROVE  UNCHANGED Service!vars
<1>1. SServes' = SServes
  BY DEF SServes
<1>2. SBusy' = SBusy
  BY DEF SBusy
<1>3. SConn' = SConn
  BY DEF SConn, AbsConn
<1>4. AbsPhase' = AbsPhase
  BY DEF AbsPhase
<1>5. SAnswered' = SAnswered
  BY DEF SAnswered
<1> QED
  BY <1>1, <1>2, <1>3, <1>4, <1>5, ServiceVars DEF Service!vars, SConn, SBusy, SServes, SAnswered

(* A step of the listener is a step of the service or changes none of its state. *)
LEMMA ListenerRefines ==
  ASSUME IInv, Listener
  PROVE  [Service!Next]_(Service!vars)
<1>0. /\ thread \in [Slots -> ThreadStates]
      /\ conn \in [Conns -> {"new", "backlog", "open", "closed"}]
      /\ fdtab \in [Fds -> Conns \cup {Free, Listening, Unbound}]
      /\ tcp4_accepted \in [Slots -> Fds \cup {NoFd}]
  BY DEF IInv, TypeOK
<1>1. CASE Start
  BY <1>1 DEF Start, netVars, Service!vars, AbsPhase, AbsConn, Holding, Uses, IInv, TableAgrees
<1>2. ASSUME UNCHANGED <<conn, got, slotVars>>, listener \in {"setup", "accept"},
             listener' \in {"accept", "dead"},
             listener = "accept" => listener' = "dead",
             \A t \in Slots : Holding(t) => fdtab'[Uses(t)] = fdtab[Uses(t)]
      PROVE  Service!Open \/ Service!Stop
  <2>1. SServes' = SServes
    BY <1>2 DEF SServes, Holding, Uses, slotVars
  <2>2. SBusy' = SBusy
    BY <1>2 DEF SBusy, slotVars
  <2>3. SConn' = SConn
    BY <1>2 DEF SConn, AbsConn
  <2>4. SAnswered' = SAnswered
    BY <1>2 DEF SAnswered
  <2>5. \/ AbsPhase = "closed" /\ AbsPhase' \in {"open", "stopped"}
        \/ AbsPhase = "open" /\ AbsPhase' = "stopped"
    BY <1>2 DEF AbsPhase
  <2> QED
    BY <2>1, <2>2, <2>3, <2>4, <2>5
    DEF Service!Open, Service!Stop, SConn, SBusy, SServes, SAnswered
<1>3. CASE SetupFails \/ \E fd \in Fds : SetupServer(fd)
  <2>1. \A t \in Slots : Holding(t) => fdtab'[Uses(t)] = fdtab[Uses(t)]
    <3>1. \A t \in Slots : Holding(t) => Uses(t) \in Fds /\ fdtab[Uses(t)] # Free
      BY ServerConstants DEF IInv, SocketOwnership, TableAgrees
    <3>2. \/ UNCHANGED fdtab
          \/ \E fd \in Fds, w \in {Listening, Unbound} :
               fdtab[fd] = Free /\ fdtab' = [fdtab EXCEPT ![fd] = w]
      BY <1>3 DEF SetupFails, SetupServer, NextFd
    <3> QED BY <1>0, <3>1, <3>2
  <2>2. UNCHANGED <<conn, got, slotVars>> /\ listener = "setup" /\ listener' \in {"accept", "dead"}
    BY <1>3 DEF SetupFails, SetupServer
  <2> QED BY <1>2, <2>1, <2>2 DEF Service!Next
<1>4. CASE AcceptFails
  BY <1>2, <1>4 DEF AcceptFails, netVars, Service!Next
<1>5. CASE CloseRefused
  <2> DEFINE c == fdtab[client]
  <2>1. /\ listener = "reject" /\ listener' = "accept" /\ client \in Fds /\ c \in Conns
        /\ conn[c] = "open"
    BY <1>5 DEF CloseRefused, IInv, SocketOwnership, TableAgrees
  <2>2. /\ \A f \in Fds : fdtab'[f] = IF f = client THEN Free ELSE fdtab[f]
        /\ \A b \in Conns : conn'[b] = IF b = c THEN "closed" ELSE conn[b]
    BY <1>0, <1>5 DEF CloseRefused, Shut
  <2>3. SConn[c] = "refused" /\ SConn' = [SConn EXCEPT ![c] = "closed"]
    BY <2>1, <2>2 DEF SConn, AbsConn
  <2>4. \A t \in Slots : Holding(t) => Uses(t) # client /\ Uses(t) \in Fds
    BY <2>1 DEF IInv, SocketOwnership, TableAgrees
  <2>5. SServes' = SServes
    BY <1>5, <2>2, <2>4 DEF SServes, CloseRefused, slotVars, Holding, Uses
  <2>6. UNCHANGED <<SBusy, SAnswered, AbsPhase>>
    BY <1>5, <2>1 DEF SBusy, SAnswered, AbsPhase, CloseRefused, slotVars
  <2>7. Service!Dismiss(c)
    BY <2>3, <2>5, <2>6 DEF Service!Dismiss, Service!Move, SConn, SBusy, SServes, SAnswered
  <2> QED BY <2>1, <2>7 DEF Service!Next
<1>6. ASSUME NEW c \in Conns, NEW fd \in Fds, NEW s \in Slots, AcceptServe(c, fd, s)
      PROVE  Service!Admit(c, s)
  <2>1. /\ Accepted(c, fd) /\ listener' = "accept" /\ got' = got
        /\ thread' = [thread EXCEPT ![s] = "ready"]
        /\ tcp4_accepted' = [tcp4_accepted EXCEPT ![s] = fd]
        /\ request_socket' = request_socket
    BY <1>6 DEF AcceptServe, listenVars, Accepted
  <2>2. thread[s] = "dead"
    <3>1. tcp4_accepted[s] < 0 /\ listener = "accept"
      BY <1>6 DEF AcceptServe, Accepted, IsFreeSlot, FreeSlots
    <3>2. \A f \in Fds : ~ (f < 0)
      BY ServerConstants
    <3> QED BY <1>0, <3>1, <3>2 DEF IInv, SlotsMatchThreads
  <2>3. SConn[c] = "waiting" /\ SConn' = [SConn EXCEPT ![c] = "served"]
    <3>1. listener = "accept" /\ conn[c] = "backlog"
      BY <2>1, AcceptFacts
    <3>2. \A b \in Conns : conn'[b] = IF b = c THEN "open" ELSE conn[b]
      BY <2>1, AcceptFacts
    <3>3. ASSUME NEW b \in Conns PROVE AbsConn(b)' = IF b = c THEN "served" ELSE AbsConn(b)
      BY <2>1, <3>1, <3>2 DEF AbsConn
    <3>4. AbsConn(c) = "waiting"
      BY <3>1 DEF AbsConn
    <3> QED BY <3>3, <3>4 DEF SConn
  <2>4. s \notin SBusy /\ SBusy' = SBusy \cup {s}
    BY <1>0, <2>1, <2>2 DEF SBusy
  <2>5. SServes' = [SServes EXCEPT ![s] = c]
    <3>1. \A t \in Slots : Holding(t) => Uses(t) \in Fds /\ Uses(t) # fd
      BY <2>1, AcceptFacts
    <3>2. \A f \in Fds : fdtab'[f] = IF f = fd THEN c ELSE fdtab[f]
      BY <2>1, AcceptFacts
    <3>3. /\ \A t \in Slots : Holding(t)' <=> t = s \/ Holding(t)
          /\ \A t \in Slots : Holding(t)' => Uses(t)' = IF t = s THEN fd ELSE Uses(t)
      BY <1>0, <2>1, <2>2 DEF Holding, Uses
    <3>4. ASSUME NEW t \in Slots
          PROVE  (IF Holding(t) THEN fdtab[Uses(t)] ELSE NoConn)' =
                 IF t = s THEN c ELSE IF Holding(t) THEN fdtab[Uses(t)] ELSE NoConn
      BY <3>1, <3>2, <3>3
    <3> QED BY <3>4 DEF SServes
  <2>6. AbsPhase = "open" /\ AbsPhase' = "open" /\ SAnswered' = SAnswered
    BY <2>1, AcceptFacts DEF AbsPhase, SAnswered
  <2> QED
    BY <2>3, <2>4, <2>5, <2>6 DEF Service!Admit, Service!Move, SConn, SBusy, SServes, SAnswered
<1>7. ASSUME NEW c \in Conns, NEW fd \in Fds, AcceptRefuse(c, fd)
      PROVE  Service!Refuse(c)
  <2>1. /\ Accepted(c, fd) /\ listener' = "reject" /\ client' = fd /\ got' = got
        /\ UNCHANGED slotVars
    BY <1>7 DEF AcceptRefuse
  <2>2. SBusy = Slots
    <3>1. \A t \in Slots : tcp4_accepted[t] # NoFd
      BY <1>7 DEF AcceptRefuse, FreeSlots, NoFd
    <3>2. listener = "accept"
      BY <2>1, AcceptFacts
    <3>3. \A t \in Slots : thread[t] # "dead"
      BY <3>1, <3>2 DEF IInv, SlotsMatchThreads
    <3> QED BY <3>3 DEF SBusy
  <2>3. SConn[c] = "waiting" /\ SConn' = [SConn EXCEPT ![c] = "refused"]
    <3>1. listener = "accept" /\ conn[c] = "backlog" /\ fdtab'[fd] = c
      BY <2>1, AcceptFacts
    <3>2. \A b \in Conns : conn'[b] = IF b = c THEN "open" ELSE conn[b]
      BY <2>1, AcceptFacts
    <3>3. ASSUME NEW b \in Conns PROVE AbsConn(b)' = IF b = c THEN "refused" ELSE AbsConn(b)
      BY <2>1, <3>1, <3>2 DEF AbsConn
    <3>4. AbsConn(c) = "waiting"
      BY <3>1 DEF AbsConn
    <3> QED BY <3>3, <3>4 DEF SConn
  <2>4. SServes' = SServes /\ SBusy' = SBusy
    <3>1. \A t \in Slots : Holding(t) => Uses(t) \in Fds /\ Uses(t) # fd
      BY <2>1, AcceptFacts
    <3>2. \A f \in Fds : fdtab'[f] = IF f = fd THEN c ELSE fdtab[f]
      BY <2>1, AcceptFacts
    <3> QED BY <2>1, <3>1, <3>2 DEF SServes, SBusy, Holding, Uses, slotVars
  <2>5. AbsPhase = "open" /\ AbsPhase' = "open" /\ SAnswered' = SAnswered
    BY <2>1, AcceptFacts DEF AbsPhase, SAnswered
  <2> QED
    BY <2>2, <2>3, <2>4, <2>5 DEF Service!Refuse, Service!Move, SConn, SBusy, SServes, SAnswered
<1> QED
  BY <1>1, <1>3, <1>4, <1>5, <1>6, <1>7 DEF Listener, Service!Next

(* A step of a handler is a step of the service or changes none of its state. *)
LEMMA HandlerRefines ==
  ASSUME IInv, NEW s \in Slots, Handler(s)
  PROVE  [Service!Next]_(Service!vars)
<1> DEFINE c == fdtab[Uses(s)]
<1>0. /\ thread \in [Slots -> ThreadStates]
      /\ conn \in [Conns -> {"new", "backlog", "open", "closed"}]
      /\ fdtab \in [Fds -> Conns \cup {Free, Listening, Unbound}]
      /\ got \in [Conns -> Seq(Responses)]
      /\ request_socket \in [Slots -> Fds \cup {NoFd}]
  BY DEF IInv, TypeOK
<1>1. ASSUME NEW to \in {"send", "close"}, thread[s] \in {"recv", "send"},
             thread' = [thread EXCEPT ![s] = to],
             UNCHANGED <<netVars, listenVars, tcp4_accepted, request_socket>>
      PROVE  UNCHANGED Service!vars
  <2>1. \A t \in Slots : /\ thread'[t] = "dead" <=> thread[t] = "dead"
                         /\ Holding(t)' <=> Holding(t)
                         /\ Holding(t) => Uses(t)' = Uses(t)
    BY <1>0, <1>1 DEF Holding, Uses
  <2> QED BY <1>1, <2>1, HiddenStep DEF netVars, listenVars
<1>2. CASE HandlerStart(s)
  <2>1. \A t \in Slots : /\ thread'[t] = "dead" <=> thread[t] = "dead"
                         /\ Holding(t)' <=> Holding(t)
                         /\ Holding(t) => Uses(t)' = Uses(t)
    BY <1>0, <1>2 DEF HandlerStart, HandlerStep, Holding, Uses
  <2>2. UNCHANGED <<fdtab, conn, listener, client, got, tcp4_accepted>>
    BY <1>2 DEF HandlerStart, netVars, listenVars
  <2>3. SServes' = SServes /\ SBusy' = SBusy
    BY <2>1, <2>2 DEF SServes, SBusy
  <2>4. SConn' = SConn /\ AbsPhase' = AbsPhase /\ SAnswered' = SAnswered
    BY <2>2 DEF SConn, AbsConn, AbsPhase, SAnswered
  <2> QED BY <2>3, <2>4, ServiceVars DEF Service!vars, SConn, SBusy, SServes, SAnswered
<1>3. CASE RecvEnds(s) \/ SendFails(s)
  BY <1>1, <1>3 DEF RecvEnds, SendFails, HandlerStep
<1>4. ASSUME NEW r \in Requests, Handles(s, r) PROVE UNCHANGED Service!vars
  <2>1. Receives(s, r)
    BY <1>4 DEF Handles, PutLed, PutForbidden, GetLed, GetPage, GetUnknown, OtherMethod
  <2> QED BY <1>1, <2>1 DEF Receives, HandlerStep
<1>5. ASSUME NEW k \in 1..PAGE_CHUNKS, Send(s, k) PROVE Service!Answer(s)
  <2>1. /\ thread[s] = "send" /\ Holding(s) /\ Uses(s) = request_socket[s]
        /\ \E to \in {"send", "close"} : thread' = [thread EXCEPT ![s] = to]
    BY <1>5 DEF Send, HandlerStep, Holding, Uses
  <2>2. c \in Conns
    BY <2>1, ServedFacts
  <2>3. SServes[s] = c /\ SServes[s] # NoConn
    BY <2>1, <2>2, ServerConstants DEF SServes
  <2>4. \A t \in Slots : /\ thread'[t] = "dead" <=> thread[t] = "dead"
                         /\ Holding(t)' <=> Holding(t)
                         /\ Holding(t) => Uses(t)' = Uses(t)
    BY <1>0, <1>5, <2>1 DEF Send, Holding, Uses
  <2>5. UNCHANGED <<fdtab, conn, listener, client>>
    BY <1>5 DEF Send, listenVars
  <2>6. SServes' = SServes /\ SBusy' = SBusy /\ SConn' = SConn /\ AbsPhase' = AbsPhase
    BY <2>4, <2>5 DEF SServes, SBusy, SConn, AbsConn, AbsPhase
  <2>7. \A b \in Conns : got'[b] # <<>> <=> b = c \/ got[b] # <<>>
    <3>1. got' = [got EXCEPT ![c] = Append(got[c], Piece(s))]
      BY <1>5, <2>1 DEF Send
    <3>2. Append(got[c], Piece(s)) # <<>>
      <4>1. Piece(s) \in Responses
        BY DEF Piece, Responses, IInv, TypeOK
      <4>2. got[c] \in Seq(Responses)
        BY <1>0, <2>2
      <4> QED BY <4>1, <4>2, AppendProperties
    <3> QED BY <1>0, <2>2, <3>1, <3>2
  <2>8. SAnswered' = SAnswered \cup {c}
    BY <2>2, <2>7 DEF SAnswered
  <2> QED
    BY <2>3, <2>6, <2>8 DEF Service!Answer, SConn, SBusy, SServes, SAnswered
<1>6. CASE CloseConn(s)
  <2>1. /\ thread[s] = "close" /\ Holding(s) /\ Uses(s) = request_socket[s]
        /\ thread' = [thread EXCEPT ![s] = "exit"] /\ Shut(Uses(s))
        /\ UNCHANGED <<got, listener, client, tcp4_accepted, request_socket>>
    BY <1>6 DEF CloseConn, HandlerStep, Holding, Uses, listenVars
  <2>2. /\ Uses(s) \in Fds /\ c \in Conns /\ AbsConn(c) = "served"
        /\ \A t \in Slots : Holding(t) /\ t # s => fdtab[Uses(t)] # c
    BY <2>1, ServedFacts
  <2>3. /\ \A f \in Fds : fdtab'[f] = IF f = Uses(s) THEN Free ELSE fdtab[f]
        /\ \A b \in Conns : conn'[b] = IF b = c THEN "closed" ELSE conn[b]
    BY <1>0, <2>1 DEF Shut
  <2>4. SServes[s] = c /\ c # NoConn
    BY <2>1, <2>2, ServerConstants DEF SServes
  <2>5. /\ \A t \in Slots : Holding(t)' <=> Holding(t) /\ t # s
        /\ \A t \in Slots : Uses(t)' = Uses(t)
        /\ \A t \in Slots : thread'[t] = "dead" <=> thread[t] = "dead"
    BY <1>0, <2>1 DEF Holding, Uses
  <2>6. SServes' = [SServes EXCEPT ![s] = NoConn]
    <3>1. \A t \in Slots : Holding(t) /\ t # s => Uses(t) \in Fds /\ Uses(t) # Uses(s)
      BY <2>2 DEF IInv, TableAgrees
    <3>2. ASSUME NEW t \in Slots
          PROVE  (IF Holding(t) THEN fdtab[Uses(t)] ELSE NoConn)' =
                 IF t = s THEN NoConn ELSE IF Holding(t) THEN fdtab[Uses(t)] ELSE NoConn
      BY <2>3, <2>5, <3>1
    <3> QED BY <3>2 DEF SServes
  <2>7. SConn' = [SConn EXCEPT ![c] = "closed"]
    <3>1. listener = "reject" => client \in Fds /\ client # Uses(s)
      BY <2>1 DEF IInv, SocketOwnership, TableAgrees
    <3>2. listener = "reject" => fdtab'[client] = fdtab[client]
      BY <2>3, <3>1
    <3>3. ASSUME NEW b \in Conns PROVE AbsConn(b)' = IF b = c THEN "closed" ELSE AbsConn(b)
      BY <2>1, <2>3, <3>2 DEF AbsConn
    <3> QED BY <3>3 DEF SConn
  <2>8. SBusy' = SBusy /\ AbsPhase' = AbsPhase /\ SAnswered' = SAnswered
    BY <2>1, <2>5 DEF SBusy, AbsPhase, SAnswered
  <2>9. SConn[c] = "served"
    BY <2>2 DEF SConn
  <2>10. Service!Finish(s)
    BY <2>4, <2>6, <2>7, <2>8, <2>9
    DEF Service!Finish, Service!Move, SConn, SBusy, SServes, SAnswered
  <2> QED BY <2>10 DEF Service!Next
<1>7. CASE Exit(s)
  <2>1. /\ thread[s] = "exit" /\ ~ Holding(s) /\ thread' = [thread EXCEPT ![s] = "dead"]
        /\ UNCHANGED <<fdtab, conn, got, listener, client>>
    BY <1>7 DEF Exit, HandlerStep, Holding, netVars, listenVars
  <2>2. /\ \A t \in Slots : Holding(t)' <=> Holding(t)
        /\ \A t \in Slots : Holding(t) => Uses(t)' = Uses(t)
    BY <1>0, <1>7, <2>1 DEF Exit, Holding, Uses
  <2>3. SServes' = SServes /\ SConn' = SConn /\ AbsPhase' = AbsPhase /\ SAnswered' = SAnswered
    BY <2>1, <2>2 DEF SServes, SConn, AbsConn, AbsPhase, SAnswered
  <2>4. s \in SBusy /\ SServes[s] = NoConn /\ SBusy' = SBusy \ {s}
    BY <1>0, <2>1 DEF SBusy, SServes
  <2>5. Service!Release(s)
    BY <2>3, <2>4 DEF Service!Release, SConn, SBusy, SServes, SAnswered
  <2> QED BY <2>5 DEF Service!Next
<1> QED
  BY <1>2, <1>3, <1>4, <1>5, <1>6, <1>7, <1>1 DEF Handler, RecvEnds, SendFails, HandlerStep, Service!Next

(* Every step of the server is a step of the service or changes none of its state. *)
LEMMA StepRefines == IInv /\ [Next]_vars => [Service!Next]_(Service!vars)
<1> SUFFICES ASSUME IInv, [Next]_vars PROVE [Service!Next]_(Service!vars)
  OBVIOUS
<1>1. ASSUME NEW c \in Conns, Connect(c) PROVE Service!Arrive(c)
  <2>1. AbsPhase # "closed" /\ AbsPhase' = AbsPhase
    BY <1>1 DEF Connect, IsListening, IInv, TableAgrees, TypeOK, AbsPhase, listenVars
  <2>2. SConn[c] = "new" /\ SConn' = [SConn EXCEPT ![c] = "waiting"]
    <3>1. conn \in [Conns -> {"new", "backlog", "open", "closed"}]
      BY DEF IInv, TypeOK
    <3>2. ASSUME NEW b \in Conns PROVE AbsConn(b)' = IF b = c THEN "waiting" ELSE AbsConn(b)
      BY <1>1, <3>1 DEF Connect, AbsConn, listenVars
    <3>3. AbsConn(c) = "new"
      BY <1>1 DEF Connect, AbsConn
    <3> QED BY <3>2, <3>3 DEF SConn
  <2>3. SServes' = SServes /\ SBusy' = SBusy /\ SAnswered' = SAnswered
    BY <1>1 DEF Connect, SServes, SBusy, SAnswered, Holding, Uses, slotVars
  <2> QED BY <2>1, <2>2, <2>3
    DEF Service!Arrive, Service!Move, SConn, SBusy, SServes, SAnswered
<1>2. ASSUME UNCHANGED <<fdtab, conn, got, listenVars, slotVars>> PROVE UNCHANGED Service!vars
  BY <1>2, HiddenStep DEF listenVars, slotVars, Holding, Uses
<1>3. CASE Clients
  BY <1>1, <1>2, <1>3 DEF Clients, ClientGone, ClientSend, Service!Next
<1>4. CASE Tick \/ UNCHANGED vars
  BY <1>2, <1>4 DEF Tick, vars, netVars
<1> QED
  BY <1>3, <1>4, ListenerRefines, HandlerRefines DEF Next

(* The server, with its descriptors, slots and threads, implements the abstract
   connection service. *)
THEOREM ServerImplementsService == Spec => ImplementsService
<1>1. Init => Service!Init
  BY ServiceInit
<1>2. IInv /\ [Next]_vars => [Service!Next]_(Service!vars)
  BY StepRefines
<1>3. Spec => Service!Spec
  BY <1>1, <1>2, InductiveInvariant, PTL DEF Spec, Service!Spec
<1> QED
  BY <1>3 DEF ImplementsService
================================================================================
