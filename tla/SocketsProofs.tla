----------------------------- MODULE SocketsProofs -----------------------------
(* Theorems about Sockets, for any table of descriptors and any number of presses,
   wake-ups and fragments: as long as no two users of one sock variable are at
   work at once (SERIAL), each socket left behind has a failure to answer for it,
   and who closes or writes into another's socket went wrong before. *)
EXTENDS Sockets, FiniteSetTheorems, TLAPS

Pcs == {"idle", "resolve", "connect", "request", "pause", "open", "send", "recv", "over"}
Numbers == Fds \cup {-1, 0}

(* The types that the proofs need. *)
Shape ==
  /\ fdtab \in [Fds -> Entries]
  /\ httpSock \in Numbers /\ udpSock \in Numbers
  /\ pc \in [Users -> Pcs] /\ job \in [Users -> {"id", "put", "get", "udp"}]
  /\ reqFd \in [Users -> Numbers] /\ callbacks \in [Users -> Nat]
  /\ met \in [Users -> Failures] /\ faults \in [Users -> Nat]

(* What a user does fits its job. *)
JobFits(u) ==
  /\ pc[u] \in {"open", "connect", "request", "pause"} => job[u] # "udp"
  /\ pc[u] \in {"send", "recv"} => job[u] = "udp"
  /\ u = "network" => job[u] # "udp"

(* One user at a time of each sock. *)
Alone == /\ \A u, v \in InHttp : u = v
         /\ \A u, v \in InUdp : u = v

ShapeInv == Shape /\ Alone /\ \A u \in Users : JobFits(u)

(* No user is called server or nobody. *)
LEMMA UserNames ==
  ASSUME NEW u \in Users
  PROVE  /\ u # "server" /\ u # "nobody" /\ u \in Owners
         /\ \A p : Socket(u, p) # Free /\ Socket(u, p).by = u
         /\ \A p \in {"tcp", "udp", "unconnected"} :
              Socket(u, p) \in Entries
BY SocketsConstants DEF Entries, Protos, Owners, Socket, Free

(* A free descriptor is nobody's, and -1 is none. *)
LEMMA FreeFacts ==
  /\ Free \in Entries /\ Free.by = "nobody"
  /\ -1 \notin Fds
BY SocketsConstants DEF Entries, Protos, Owners, Free

(* The states in which users begin are well shaped. *)
LEMMA InitShapeInv == Init => ShapeInv
<1> SUFFICES ASSUME Init PROVE ShapeInv
  OBVIOUS
<1>1. Shape
  BY FreeFacts DEF Init, Shape, Numbers, Pcs, Failures
<1>2. \A u \in Users : JobFits(u)
  BY DEF Init, JobFits
<1>3. \A u \in Users : pc[u] = "idle" \/ (u = "network" /\ job[u] = "id")
  BY DEF Init
<1>4. Alone
  BY <1>3 DEF Alone, InHttp, InUdp
<1> QED BY <1>1, <1>2, <1>4 DEF ShapeInv

(* Where a user goes next, and with which job. *)
Moves(u, from, to, what) ==
  /\ pc[u] = from /\ pc' = [pc EXCEPT ![u] = to]
  /\ job' = [job EXCEPT ![u] = what]

(* A move that begins nothing keeps the users apart. *)
LEMMA MoveKeepsJobs ==
  ASSUME ShapeInv, NEW u \in Users, NEW from, NEW to \in Pcs,
         NEW what \in {"id", "put", "get", "udp"}, Moves(u, from, to, what),
         to \in {"idle", "over"} \/ from \notin {"idle", "over"},
         what = "udp" <=> job[u] = "udp",
         to \in {"open", "connect", "request", "pause"} => what # "udp",
         to \in {"send", "recv"} => what = "udp",
         what = "udp" => to # "over"
  PROVE  /\ Alone' /\ \A v \in Users : JobFits(v)'
         /\ pc' \in [Users -> Pcs] /\ job' \in [Users -> {"id", "put", "get", "udp"}]
<1>1. pc' \in [Users -> Pcs] /\ job' \in [Users -> {"id", "put", "get", "udp"}]
  BY DEF Moves, ShapeInv, Shape
<1>2. \A v \in Users : /\ v # u => pc'[v] = pc[v] /\ job'[v] = job[v]
                       /\ v = u => pc'[v] = to /\ job'[v] = what
  BY DEF Moves, ShapeInv, Shape
<1>3. \A v \in Users : JobFits(v)'
  BY <1>2 DEF ShapeInv, JobFits
<1>4. InHttp' \subseteq InHttp
  BY <1>2 DEF InHttp, Moves
<1>5. InUdp' \subseteq InUdp
  BY <1>2 DEF InUdp, Moves
<1> QED BY <1>1, <1>3, <1>4, <1>5 DEF ShapeInv, Alone

(* After an attempt of the HTTP client its caller goes on, whatever became of it. *)
LEMMA FinishFacts ==
  ASSUME ShapeInv, NEW u \in Users, NEW from \in {"resolve", "open", "connect", "request"},
         Finish(u, from), job[u] # "udp"
  PROVE  /\ Moves(u, from, AfterJob(u), NextJob(u))
         /\ AfterJob(u) \in {"open", "pause", "over", "idle"}
         /\ NextJob(u) \in {"id", "put", "get"}
BY DEF Finish, Goto, Moves, AfterJob, NextJob, ShapeInv, Shape

(* So do the users remain apart. *)
LEMMA FinishKeepsJobs ==
  ASSUME ShapeInv, NEW u \in Users, NEW from \in {"resolve", "open", "connect", "request"},
         Finish(u, from), job[u] # "udp"
  PROVE  /\ Alone' /\ \A v \in Users : JobFits(v)'
         /\ pc' \in [Users -> Pcs] /\ job' \in [Users -> {"id", "put", "get", "udp"}]
<1>1. /\ Moves(u, from, AfterJob(u), NextJob(u))
      /\ AfterJob(u) \in {"open", "pause", "over", "idle"}
      /\ NextJob(u) \in {"id", "put", "get"}
  BY FinishFacts
<1>2. /\ AfterJob(u) \in Pcs /\ NextJob(u) \in {"id", "put", "get", "udp"}
      /\ AfterJob(u) \notin {"send", "recv"} /\ NextJob(u) # "udp"
  BY <1>1 DEF Pcs
<1> QED BY <1>1, <1>2, MoveKeepsJobs

(* A step that leaves the job as it is. *)
LEMMA GotoKeepsJobs ==
  ASSUME ShapeInv, NEW u \in Users, NEW from \in Pcs \ {"idle", "over"},
         NEW to \in Pcs \ {"over"}, Goto(u, from, to),
         \/ UNCHANGED job
         \/ /\ job[u] # "udp"
            /\ \E what \in {"put", "get"} : job' = [job EXCEPT ![u] = what],
         to \in {"open", "connect", "request", "pause"} => job[u] # "udp",
         to \in {"send", "recv"} => job[u] = "udp"
  PROVE  /\ Alone' /\ \A v \in Users : JobFits(v)'
         /\ pc' \in [Users -> Pcs] /\ job' \in [Users -> {"id", "put", "get", "udp"}]
<1>0. job \in [Users -> {"id", "put", "get", "udp"}]
  BY DEF ShapeInv, Shape
<1>1. CASE UNCHANGED job
  <2>1. Moves(u, from, to, job[u]) /\ job[u] \in {"id", "put", "get", "udp"}
    BY <1>0, <1>1 DEF Goto, Moves
  <2> QED BY <2>1, MoveKeepsJobs
<1>2. ASSUME job[u] # "udp", NEW what \in {"put", "get"}, job' = [job EXCEPT ![u] = what]
      PROVE  /\ Alone' /\ \A v \in Users : JobFits(v)'
             /\ pc' \in [Users -> Pcs] /\ job' \in [Users -> {"id", "put", "get", "udp"}]
  <2>1. Moves(u, from, to, what) /\ what \in {"id", "put", "get", "udp"} /\ what # "udp"
    BY <1>2 DEF Goto, Moves
  <2> QED BY <1>2, <2>1, MoveKeepsJobs
<1> QED BY <1>1, <1>2

(* With SERIAL a user begins only when nobody else uses the same sock. *)
LEMMA BeginKeepsJobs ==
  ASSUME SERIAL, ShapeInv, PressButton2 \/ \E u \in Users : UdpBegins(u)
  PROVE  /\ Alone' /\ \A v \in Users : JobFits(v)'
         /\ pc' \in [Users -> Pcs] /\ job' \in [Users -> {"id", "put", "get", "udp"}]
<1>0. pc \in [Users -> Pcs] /\ job \in [Users -> {"id", "put", "get", "udp"}]
  BY DEF ShapeInv, Shape
<1>1. CASE PressButton2
  <2>1. /\ InHttp = {} /\ pc["button"] = "idle" /\ "button" \in Users
        /\ pc' = [pc EXCEPT !["button"] = "open"] /\ job' = [job EXCEPT !["button"] = "put"]
    BY <1>1 DEF PressButton2, Goto
  <2>2. InHttp' \subseteq {"button"} /\ InUdp' \subseteq InUdp
    BY <1>0, <2>1 DEF InHttp, InUdp
  <2> QED BY <1>0, <2>1, <2>2 DEF ShapeInv, Alone, JobFits, Pcs
<1>2. ASSUME NEW u \in Users, UdpBegins(u)
      PROVE  /\ Alone' /\ \A v \in Users : JobFits(v)'
             /\ pc' \in [Users -> Pcs] /\ job' \in [Users -> {"id", "put", "get", "udp"}]
  <2>1. /\ InUdp = {} /\ pc[u] = "idle" /\ u # "network"
        /\ pc' = [pc EXCEPT ![u] = "resolve"] /\ job' = [job EXCEPT ![u] = "udp"]
    BY <1>2 DEF UdpBegins, Goto
  <2>2. InUdp' \subseteq {u} /\ InHttp' \subseteq InHttp
    BY <1>0, <2>1 DEF InHttp, InUdp
  <2> QED BY <1>0, <2>1, <2>2 DEF ShapeInv, Alone, JobFits, Pcs
<1> QED BY <1>1, <1>2

(* What a step does to the jobs. *)
LEMMA JobsInductive ==
  ASSUME SERIAL, ShapeInv, [Next]_vars
  PROVE  /\ Alone' /\ \A v \in Users : JobFits(v)'
         /\ pc' \in [Users -> Pcs] /\ job' \in [Users -> {"id", "put", "get", "udp"}]
<1> DEFINE Goal == /\ Alone' /\ \A v \in Users : JobFits(v)'
                   /\ pc' \in [Users -> Pcs] /\ job' \in [Users -> {"id", "put", "get", "udp"}]
<1>1. CASE UNCHANGED <<pc, job>>
  BY <1>1 DEF ShapeInv, Shape, Alone, JobFits, InHttp, InUdp
<1>2. CASE HttpResolves
  <2>1. "network" \in Users /\ job["network"] # "udp"
    BY <1>2 DEF HttpResolves, ShapeInv, JobFits
  <2>2. CASE Finish("network", "resolve")
    BY <2>1, <2>2, FinishKeepsJobs
  <2>3. CASE Goto("network", "resolve", "open") /\ UNCHANGED job
    BY <2>1, <2>3, GotoKeepsJobs DEF Pcs
  <2> QED BY <1>2, <2>2, <2>3 DEF HttpResolves
<1>3. ASSUME NEW u \in Users, HttpClient(u) PROVE Goal
  <2>1. pc[u] \in {"open", "connect", "request", "pause"} => job[u] # "udp"
    BY DEF ShapeInv, JobFits
  <2>2. CASE HttpOpenFails(u) \/ HttpConnectFails(u) \/ HttpRequestEnds(u)
    <3>1. \E from \in {"open", "connect", "request"} : Finish(u, from) /\ pc[u] = from
      BY <2>2 DEF HttpOpenFails, HttpConnectFails, HttpRequestEnds, Finish, Goto
    <3> QED BY <2>1, <3>1, FinishKeepsJobs
  <2>3. CASE HttpConnected(u) \/ PauseEnds(u) \/ \E fd \in Fds : HttpOpens(u, fd)
    <3>1. \E from \in {"open", "connect", "pause"}, to \in {"connect", "request", "open"} :
             Goto(u, from, to) /\ pc[u] = from
      BY <2>3 DEF HttpConnected, Requests, PauseEnds, HttpOpens, Goto
    <3>2. UNCHANGED job \/ \E what \in {"put", "get"} : job' = [job EXCEPT ![u] = what]
      BY <2>3 DEF HttpConnected, PauseEnds, HttpOpens
    <3> QED BY <2>1, <3>1, <3>2, GotoKeepsJobs DEF Pcs
  <2>4. CASE HttpCallback(u)
    BY <1>1, <2>4 DEF HttpCallback
  <2> QED BY <1>3, <2>2, <2>3, <2>4 DEF HttpClient
<1>4. ASSUME NEW u \in Users, UdpOpenFails(u) \/ UdpResolveFails(u) \/ \E fd \in Fds : UdpOpens(u, fd) \/ UdpConnectFails(u, fd)
      PROVE  Goal
  <2>1. Goto(u, "resolve", "send") /\ job[u] = "udp" /\ UNCHANGED job
    BY <1>4 DEF UdpOpenFails, UdpResolveFails, UdpOpens, UdpConnectFails, Meets
  <2> QED BY <2>1, GotoKeepsJobs DEF Pcs
<1>5. CASE ButtonSends \/ TwtSends \/ TwtReceives \/ TwtReceiveFails
  <2>1. \E u \in Users, from \in {"send", "recv"}, to \in {"idle", "recv"} :
           Goto(u, from, to) /\ pc[u] = from /\ UNCHANGED job
    BY <1>5 DEF ButtonSends, TwtSends, TwtReceives, TwtReceiveFails, Goto
  <2>2. \A u \in Users : pc[u] \in {"send", "recv"} => job[u] = "udp"
    BY DEF ShapeInv, JobFits
  <2> QED BY <2>1, <2>2, GotoKeepsJobs DEF Pcs
<1>6. CASE ServerOpens \/ ServerCloses \/ UNCHANGED vars
  BY <1>1, <1>6 DEF ServerOpens, ServerCloses, vars
<1> QED BY <1>2, <1>3, <1>4, <1>5, <1>6, BeginKeepsJobs DEF Next, UdpClient

(* What network_socket_connect() has met is one of its failures, or none. *)
LEMMA MetIsFailure ==
  ASSUME met \in [Users -> Failures], [Next]_vars
  PROVE  met' \in [Users -> Failures]
<1>1. \/ UNCHANGED met
      \/ \E u \in Users, f \in Failures : met' = [met EXCEPT ![u] = f]
  BY DEF Failures, Next, ServerOpens, ServerCloses, PressButton2, HttpResolves,
     ButtonSends, TwtSends, Sends, TwtReceives, TwtReceiveFails, HttpClient, UdpClient,
     HttpOpenFails, HttpConnected, HttpConnectFails, HttpCallback, HttpRequestEnds, PauseEnds,
     HttpOpens, UdpBegins, UdpOpenFails, UdpResolveFails, UdpOpens, UdpConnectFails, Meets, vars
<1> QED BY <1>1

(* What a step does to the other types. *)
LEMMA ShapeInductive ==
  ASSUME SERIAL, ShapeInv, [Next]_vars
  PROVE  ShapeInv'
<1>0. /\ fdtab \in [Fds -> Entries] /\ httpSock \in Numbers /\ udpSock \in Numbers
      /\ reqFd \in [Users -> Numbers] /\ callbacks \in [Users -> Nat]
      /\ faults \in [Users -> Nat]
  BY DEF ShapeInv, Shape
<1>1. \A u \in Users, p \in {"tcp", "udp", "unconnected"} : Socket(u, p) \in Entries
  BY UserNames
<1>2. Free \in Entries /\ Socket("server", "tcp") \in Entries
  BY FreeFacts DEF Socket, Entries, Protos, Owners
<1>3. fdtab' \in [Fds -> Entries]
  BY <1>0, <1>1, <1>2 DEF Next, ServerOpens, ServerCloses, PressButton2, HttpResolves,
     ButtonSends, TwtSends, TwtReceives, TwtReceiveFails, HttpClient, UdpClient, HttpOpenFails,
     HttpConnected, HttpConnectFails, HttpCallback, HttpRequestEnds, PauseEnds, HttpOpens,
     UdpBegins, UdpOpenFails, UdpResolveFails, UdpOpens, UdpConnectFails, Meets, Close, vars
<1>4. httpSock' \in Numbers /\ udpSock' \in Numbers
  <2>1. httpSock' \in {httpSock, -1} \cup Fds
    BY DEF Next, ServerOpens, ServerCloses, PressButton2, HttpResolves,
       ButtonSends, TwtSends, TwtReceives, TwtReceiveFails, HttpClient, UdpClient, HttpOpenFails,
       HttpConnected, HttpConnectFails, HttpCallback, HttpRequestEnds, PauseEnds, HttpOpens,
       UdpBegins, UdpOpenFails, UdpResolveFails, UdpOpens, UdpConnectFails, Meets, clientVars, vars
  <2>2. udpSock' \in {udpSock, -1} \cup Fds
    BY DEF Next, ServerOpens, ServerCloses, PressButton2, HttpResolves,
       ButtonSends, TwtSends, TwtReceives, TwtReceiveFails, HttpClient, UdpClient, HttpOpenFails,
       HttpConnected, HttpConnectFails, HttpCallback, HttpRequestEnds, PauseEnds, HttpOpens,
       UdpBegins, UdpOpenFails, UdpResolveFails, UdpOpens, UdpConnectFails, Meets, clientVars, vars
  <2> QED BY <1>0, <2>1, <2>2 DEF Numbers
<1>5. reqFd' \in [Users -> Numbers] /\ callbacks' \in [Users -> Nat]
  <2>1. UNCHANGED reqFd \/ \E u \in Users : reqFd' = [reqFd EXCEPT ![u] = httpSock]
    BY DEF Next, ServerOpens, ServerCloses, PressButton2, HttpResolves,
       ButtonSends, TwtSends, TwtReceives, TwtReceiveFails, HttpClient, UdpClient, HttpOpenFails,
       HttpConnected, Requests, HttpConnectFails, HttpCallback, HttpRequestEnds, PauseEnds,
       HttpOpens, UdpBegins, UdpOpenFails, UdpResolveFails, UdpOpens, UdpConnectFails, Meets, vars
  <2>2. \/ UNCHANGED callbacks
        \/ \E u \in Users : callbacks' = [callbacks EXCEPT ![u] = 0]
        \/ \E u \in Users : callbacks' = [callbacks EXCEPT ![u] = @ + 1]
    BY DEF Next, ServerOpens, ServerCloses, PressButton2, HttpResolves,
       ButtonSends, TwtSends, TwtReceives, TwtReceiveFails, HttpClient, UdpClient, HttpOpenFails,
       HttpConnected, Requests, HttpConnectFails, HttpCallback, FragmentArrives, HttpRequestEnds,
       PauseEnds, HttpOpens, UdpBegins, UdpOpenFails, UdpResolveFails, UdpOpens, UdpConnectFails, Meets, vars
  <2> QED BY <1>0, <2>1, <2>2
<1>6. faults' \in [Users -> Nat]
  <2>1. UNCHANGED faults \/ \E u \in Users : faults' = [faults EXCEPT ![u] = @ + 1]
    BY DEF Next, ServerOpens, ServerCloses, PressButton2, HttpResolves,
       ButtonSends, TwtSends, TwtReceives, TwtReceiveFails, HttpClient, UdpClient, HttpOpenFails,
       HttpConnected, HttpConnectFails, HttpCallback, HttpRequestEnds, PauseEnds, HttpOpens,
       UdpBegins, UdpOpenFails, UdpResolveFails, UdpOpens, UdpConnectFails, Meets, Fault, historyVars, vars
  <2> QED BY <1>0, <2>1
<1>7. met' \in [Users -> Failures]
  BY MetIsFailure DEF ShapeInv, Shape
<1> QED BY <1>3, <1>4, <1>5, <1>6, <1>7, JobsInductive DEF ShapeInv, Shape

--------------------------------------------------------------------------------
(* Sockets left behind. *)

(* The descriptor that a user is using. *)
Current(u) == IF pc[u] \in {"connect", "request"} THEN {httpSock}
              ELSE IF pc[u] \in {"send", "recv"} THEN {udpSock} ELSE {}
Left(u) == Owned(u) \ Current(u)

(* Apart from the one it is using, a user has at most one socket for each of its
   failures; and its request, once answered, has none. *)
Tidy(u) ==
  /\ pc[u] = "request" => reqFd[u] = httpSock /\ (callbacks[u] > 0 => httpSock \notin Owned(u))
  /\ IsFiniteSet(Owned(u)) /\ Cardinality(Left(u)) <= faults[u]

LeakInv == ShapeInv /\ \A u \in Users : Tidy(u)

(* No socket is open at boot. *)
LEMMA InitLeakInv == Init => LeakInv
<1> SUFFICES ASSUME Init PROVE LeakInv
  OBVIOUS
<1>1. ASSUME NEW u \in Users PROVE Tidy(u)
  <2>1. Owned(u) = {} /\ Left(u) = {}
    BY UserNames, FreeFacts DEF Init, Owned, Left
  <2>2. pc[u] # "request" /\ faults[u] = 0
    BY DEF Init
  <2> QED BY <2>1, <2>2, FS_EmptySet DEF Tidy
<1> QED BY <1>1, InitShapeInv DEF LeakInv

(* A set that gains one element at most grows by one at most. *)
LEMMA OneMore ==
  ASSUME NEW S, NEW T, NEW x, IsFiniteSet(S), T \subseteq S \cup {x}
  PROVE  Cardinality(T) \in Nat /\ Cardinality(T) <= Cardinality(S) + 1
<1>1. /\ Cardinality(S) \in Nat /\ IsFiniteSet(S \cup {x})
      /\ Cardinality(S \cup {x}) <= Cardinality(S) + 1
  <2>1. Cardinality(S) \in Nat
    BY FS_CardinalityType
  <2>2. /\ IsFiniteSet(S \cup {x})
        /\ Cardinality(S \cup {x}) = IF x \in S THEN Cardinality(S) ELSE Cardinality(S) + 1
    BY FS_AddElement
  <2> QED BY <2>1, <2>2
<1>2. IsFiniteSet(T) /\ Cardinality(T) <= Cardinality(S \cup {x})
  BY <1>1, FS_Subset
<1>3. Cardinality(T) \in Nat /\ Cardinality(S \cup {x}) \in Nat
  BY <1>1, <1>2, FS_CardinalityType
<1> QED BY <1>1, <1>2, <1>3

(* A set that gains none does not grow. *)
LEMMA NoMore ==
  ASSUME NEW S, NEW T, IsFiniteSet(S), T \subseteq S
  PROVE  Cardinality(T) \in Nat /\ Cardinality(T) <= Cardinality(S) /\ Cardinality(S) \in Nat
BY FS_CardinalityType, FS_Subset

(* What a user opens it owns, and no other does. *)
LEMMA OwnedAfterOpen ==
  ASSUME ShapeInv, NEW fd \in Fds, fdtab[fd] = Free, NEW w, NEW p,
         fdtab' = [fdtab EXCEPT ![fd] = Socket(w, p)]
  PROVE  \A v \in Users : Owned(v)' = IF v = w THEN Owned(v) \cup {fd} ELSE Owned(v)
<1>1. \A f \in Fds : fdtab'[f] = IF f = fd THEN Socket(w, p) ELSE fdtab[f]
  BY DEF ShapeInv, Shape
<1>2. Socket(w, p).by = w
  BY DEF Socket
<1> QED BY <1>1, <1>2, UserNames, FreeFacts DEF Owned

(* What anyone closes nobody owns. *)
LEMMA OwnedAfterClose ==
  ASSUME ShapeInv, NEW w, NEW fd, NEW again, Close(w, fd, again)
  PROVE  \A v \in Users : Owned(v)' = Owned(v) \ {fd}
BY UserNames, FreeFacts DEF Close, Owned

(* A user whom the step of another leaves alone. *)
LEMMA TidyKept ==
  ASSUME ShapeInv, NEW v \in Users, Tidy(v),
         pc'[v] = pc[v], faults'[v] = faults[v], reqFd'[v] = reqFd[v],
         callbacks'[v] = callbacks[v], Owned(v)' \subseteq Owned(v),
         pc[v] \in {"connect", "request"} => httpSock' = httpSock,
         pc[v] \in {"send", "recv"} => udpSock' = udpSock
  PROVE  Tidy(v)'
<1>1. Current(v)' = Current(v)
  BY DEF Current
<1>2. Left(v)' \subseteq Left(v)
  BY <1>1 DEF Left
<1>3. IsFiniteSet(Owned(v)) /\ IsFiniteSet(Left(v)) /\ faults[v] \in Nat
  BY FS_Subset DEF Tidy, Left, ShapeInv, Shape
<1>4. IsFiniteSet(Owned(v)')
  BY <1>3, FS_Subset
<1>5. Cardinality(Left(v)') <= faults[v]
  <2>1. Cardinality(Left(v)') \in Nat /\ Cardinality(Left(v)') <= Cardinality(Left(v))
        /\ Cardinality(Left(v)) \in Nat
    BY <1>2, <1>3, NoMore
  <2>2. Cardinality(Left(v)) <= faults[v]
    BY DEF Tidy
  <2> QED BY <1>3, <2>1, <2>2
<1> QED BY <1>4, <1>5 DEF Tidy

(* A user who moves on, and has lost hold of at most one socket, by a failure. *)
LEMMA TidyAfter ==
  ASSUME ShapeInv, ShapeInv', NEW u \in Users, Tidy(u),
         IsFiniteSet(Owned(u)'),
         \/ Left(u)' \subseteq Left(u) /\ faults[u] <= faults'[u]
         \/ (\E x : Left(u)' \subseteq Left(u) \cup {x}) /\ faults[u] + 1 <= faults'[u],
         pc'[u] = "request" =>
           reqFd'[u] = httpSock' /\ (callbacks'[u] > 0 => httpSock' \notin Owned(u)')
  PROVE  Tidy(u)'
<1>1. IsFiniteSet(Left(u)) /\ faults[u] \in Nat /\ faults'[u] \in Nat
  BY FS_Subset DEF Tidy, Left, ShapeInv, Shape
<1>2. Cardinality(Left(u)) <= faults[u] /\ Cardinality(Left(u)) \in Nat
  BY <1>1, FS_CardinalityType DEF Tidy
<1>3. CASE Left(u)' \subseteq Left(u) /\ faults[u] <= faults'[u]
  <2>1. Cardinality(Left(u)') \in Nat /\ Cardinality(Left(u)') <= Cardinality(Left(u))
    BY <1>1, <1>3, NoMore
  <2> QED BY <1>1, <1>2, <1>3, <2>1 DEF Tidy
<1>4. ASSUME NEW x, Left(u)' \subseteq Left(u) \cup {x}, faults[u] + 1 <= faults'[u]
      PROVE  Tidy(u)'
  <2>1. Cardinality(Left(u)') \in Nat /\ Cardinality(Left(u)') <= Cardinality(Left(u)) + 1
    BY <1>1, <1>4, OneMore
  <2>2. Cardinality(Left(u)') <= faults'[u]
    BY <1>1, <1>2, <1>4, <2>1
  <2> QED BY <2>2 DEF Tidy
<1> QED BY <1>3, <1>4

(* Users of one sock are one. *)
LEMMA OneUser ==
  ASSUME ShapeInv, NEW u \in Users, NEW v \in Users, u # v
  PROVE  /\ pc[u] \in {"open", "connect", "request", "pause"} =>
              pc[v] \notin {"open", "connect", "request", "pause"}
         /\ pc[u] = "resolve" /\ job[u] = "udp" => pc[v] \notin {"send", "recv"}
         /\ pc[u] \in {"send", "recv"} => pc[v] \notin {"send", "recv"}
BY DEF ShapeInv, Alone, InHttp, InUdp, JobFits

(* A step of one user keeps everybody tidy if it keeps that user so: it changes a
   sock only where nobody else relies on it, and gives no other user a socket. *)
LEMMA OneActs ==
  ASSUME ShapeInv, ShapeInv', \A v \in Users : Tidy(v), NEW u \in Users,
         \A v \in Users \ {u} :
           /\ pc'[v] = pc[v] /\ faults'[v] = faults[v] /\ reqFd'[v] = reqFd[v]
           /\ callbacks'[v] = callbacks[v] /\ Owned(v)' \subseteq Owned(v),
         httpSock' = httpSock \/ pc[u] = "open",
         udpSock' = udpSock \/ (pc[u] = "resolve" /\ job[u] = "udp"),
         Tidy(u)'
  PROVE  \A v \in Users : Tidy(v)'
<1> SUFFICES ASSUME NEW v \in Users, v # u PROVE Tidy(v)'
  OBVIOUS
<1>1. pc[v] \in {"connect", "request"} => httpSock' = httpSock
  BY OneUser
<1>2. pc[v] \in {"send", "recv"} => udpSock' = udpSock
  BY OneUser
<1> QED BY <1>1, <1>2, TidyKept

(* The steps of the HTTP client. *)
LEMMA HttpTidy ==
  ASSUME LeakInv, ShapeInv', NEW u \in Users, HttpClient(u)
  PROVE  \A v \in Users : Tidy(v)'
<1>0. ShapeInv /\ (\A v \in Users : Tidy(v)) /\ IsFiniteSet(Owned(u))
  BY DEF LeakInv, Tidy
<1>1. /\ pc \in [Users -> Pcs] /\ reqFd \in [Users -> Numbers] /\ callbacks \in [Users -> Nat]
      /\ faults \in [Users -> Nat]
      /\ pc[u] \in {"open", "connect", "request", "pause"} => job[u] # "udp"
  BY <1>0 DEF ShapeInv, Shape, JobFits
<1>2. ASSUME NEW from \in {"open", "connect", "request"}, Finish(u, from)
      PROVE  /\ pc[u] = from /\ pc' = [pc EXCEPT ![u] = AfterJob(u)]
             /\ AfterJob(u) \in {"open", "pause", "over", "idle"}
             /\ pc'[u] \in {"open", "pause", "over", "idle"}
  <2>1. pc[u] = from
    BY <1>2 DEF Finish, Goto
  <2>2. /\ Moves(u, from, AfterJob(u), NextJob(u))
        /\ AfterJob(u) \in {"open", "pause", "over", "idle"}
    BY <1>0, <1>1, <1>2, <2>1, FinishFacts
  <2> QED BY <1>1, <2>2 DEF Moves
<1>3. CASE HttpOpenFails(u)
  <2>1. /\ pc[u] = "open" /\ pc'[u] \in {"open", "pause", "over", "idle"}
        /\ pc' = [pc EXCEPT ![u] = AfterJob(u)]
        /\ UNCHANGED <<fdtab, udpSock, reqFd, callbacks, faults>>
    BY <1>2, <1>3 DEF HttpOpenFails, historyVars
  <2>2. (\A v \in Users : Owned(v)' = Owned(v)) /\ Left(u)' = Left(u)
    BY <2>1 DEF Owned, Left, Current
  <2>3. Tidy(u)'
    BY <1>0, <1>1, <2>1, <2>2, TidyAfter
  <2> QED BY <1>0, <1>1, <2>1, <2>2, <2>3, OneActs
<1>4. CASE HttpConnected(u)
  <2>1. /\ pc[u] = "connect" /\ pc' = [pc EXCEPT ![u] = "request"]
        /\ reqFd' = [reqFd EXCEPT ![u] = httpSock] /\ callbacks' = [callbacks EXCEPT ![u] = 0]
        /\ UNCHANGED <<fdtab, httpSock, udpSock, faults>>
    BY <1>4 DEF HttpConnected, Requests, Goto, historyVars, clientVars
  <2>2. (\A v \in Users : Owned(v)' = Owned(v)) /\ Left(u)' = Left(u)
    BY <1>1, <2>1 DEF Owned, Left, Current
  <2>3. pc'[u] = "request" /\ reqFd'[u] = httpSock' /\ callbacks'[u] = 0
    BY <1>1, <2>1
  <2>4. Tidy(u)'
    BY <1>0, <1>1, <2>1, <2>2, <2>3, TidyAfter
  <2> QED BY <1>0, <1>1, <2>1, <2>2, <2>4, OneActs
<1>5. CASE HttpConnectFails(u)
  <2>1. /\ pc[u] = "connect" /\ pc'[u] \in {"open", "pause", "over", "idle"}
        /\ pc' = [pc EXCEPT ![u] = AfterJob(u)]
        /\ faults' = [faults EXCEPT ![u] = @ + 1]
        /\ UNCHANGED <<fdtab, httpSock, udpSock, reqFd, callbacks>>
    BY <1>2, <1>5 DEF HttpConnectFails, Fault, clientVars
  <2>2. /\ \A v \in Users : Owned(v)' = Owned(v)
        /\ Left(u)' \subseteq Left(u) \cup {httpSock}
    BY <2>1 DEF Owned, Left, Current
  <2>3. faults[u] + 1 <= faults'[u]
    BY <1>1, <2>1
  <2>4. Tidy(u)'
    BY <1>0, <2>1, <2>2, <2>3, TidyAfter
  <2> QED BY <1>0, <1>1, <2>1, <2>2, <2>4, OneActs
<1>6. CASE HttpCallback(u)
  <2>1. /\ pc[u] = "request" /\ callbacks' = [callbacks EXCEPT ![u] = @ + 1]
        /\ Close(u, httpSock, callbacks[u] > 0)
        /\ UNCHANGED <<httpSock, udpSock, reqFd, faults, pc>>
    BY <1>6 DEF HttpCallback, FragmentArrives
  <2>2. \A v \in Users : Owned(v)' = Owned(v) \ {httpSock}
    BY <1>0, <2>1, OwnedAfterClose
  <2>3. Left(u)' = Left(u)
    BY <2>1, <2>2 DEF Left, Current
  <2>4. /\ reqFd'[u] = httpSock' /\ httpSock' \notin Owned(u)' /\ IsFiniteSet(Owned(u)')
    BY <1>0, <2>1, <2>2, FS_Subset DEF Tidy
  <2>5. Tidy(u)'
    BY <1>0, <1>1, <2>1, <2>3, <2>4, TidyAfter
  <2> QED BY <1>0, <1>1, <2>1, <2>2, <2>5, OneActs
<1>7. CASE HttpRequestEnds(u)
  <2>1. /\ pc[u] = "request" /\ pc'[u] \in {"open", "pause", "over", "idle"}
        /\ pc' = [pc EXCEPT ![u] = AfterJob(u)]
        /\ UNCHANGED <<fdtab, httpSock, udpSock, reqFd, callbacks>>
    BY <1>2, <1>7 DEF HttpRequestEnds
  <2>2. (\A v \in Users : Owned(v)' = Owned(v)) /\ Left(u)' \subseteq Left(u) \cup {httpSock}
    BY <2>1 DEF Owned, Left, Current
  <2>3. CASE callbacks[u] > 0 \/ Refers(reqFd[u]) = Free
    <3>1. UNCHANGED faults
      BY <1>7, <2>3 DEF HttpRequestEnds
    <3>2. httpSock \notin Owned(u)
      <4>1. /\ reqFd[u] = httpSock
            /\ callbacks[u] > 0 => httpSock \notin Owned(u)
        BY <1>0, <2>1 DEF Tidy
      <4>2. Refers(httpSock) = Free => httpSock \notin Owned(u)
        BY UserNames, FreeFacts DEF Owned, Refers
      <4> QED BY <2>3, <4>1, <4>2
    <3>3. Left(u)' \subseteq Left(u)
      BY <2>1, <2>2, <3>2 DEF Left, Current
    <3>4. Tidy(u)'
      BY <1>0, <1>1, <2>1, <2>2, <3>1, <3>3, TidyAfter
    <3> QED BY <1>0, <1>1, <2>1, <2>2, <3>1, <3>4, OneActs
  <2>4. CASE ~(callbacks[u] > 0 \/ Refers(reqFd[u]) = Free)
    <3>1. faults' = [faults EXCEPT ![u] = @ + 1]
      BY <1>7, <2>4 DEF HttpRequestEnds, Fault
    <3>2. faults[u] + 1 <= faults'[u]
      BY <1>1, <3>1
    <3>3. Tidy(u)'
      BY <1>0, <2>1, <2>2, <3>2, TidyAfter
    <3> QED BY <1>0, <1>1, <2>1, <2>2, <3>1, <3>3, OneActs
  <2> QED BY <2>3, <2>4
<1>8. CASE PauseEnds(u)
  <2>1. /\ pc[u] = "pause" /\ pc' = [pc EXCEPT ![u] = "open"]
        /\ UNCHANGED <<fdtab, httpSock, udpSock, reqFd, callbacks, faults>>
    BY <1>8 DEF PauseEnds, Goto, historyVars, clientVars
  <2>2. (\A v \in Users : Owned(v)' = Owned(v)) /\ Left(u)' = Left(u)
    BY <1>1, <2>1 DEF Owned, Left, Current
  <2>3. Tidy(u)'
    BY <1>0, <1>1, <2>1, <2>2, TidyAfter
  <2> QED BY <1>0, <1>1, <2>1, <2>2, <2>3, OneActs
<1>9. ASSUME NEW fd \in Fds, HttpOpens(u, fd) PROVE \A v \in Users : Tidy(v)'
  <2>1. /\ pc[u] = "open" /\ pc' = [pc EXCEPT ![u] = "connect"] /\ httpSock' = fd
        /\ fdtab[fd] = Free /\ fdtab' = [fdtab EXCEPT ![fd] = Socket(u, "tcp")]
        /\ UNCHANGED <<udpSock, reqFd, callbacks, faults>>
    BY <1>9 DEF HttpOpens, IsNext, Goto, historyVars
  <2>2. \A v \in Users : Owned(v)' = IF v = u THEN Owned(v) \cup {fd} ELSE Owned(v)
    BY <1>0, <2>1, OwnedAfterOpen
  <2>3. Left(u)' \subseteq Left(u) /\ IsFiniteSet(Owned(u)')
    BY <1>0, <1>1, <2>1, <2>2, FS_AddElement DEF Left, Current
  <2>4. Tidy(u)'
    BY <1>0, <1>1, <2>1, <2>3, TidyAfter
  <2> QED BY <1>0, <1>1, <2>1, <2>2, <2>4, OneActs
<1> QED BY <1>3, <1>4, <1>5, <1>6, <1>7, <1>8, <1>9 DEF HttpClient

(* The steps of the UDP socket. *)
LEMMA UdpTidy ==
  ASSUME LeakInv, ShapeInv', NEW u \in Users,
         \/ UdpClient(u)
         \/ u = "button" /\ ButtonSends
         \/ u = "twt" /\ (TwtSends \/ TwtReceives \/ TwtReceiveFails)
  PROVE  \A v \in Users : Tidy(v)'
<1>0. ShapeInv /\ (\A v \in Users : Tidy(v)) /\ IsFiniteSet(Owned(u))
  BY DEF LeakInv, Tidy
<1>1. pc \in [Users -> Pcs] /\ faults \in [Users -> Nat]
  BY <1>0 DEF ShapeInv, Shape
<1>2. CASE UdpBegins(u)
  <2>1. /\ pc[u] = "idle" /\ pc' = [pc EXCEPT ![u] = "resolve"]
        /\ UNCHANGED <<fdtab, httpSock, udpSock, reqFd, callbacks, faults>>
    BY <1>2 DEF UdpBegins, Goto, historyVars, clientVars
  <2>2. (\A v \in Users : Owned(v)' = Owned(v)) /\ Left(u)' = Left(u)
    BY <1>1, <2>1 DEF Owned, Left, Current
  <2>3. Tidy(u)'
    BY <1>0, <1>1, <2>1, <2>2, TidyAfter
  <2> QED BY <1>0, <1>1, <2>1, <2>2, <2>3, OneActs
<1>3. CASE UdpOpenFails(u) \/ UdpResolveFails(u)
  <2>1. /\ pc[u] = "resolve" /\ job[u] = "udp" /\ pc' = [pc EXCEPT ![u] = "send"]
        /\ UNCHANGED <<fdtab, httpSock, reqFd, callbacks, faults>>
    BY <1>3 DEF UdpOpenFails, UdpResolveFails, Meets, Goto, historyVars, clientVars
  <2>2. (\A v \in Users : Owned(v)' = Owned(v)) /\ Left(u)' \subseteq Left(u)
    BY <1>1, <2>1 DEF Owned, Left, Current
  <2>3. Tidy(u)'
    BY <1>0, <1>1, <2>1, <2>2, TidyAfter
  <2> QED BY <1>0, <1>1, <2>1, <2>2, <2>3, OneActs
<1>4. ASSUME NEW fd \in Fds, UdpOpens(u, fd) \/ UdpConnectFails(u, fd)
      PROVE  \A v \in Users : Tidy(v)'
  <2>1. /\ pc[u] = "resolve" /\ job[u] = "udp" /\ pc' = [pc EXCEPT ![u] = "send"] /\ udpSock' = fd
        /\ fdtab[fd] = Free /\ \E p : fdtab' = [fdtab EXCEPT ![fd] = Socket(u, p)]
        /\ UNCHANGED <<httpSock, reqFd, callbacks, faults>>
    BY <1>4 DEF UdpOpens, UdpConnectFails, Meets, IsNext, Goto, historyVars, clientVars
  <2>2. \A v \in Users : Owned(v)' = IF v = u THEN Owned(v) \cup {fd} ELSE Owned(v)
    BY <1>0, <2>1, OwnedAfterOpen
  <2>3. Left(u)' \subseteq Left(u) /\ IsFiniteSet(Owned(u)')
    BY <1>0, <1>1, <2>1, <2>2, FS_AddElement DEF Left, Current
  <2>4. Tidy(u)'
    BY <1>0, <1>1, <2>1, <2>3, TidyAfter
  <2> QED BY <1>0, <1>1, <2>1, <2>2, <2>4, OneActs
<1>5. CASE u = "twt" /\ TwtSends
  <2>1. /\ pc[u] = "send" /\ pc' = [pc EXCEPT ![u] = "recv"]
        /\ UNCHANGED <<fdtab, httpSock, udpSock, reqFd, callbacks, faults>>
    BY <1>5 DEF TwtSends, Goto, clientVars
  <2>2. (\A v \in Users : Owned(v)' = Owned(v)) /\ Left(u)' = Left(u)
    BY <1>1, <2>1 DEF Owned, Left, Current
  <2>3. Tidy(u)'
    BY <1>0, <1>1, <2>1, <2>2, TidyAfter
  <2> QED BY <1>0, <1>1, <2>1, <2>2, <2>3, OneActs
<1>6. CASE (u = "button" /\ ButtonSends) \/ (u = "twt" /\ TwtReceives)
  <2>1. /\ pc[u] \in {"send", "recv"} /\ pc' = [pc EXCEPT ![u] = "idle"]
        /\ Close(u, udpSock, FALSE)
        /\ UNCHANGED <<httpSock, udpSock, reqFd, callbacks, faults>>
    BY <1>6 DEF ButtonSends, TwtReceives, Goto, clientVars
  <2>2. \A v \in Users : Owned(v)' = Owned(v) \ {udpSock}
    BY <1>0, <2>1, OwnedAfterClose
  <2>3. Left(u)' \subseteq Left(u) /\ IsFiniteSet(Owned(u)')
    BY <1>0, <1>1, <2>1, <2>2, FS_Subset DEF Left, Current
  <2>4. Tidy(u)'
    BY <1>0, <1>1, <2>1, <2>3, TidyAfter
  <2> QED BY <1>0, <1>1, <2>1, <2>2, <2>4, OneActs
<1>7. CASE u = "twt" /\ TwtReceiveFails
  <2>1. /\ pc[u] = "recv" /\ pc' = [pc EXCEPT ![u] = "idle"]
        /\ UNCHANGED <<fdtab, httpSock, udpSock, reqFd, callbacks>>
    BY <1>7 DEF TwtReceiveFails, Goto, clientVars
  <2>2. /\ \A v \in Users : Owned(v)' = Owned(v)
        /\ Left(u)' \subseteq Left(u) \cup {udpSock}
    BY <2>1 DEF Owned, Left, Current
  <2>3. pc'[u] = "idle"
    BY <1>1, <2>1
  <2>4. CASE Refers(udpSock) = Free
    <3>1. UNCHANGED faults
      BY <1>7, <2>4 DEF TwtReceiveFails
    <3>2. udpSock \notin Owned(u)
      BY <2>4, UserNames, FreeFacts DEF Owned, Refers
    <3>3. Left(u)' \subseteq Left(u)
      BY <2>1, <2>2, <3>2 DEF Left, Current
    <3>4. Tidy(u)'
      BY <1>0, <1>1, <2>1, <2>2, <2>3, <3>1, <3>3, TidyAfter
    <3> QED BY <1>0, <1>1, <2>1, <2>2, <3>1, <3>4, OneActs
  <2>5. CASE Refers(udpSock) # Free
    <3>1. faults' = [faults EXCEPT ![u] = @ + 1]
      BY <1>7, <2>5 DEF TwtReceiveFails, Fault
    <3>2. faults[u] + 1 <= faults'[u]
      BY <1>1, <3>1
    <3>3. Tidy(u)'
      BY <1>0, <2>1, <2>2, <2>3, <3>2, TidyAfter
    <3> QED BY <1>0, <1>1, <2>1, <2>2, <3>1, <3>3, OneActs
  <2> QED BY <2>4, <2>5
<1>8. CASE UdpClient(u)
  BY <1>2, <1>3, <1>4, <1>8 DEF UdpClient
<1> QED BY <1>5, <1>6, <1>7, <1>8

(* The remaining steps: the server's, the button's, and the first of the boot. *)
LEMMA OtherTidy ==
  ASSUME LeakInv, ShapeInv',
         ServerOpens \/ ServerCloses \/ PressButton2 \/ HttpResolves \/ UNCHANGED vars
  PROVE  \A v \in Users : Tidy(v)'
<1>0. ShapeInv /\ \A v \in Users : Tidy(v)
  BY DEF LeakInv
<1>1. pc \in [Users -> Pcs] /\ faults \in [Users -> Nat]
  BY <1>0 DEF ShapeInv, Shape
<1>2. CASE UNCHANGED vars
  <2>1. /\ UNCHANGED <<fdtab, httpSock, udpSock, pc, reqFd, callbacks, faults>>
        /\ \A v \in Users : Owned(v)' = Owned(v)
    BY <1>2 DEF vars, historyVars, clientVars, Owned
  <2> QED BY <1>0, <2>1, TidyKept
<1>3. CASE ServerOpens
  <2>1. /\ \E fd \in Fds : fdtab[fd] = Free /\ fdtab' = [fdtab EXCEPT ![fd] = Socket("server", "tcp")]
        /\ UNCHANGED <<httpSock, udpSock, pc, reqFd, callbacks, faults>>
    BY <1>3 DEF ServerOpens, IsNext, historyVars, clientVars
  <2>2. \A v \in Users : Owned(v)' = Owned(v)
    <3>1. PICK fd \in Fds : /\ fdtab[fd] = Free
                            /\ fdtab' = [fdtab EXCEPT ![fd] = Socket("server", "tcp")]
      BY <2>1
    <3>2. \A v \in Users : Owned(v)' = IF v = "server" THEN Owned(v) \cup {fd} ELSE Owned(v)
      BY <1>0, <3>1, OwnedAfterOpen
    <3> QED BY <3>2, UserNames
  <2> QED BY <1>0, <2>1, <2>2, TidyKept
<1>4. CASE ServerCloses
  <2>1. /\ \E fd \in Fds : fdtab' = [fdtab EXCEPT ![fd] = Free]
        /\ UNCHANGED <<httpSock, udpSock, pc, reqFd, callbacks, faults>>
    BY <1>4 DEF ServerCloses, ServerFds, historyVars, clientVars
  <2>2. \A v \in Users : Owned(v)' \subseteq Owned(v)
    BY <1>0, <2>1, UserNames, FreeFacts DEF Owned, ShapeInv, Shape
  <2> QED BY <1>0, <2>1, <2>2, TidyKept
<1>5. ASSUME NEW u \in Users, NEW from \in {"idle", "resolve"}, pc[u] = from,
             NEW to \in {"open", "pause", "over", "idle"}, pc' = [pc EXCEPT ![u] = to],
             UNCHANGED <<fdtab, httpSock, udpSock, reqFd, callbacks, faults>>
      PROVE  \A v \in Users : Tidy(v)'
  <2>1. (\A v \in Users : Owned(v)' = Owned(v)) /\ Left(u)' = Left(u) /\ pc'[u] # "request"
    BY <1>1, <1>5 DEF Owned, Left, Current
  <2>2. IsFiniteSet(Owned(u)')
    BY <1>0, <2>1 DEF Tidy
  <2>3. Tidy(u)'
    BY <1>0, <1>1, <1>5, <2>1, <2>2, TidyAfter
  <2> QED BY <1>0, <1>1, <1>5, <2>1, <2>3, OneActs
<1>6. CASE PressButton2
  BY <1>5, <1>6 DEF PressButton2, Goto, historyVars, clientVars
<1>7. CASE HttpResolves
  <2>1. "network" \in Users /\ UNCHANGED <<fdtab, httpSock, udpSock, reqFd, callbacks, faults>>
    BY <1>7 DEF HttpResolves, clientVars
  <2>2. CASE Goto("network", "resolve", "open")
    BY <1>5, <2>1, <2>2 DEF Goto
  <2>3. CASE Finish("network", "resolve")
    <3>1. job["network"] # "udp"
      BY <1>0, <2>1 DEF ShapeInv, JobFits
    <3>2. /\ Moves("network", "resolve", AfterJob("network"), NextJob("network"))
          /\ AfterJob("network") \in {"open", "pause", "over", "idle"}
      BY <1>0, <2>1, <2>3, <3>1, FinishFacts
    <3> QED BY <1>5, <2>1, <3>2 DEF Moves
  <2> QED BY <1>7, <2>2, <2>3 DEF HttpResolves
<1> QED BY <1>2, <1>3, <1>4, <1>6, <1>7

(* Everybody stays tidy. *)
LEMMA LeakInvInductive ==
  ASSUME SERIAL, LeakInv, [Next]_vars
  PROVE  LeakInv'
<1>1. ShapeInv'
  BY ShapeInductive DEF LeakInv
<1>2. \A v \in Users : Tidy(v)'
  <2>1. CASE \E u \in Users : HttpClient(u)
    BY <1>1, <2>1, HttpTidy
  <2>2. CASE \E u \in Users : UdpClient(u)
    BY <1>1, <2>2, UdpTidy
  <2>3. CASE ButtonSends
    BY <1>1, <2>3, UdpTidy DEF ButtonSends
  <2>4. CASE TwtSends \/ TwtReceives \/ TwtReceiveFails
    BY <1>1, <2>4, UdpTidy DEF TwtSends, TwtReceives, TwtReceiveFails
  <2>5. CASE ServerOpens \/ ServerCloses \/ PressButton2 \/ HttpResolves \/ UNCHANGED vars
    BY <1>1, <2>5, OtherTidy
  <2> QED BY <2>1, <2>2, <2>3, <2>4, <2>5 DEF Next
<1> QED BY <1>1, <1>2 DEF LeakInv

(* The inductive invariant gives both properties. *)
LEMMA LeakInvImplies == LeakInv => LeaksCounted /\ NothingLeft
<1> SUFFICES ASSUME LeakInv, NEW u \in Users
             PROVE  /\ Cardinality(Owned(u)) <=
                          faults[u] + (IF pc[u] \in {"connect", "request", "send", "recv"} THEN 1 ELSE 0)
                    /\ pc[u] \in {"idle", "over", "pause"} /\ faults[u] = 0 => Owned(u) = {}
  BY DEF LeaksCounted, NothingLeft
<1>1. /\ IsFiniteSet(Owned(u)) /\ IsFiniteSet(Left(u)) /\ Cardinality(Left(u)) <= faults[u]
      /\ faults[u] \in Nat
  BY FS_Subset DEF LeakInv, Tidy, Left, ShapeInv, Shape
<1>2. Cardinality(Left(u)) \in Nat /\ Cardinality(Owned(u)) \in Nat
  BY <1>1, FS_CardinalityType
<1>3. CASE pc[u] \in {"connect", "request", "send", "recv"}
  <2>1. \E x : Owned(u) \subseteq Left(u) \cup {x}
    BY <1>3 DEF Left, Current
  <2>2. Cardinality(Owned(u)) <= Cardinality(Left(u)) + 1
    BY <1>1, <2>1, OneMore
  <2> QED BY <1>1, <1>2, <1>3, <2>2
<1>4. CASE pc[u] \notin {"connect", "request", "send", "recv"}
  <2>1. Left(u) = Owned(u)
    BY <1>4 DEF Left, Current
  <2>2. faults[u] = 0 => Owned(u) = {}
    BY <1>1, <1>2, <2>1, FS_EmptySet
  <2> QED BY <1>1, <1>2, <1>4, <2>1, <2>2
<1> QED BY <1>3, <1>4

(* "Close the socket": while no two users of one sock overlap, a user leaves at most
   one socket behind for each connect, request or recv that failed (the early returns
   of server_connect, network_http.c:555-559, and of handle_wifi_twt_event,
   network_manager.c:531-541), whatever the number of descriptors and attempts. *)
THEOREM EachLeakHasItsFailure == Spec => [](SERIAL => LeaksCounted)
<1> DEFINE Inv == SERIAL => LeakInv
<1>1. Init => Inv
  BY InitLeakInv
<1>2. Inv /\ [Next]_vars => Inv'
  BY LeakInvInductive
<1>3. Inv => (SERIAL => LeaksCounted)
  BY LeakInvImplies
<1> QED BY <1>1, <1>2, <1>3, PTL DEF Spec

(* And one that is done and met no failure has left none. *)
THEOREM DoneMeansClosed == Spec => [](SERIAL => NothingLeft)
<1> DEFINE Inv == SERIAL => LeakInv
<1>1. Init => Inv
  BY InitLeakInv
<1>2. Inv /\ [Next]_vars => Inv'
  BY LeakInvInductive
<1>3. Inv => (SERIAL => NothingLeft)
  BY LeakInvImplies
<1> QED BY <1>1, <1>2, <1>3, PTL DEF Spec
--------------------------------------------------------------------------------
(* Sockets closed, and written into, by the one who opened them. *)

(* What a user is about to use is its own: the socket it connects, or that its
   request waits on for the first fragment; and the one its datagram goes into, as
   far as network_socket_connect() came, unless the name was not resolved. *)
Mine(u) ==
  /\ pc[u] = "connect" \/ (pc[u] = "request" /\ callbacks[u] = 0)
       => httpSock \in Fds /\ fdtab[httpSock] = Socket(u, "tcp")
  /\ pc[u] = "send" =>
       /\ met[u] = "none" => udpSock \in Fds /\ fdtab[udpSock] = Socket(u, "udp")
       /\ met[u] = "connect" => udpSock \in Fds /\ fdtab[udpSock] = Socket(u, "unconnected")
       /\ met[u] = "socket" => udpSock = -1
  /\ pc[u] = "recv" => udpSock = -1 \/ (udpSock \in Fds /\ fdtab[udpSock].by = u)

History ==
  /\ \A c \in closes : c.by = c.of
  /\ \A m \in sends : m.into = Opened(m)

OwnInv == ShapeInv /\ (Stray \/ (History /\ \A u \in Users : Mine(u)))

(* At boot nobody uses a socket. *)
LEMMA InitOwnInv == Init => OwnInv
<1> SUFFICES ASSUME Init PROVE OwnInv
  OBVIOUS
<1>1. History
  BY DEF Init, History
<1>2. \A u \in Users : Mine(u)
  BY DEF Init, Mine
<1> QED BY <1>1, <1>2, InitShapeInv DEF OwnInv

(* Once the trouble began it is on record. *)
LEMMA StrayStays ==
  ASSUME Next
  PROVE  Stray => Stray'
<1>1. closes \subseteq closes' /\ sends \subseteq sends'
  BY DEF Next, ServerOpens, ServerCloses, PressButton2, HttpResolves,
     ButtonSends, TwtSends, Sends, TwtReceives, TwtReceiveFails, HttpClient, UdpClient,
     HttpOpenFails, HttpConnected, HttpConnectFails, HttpCallback, HttpRequestEnds, PauseEnds,
     HttpOpens, UdpBegins, UdpOpenFails, UdpResolveFails, UdpOpens, UdpConnectFails, Meets, Close,
     historyVars
<1> QED BY <1>1 DEF Stray

(* A user whose sockets a step leaves alone. *)
LEMMA MineKept ==
  ASSUME ShapeInv, NEW v \in Users, Mine(v),
         pc'[v] = pc[v], callbacks'[v] = callbacks[v], met'[v] = met[v],
         \A fd \in Fds : fdtab[fd].by = v => fdtab'[fd] = fdtab[fd],
         pc[v] \in {"connect", "request"} => httpSock' = httpSock,
         pc[v] \in {"send", "recv"} => udpSock' = udpSock
  PROVE  Mine(v)'
BY UserNames DEF Mine

(* A step of one user leaves the sockets of the others alone if it closes none of theirs. *)
LEMMA OneUses ==
  ASSUME ShapeInv, \A v \in Users : Mine(v), NEW u \in Users,
         \A v \in Users \ {u} :
           pc'[v] = pc[v] /\ callbacks'[v] = callbacks[v] /\ met'[v] = met[v],
         \A fd \in Fds : fdtab[fd].by \in Users \ {u} => fdtab'[fd] = fdtab[fd],
         httpSock' = httpSock \/ pc[u] = "open",
         udpSock' = udpSock \/ (pc[u] = "resolve" /\ job[u] = "udp"),
         Mine(u)'
  PROVE  \A v \in Users : Mine(v)'
<1> SUFFICES ASSUME NEW v \in Users, v # u PROVE Mine(v)'
  OBVIOUS
<1>1. pc[v] \in {"connect", "request"} => httpSock' = httpSock
  BY OneUser
<1>2. pc[v] \in {"send", "recv"} => udpSock' = udpSock
  BY OneUser
<1> QED BY <1>1, <1>2, MineKept

(* Opening takes a free descriptor. *)
LEMMA OpenKeeps ==
  ASSUME ShapeInv, NEW fd \in Fds, fdtab[fd] = Free, NEW w, NEW p,
         fdtab' = [fdtab EXCEPT ![fd] = Socket(w, p)]
  PROVE  /\ \A f \in Fds : fdtab[f].by \in Users => fdtab'[f] = fdtab[f]
         /\ fdtab'[fd] = Socket(w, p)
BY UserNames, FreeFacts DEF ShapeInv, Shape

(* A close of one's own socket, or a repeated one that went well, closes nobody else's. *)
LEMMA CloseKeeps ==
  ASSUME ShapeInv, NEW u \in Users, NEW fd, NEW again \in BOOLEAN, Close(u, fd, again),
         Refers(fd) = Free \/ Refers(fd).by = u \/ (again /\ ~Stray'),
         \A c \in closes : c.by = c.of
  PROVE  /\ \A f \in Fds : fdtab[f].by \in Users \ {u} => fdtab'[f] = fdtab[f]
         /\ \A c \in closes' : c.by = c.of
<1>1. \A f \in Fds : fdtab'[f] = IF f = fd THEN Free ELSE fdtab[f]
  BY DEF Close
<1>2. Refers(fd) = Free \/ Refers(fd).by = u
  <2>1. ASSUME Refers(fd) # Free, again, ~Stray' PROVE Refers(fd).by = u
    <3>1. [by |-> u, of |-> Refers(fd).by, again |-> again] \in closes'
      BY <2>1 DEF Close
    <3> QED BY <2>1, <3>1 DEF Stray
  <2> QED BY <2>1
<1>3. \A f \in Fds : fdtab[f].by \in Users \ {u} => fdtab'[f] = fdtab[f]
  BY <1>1, <1>2, UserNames, FreeFacts DEF Refers
<1>4. \A c \in closes' : c.by = c.of
  BY <1>2 DEF Close
<1> QED BY <1>3, <1>4

(* The steps of the HTTP client. *)
LEMMA HttpOwns ==
  ASSUME ShapeInv, History, \A v \in Users : Mine(v), ~Stray', NEW u \in Users, HttpClient(u)
  PROVE  History' /\ \A v \in Users : Mine(v)'
<1>1. /\ pc \in [Users -> Pcs] /\ callbacks \in [Users -> Nat]
      /\ pc[u] \in {"open", "connect", "request", "pause"} => job[u] # "udp"
  BY DEF ShapeInv, Shape, JobFits
<1>2. UNCHANGED <<sends, met>>
  BY DEF HttpClient, HttpOpenFails, HttpConnected, HttpConnectFails, HttpCallback,
     HttpRequestEnds, PauseEnds, HttpOpens, historyVars
<1>3. ASSUME UNCHANGED closes PROVE History'
  BY <1>2, <1>3 DEF History
<1>4. CASE HttpOpenFails(u) \/ HttpConnectFails(u) \/ HttpRequestEnds(u)
  <2>1. /\ pc[u] \in {"open", "connect", "request"} /\ Finish(u, pc[u])
        /\ httpSock' = httpSock \/ pc[u] = "open"
        /\ UNCHANGED <<fdtab, udpSock, callbacks, closes>>
    BY <1>4 DEF HttpOpenFails, HttpConnectFails, HttpRequestEnds, Finish, Goto, historyVars, clientVars
  <2>2. /\ pc' = [pc EXCEPT ![u] = AfterJob(u)]
        /\ AfterJob(u) \in {"open", "pause", "over", "idle"}
    BY <1>1, <2>1, FinishFacts DEF Moves
  <2>3. Mine(u)'
    BY <1>1, <2>2 DEF Mine
  <2> QED BY <1>1, <1>2, <1>3, <2>1, <2>2, <2>3, OneUses
<1>5. CASE HttpConnected(u)
  <2>1. /\ pc[u] = "connect" /\ pc' = [pc EXCEPT ![u] = "request"]
        /\ callbacks' = [callbacks EXCEPT ![u] = 0]
        /\ UNCHANGED <<fdtab, httpSock, udpSock, closes>>
    BY <1>5 DEF HttpConnected, Requests, Goto, historyVars, clientVars
  <2>2. Mine(u)'
    BY <1>1, <2>1 DEF Mine
  <2> QED BY <1>1, <1>2, <1>3, <2>1, <2>2, OneUses
<1>6. CASE PauseEnds(u)
  <2>1. /\ pc[u] = "pause" /\ pc' = [pc EXCEPT ![u] = "open"]
        /\ UNCHANGED <<fdtab, httpSock, udpSock, callbacks, closes>>
    BY <1>6 DEF PauseEnds, Goto, historyVars, clientVars
  <2>2. Mine(u)'
    BY <1>1, <2>1 DEF Mine
  <2> QED BY <1>1, <1>2, <1>3, <2>1, <2>2, OneUses
<1>7. ASSUME NEW fd \in Fds, HttpOpens(u, fd) PROVE History' /\ \A v \in Users : Mine(v)'
  <2>1. /\ pc[u] = "open" /\ pc' = [pc EXCEPT ![u] = "connect"] /\ httpSock' = fd
        /\ fdtab[fd] = Free /\ fdtab' = [fdtab EXCEPT ![fd] = Socket(u, "tcp")]
        /\ UNCHANGED <<udpSock, callbacks, closes>>
    BY <1>7 DEF HttpOpens, IsNext, Goto, historyVars
  <2>2. /\ \A f \in Fds : fdtab[f].by \in Users => fdtab'[f] = fdtab[f]
        /\ fdtab'[fd] = Socket(u, "tcp")
    BY <2>1, OpenKeeps
  <2>3. Mine(u)'
    BY <1>1, <2>1, <2>2 DEF Mine
  <2> QED BY <1>1, <1>2, <1>3, <2>1, <2>2, <2>3, OneUses
<1>8. CASE HttpCallback(u)
  <2>1. /\ pc[u] = "request" /\ callbacks' = [callbacks EXCEPT ![u] = @ + 1]
        /\ Close(u, httpSock, callbacks[u] > 0)
        /\ UNCHANGED <<httpSock, udpSock, pc>>
    BY <1>8 DEF HttpCallback, FragmentArrives
  <2>2. Refers(httpSock) = Free \/ Refers(httpSock).by = u \/ (callbacks[u] > 0 /\ ~Stray')
    <3>1. CASE callbacks[u] = 0
      BY <2>1, <3>1, UserNames DEF Mine, Refers
    <3> QED BY <1>1, <3>1
  <2>3. /\ \A f \in Fds : fdtab[f].by \in Users \ {u} => fdtab'[f] = fdtab[f]
        /\ \A c \in closes' : c.by = c.of
    <3>1. (callbacks[u] > 0) \in BOOLEAN
      OBVIOUS
    <3> QED BY <2>1, <2>2, <3>1, CloseKeeps DEF History
  <2>4. Mine(u)'
    BY <1>1, <2>1 DEF Mine
  <2>5. History'
    BY <1>2, <2>3 DEF History
  <2> QED BY <1>1, <1>2, <2>1, <2>3, <2>4, <2>5, OneUses
<1> QED BY <1>4, <1>5, <1>6, <1>7, <1>8 DEF HttpClient

(* The steps of the UDP socket. *)
LEMMA UdpOwns ==
  ASSUME ShapeInv, History, \A v \in Users : Mine(v), ~Stray', NEW u \in Users,
         \/ UdpClient(u)
         \/ u = "button" /\ ButtonSends
         \/ u = "twt" /\ (TwtSends \/ TwtReceives \/ TwtReceiveFails)
  PROVE  History' /\ \A v \in Users : Mine(v)'
<1>1. pc \in [Users -> Pcs] /\ met \in [Users -> Failures]
  BY DEF ShapeInv, Shape
<1>2. UNCHANGED <<callbacks, httpSock>>
  BY DEF UdpClient, UdpBegins, UdpOpenFails, UdpResolveFails, UdpOpens, UdpConnectFails,
     ButtonSends, TwtSends, TwtReceives, TwtReceiveFails, clientVars
<1>3. ASSUME UNCHANGED <<closes, sends>> PROVE History'
  BY <1>3 DEF History, Opened, Socket, Free
<1>4. CASE UdpBegins(u)
  <2>1. /\ pc[u] = "idle" /\ pc' = [pc EXCEPT ![u] = "resolve"]
        /\ UNCHANGED <<fdtab, udpSock, met, closes, sends>>
    BY <1>4 DEF UdpBegins, Goto, historyVars
  <2>2. Mine(u)'
    BY <1>1, <2>1 DEF Mine
  <2> QED BY <1>1, <1>2, <1>3, <2>1, <2>2, OneUses
<1>5. CASE UdpOpenFails(u) \/ UdpResolveFails(u)
  <2>1. /\ pc[u] = "resolve" /\ job[u] = "udp" /\ pc' = [pc EXCEPT ![u] = "send"]
        /\ \/ met' = [met EXCEPT ![u] = "socket"] /\ udpSock' = -1
           \/ met' = [met EXCEPT ![u] = "resolve"] /\ UNCHANGED udpSock
        /\ UNCHANGED <<fdtab, closes, sends>>
    BY <1>5 DEF UdpOpenFails, UdpResolveFails, Meets, Goto, historyVars
  <2>2. Mine(u)'
    BY <1>1, <2>1 DEF Mine
  <2> QED BY <1>1, <1>2, <1>3, <2>1, <2>2, OneUses
<1>6. ASSUME NEW fd \in Fds, UdpOpens(u, fd) \/ UdpConnectFails(u, fd)
      PROVE  History' /\ \A v \in Users : Mine(v)'
  <2>1. PICK f, p : \/ f = "none" /\ p = "udp" /\ UdpOpens(u, fd)
                    \/ f = "connect" /\ p = "unconnected" /\ UdpConnectFails(u, fd)
    BY <1>6
  <2>2. /\ pc[u] = "resolve" /\ job[u] = "udp" /\ pc' = [pc EXCEPT ![u] = "send"] /\ udpSock' = fd
        /\ fdtab[fd] = Free /\ fdtab' = [fdtab EXCEPT ![fd] = Socket(u, p)]
        /\ met' = [met EXCEPT ![u] = f]
        /\ UNCHANGED <<closes, sends>>
    BY <2>1 DEF UdpOpens, UdpConnectFails, Meets, IsNext, Goto, historyVars
  <2>3. /\ \A g \in Fds : fdtab[g].by \in Users => fdtab'[g] = fdtab[g]
        /\ fdtab'[fd] = Socket(u, p)
    BY <2>2, OpenKeeps
  <2>4. pc'[u] = "send" /\ met'[u] = f
    BY <1>1, <2>2
  <2>5. Mine(u)'
    BY <2>1, <2>2, <2>3, <2>4 DEF Mine
  <2> QED BY <1>1, <1>2, <1>3, <2>2, <2>3, <2>5, OneUses
<1>7. ASSUME pc[u] = "send", Sends(u), \A c \in closes' : c.by = c.of
      PROVE  /\ History'
             /\ udpSock = -1 \/ (udpSock \in Fds /\ fdtab[udpSock].by = u)
  <2> DEFINE m == [by |-> u, met |-> met[u], into |-> Refers(udpSock)]
  <2>1. sends' = sends \cup {m}
    BY <1>7 DEF Sends
  <2>2. met[u] \in {"none", "connect", "socket"}
    <3>1. m \in sends' /\ m.met = met[u]
      BY <2>1
    <3>2. met[u] # "resolve"
      BY <3>1 DEF Stray
    <3> QED BY <1>1, <3>2 DEF Failures
  <2>3. m.into = Opened(m)
    BY <1>7, <2>2, FreeFacts DEF Mine, Refers, Opened
  <2>4. \A n \in sends' : n.into = Opened(n)
    BY <2>1, <2>3 DEF History
  <2>5. udpSock = -1 \/ (udpSock \in Fds /\ fdtab[udpSock].by = u)
    BY <1>7, <2>2, UserNames DEF Mine
  <2> QED BY <1>7, <2>2, <2>4, <2>5 DEF History, Opened, Socket, Free
<1>8. CASE u = "twt" /\ TwtSends
  <2>1. /\ pc[u] = "send" /\ pc' = [pc EXCEPT ![u] = "recv"] /\ Sends(u)
        /\ met' = [met EXCEPT ![u] = "none"]
        /\ UNCHANGED <<fdtab, udpSock, closes>>
    BY <1>8 DEF TwtSends, Goto, Sends
  <2>2. History' /\ (udpSock = -1 \/ (udpSock \in Fds /\ fdtab[udpSock].by = u))
    BY <1>7, <2>1 DEF History
  <2>3. Mine(u)'
    BY <1>1, <2>1, <2>2 DEF Mine
  <2> QED BY <1>1, <1>2, <2>1, <2>2, <2>3, OneUses
<1>9. CASE (u = "button" /\ ButtonSends) \/ (u = "twt" /\ TwtReceives)
  <2>1. /\ pc' = [pc EXCEPT ![u] = "idle"]
        /\ Close(u, udpSock, FALSE) /\ UNCHANGED udpSock
        /\ \/ pc[u] = "send" /\ Sends(u) /\ met' = [met EXCEPT ![u] = "none"]
           \/ pc[u] = "recv" /\ UNCHANGED <<sends, met>>
    BY <1>9 DEF ButtonSends, TwtReceives, Goto, Sends
  <2>2. udpSock = -1 \/ (udpSock \in Fds /\ fdtab[udpSock].by = u)
    <3>1. CASE pc[u] = "recv"
      BY <3>1 DEF Mine
    <3>2. CASE pc[u] = "send" /\ Sends(u)
      <4> DEFINE m == [by |-> u, met |-> met[u], into |-> Refers(udpSock)]
      <4>1. m \in sends' /\ m.met = met[u]
        BY <3>2 DEF Sends
      <4>2. met[u] # "resolve"
        BY <4>1 DEF Stray
      <4>3. met[u] \in {"none", "connect", "socket"}
        BY <1>1, <4>2 DEF Failures
      <4> QED BY <3>2, <4>3, UserNames DEF Mine
    <3> QED BY <2>1, <3>1, <3>2
  <2>3. Refers(udpSock) = Free \/ Refers(udpSock).by = u
    BY <2>2, FreeFacts DEF Refers
  <2>4. /\ \A f \in Fds : fdtab[f].by \in Users \ {u} => fdtab'[f] = fdtab[f]
        /\ \A c \in closes' : c.by = c.of
    BY <2>1, <2>3, CloseKeeps DEF History
  <2>5. Mine(u)'
    BY <1>1, <2>1 DEF Mine
  <2>6. History'
    <3>1. CASE pc[u] = "send" /\ Sends(u)
      BY <1>7, <2>4, <3>1
    <3>2. CASE UNCHANGED sends
      BY <2>4, <3>2 DEF History, Opened, Socket, Free
    <3> QED BY <2>1, <3>1, <3>2
  <2> QED BY <1>1, <1>2, <2>1, <2>4, <2>5, <2>6, OneUses
<1>10. CASE u = "twt" /\ TwtReceiveFails
  <2>1. /\ pc[u] = "recv" /\ pc' = [pc EXCEPT ![u] = "idle"]
        /\ UNCHANGED <<fdtab, udpSock, met, closes, sends>>
    BY <1>10 DEF TwtReceiveFails, Goto
  <2>2. Mine(u)'
    BY <1>1, <2>1 DEF Mine
  <2> QED BY <1>1, <1>2, <1>3, <2>1, <2>2, OneUses
<1>11. CASE UdpClient(u)
  BY <1>4, <1>5, <1>6, <1>11 DEF UdpClient
<1> QED BY <1>8, <1>9, <1>10, <1>11

(* The remaining steps: the server's, the button's, and the first of the boot. *)
LEMMA OtherOwns ==
  ASSUME ShapeInv, History, \A v \in Users : Mine(v),
         ServerOpens \/ ServerCloses \/ PressButton2 \/ HttpResolves \/ UNCHANGED vars
  PROVE  History' /\ \A v \in Users : Mine(v)'
<1>1. pc \in [Users -> Pcs]
  BY DEF ShapeInv, Shape
<1>2. UNCHANGED <<httpSock, udpSock, callbacks, met, closes, sends>>
  BY DEF ServerOpens, ServerCloses, PressButton2, HttpResolves, vars, clientVars, historyVars
<1>3. History'
  BY <1>2 DEF History
<1>4. CASE ServerOpens \/ ServerCloses \/ UNCHANGED vars
  <2>1. UNCHANGED pc
    BY <1>4 DEF ServerOpens, ServerCloses, vars
  <2>2. \A fd \in Fds : fdtab[fd].by \in Users => fdtab'[fd] = fdtab[fd]
    <3>1. CASE ServerOpens
      <4>1. PICK new \in Fds : IsNext(new) /\ fdtab' = [fdtab EXCEPT ![new] = Socket("server", "tcp")]
        BY <3>1 DEF ServerOpens
      <4> QED BY <4>1, OpenKeeps DEF IsNext
    <3>2. CASE ServerCloses
      BY <3>2, UserNames DEF ServerCloses, ServerFds, ShapeInv, Shape
    <3> QED BY <1>4, <3>1, <3>2 DEF vars
  <2> QED BY <1>2, <1>3, <2>1, <2>2, MineKept
<1>5. ASSUME NEW u \in Users, NEW to \in {"open", "pause", "over", "idle"}, pc' = [pc EXCEPT ![u] = to],
             UNCHANGED fdtab
      PROVE  History' /\ \A v \in Users : Mine(v)'
  <2>1. Mine(u)'
    BY <1>1, <1>5 DEF Mine
  <2> QED BY <1>1, <1>2, <1>3, <1>5, <2>1, OneUses
<1>6. CASE PressButton2
  BY <1>5, <1>6 DEF PressButton2, Goto
<1>7. CASE HttpResolves
  <2>1. "network" \in Users /\ UNCHANGED fdtab
    BY <1>7 DEF HttpResolves
  <2>2. CASE Goto("network", "resolve", "open")
    BY <1>5, <2>1, <2>2 DEF Goto
  <2>3. CASE Finish("network", "resolve")
    <3>1. job["network"] # "udp"
      BY <2>1 DEF ShapeInv, JobFits
    <3>2. /\ Moves("network", "resolve", AfterJob("network"), NextJob("network"))
          /\ AfterJob("network") \in {"open", "pause", "over", "idle"}
      BY <2>1, <2>3, <3>1, FinishFacts
    <3> QED BY <1>5, <2>1, <3>2 DEF Moves
  <2> QED BY <1>7, <2>2, <2>3 DEF HttpResolves
<1> QED BY <1>4, <1>6, <1>7

(* Sockets stay with those who opened them, until the trouble begins. *)
LEMMA OwnInvInductive ==
  ASSUME SERIAL, OwnInv, [Next]_vars
  PROVE  OwnInv'
<1>1. ShapeInv'
  BY ShapeInductive DEF OwnInv
<1>2. Stray => Stray'
  BY StrayStays DEF vars, historyVars, Stray
<1>3. ASSUME ~Stray' PROVE History' /\ \A v \in Users : Mine(v)'
  <2>0. ShapeInv /\ History /\ \A v \in Users : Mine(v)
    BY <1>2, <1>3 DEF OwnInv
  <2>1. CASE \E u \in Users : HttpClient(u)
    BY <1>3, <2>0, <2>1, HttpOwns
  <2>2. CASE \E u \in Users : UdpClient(u)
    BY <1>3, <2>0, <2>2, UdpOwns
  <2>3. CASE ButtonSends
    BY <1>3, <2>0, <2>3, UdpOwns DEF ButtonSends
  <2>4. CASE TwtSends \/ TwtReceives \/ TwtReceiveFails
    BY <1>3, <2>0, <2>4, UdpOwns DEF TwtSends, TwtReceives, TwtReceiveFails
  <2>5. CASE ServerOpens \/ ServerCloses \/ PressButton2 \/ HttpResolves \/ UNCHANGED vars
    BY <2>0, <2>5, OtherOwns
  <2> QED BY <2>1, <2>2, <2>3, <2>4, <2>5 DEF Next
<1> QED BY <1>1, <1>3 DEF OwnInv

(* "Close the socket" (network_http.c:597): while no two users of one sock overlap,
   every close() takes a socket of the one who calls it, until a failed resolution or
   a second callback of one request has met another's. *)
THEOREM ClosesHitOwn == Spec => [](SERIAL => ClosesOwn)
<1> DEFINE Inv == SERIAL => OwnInv
<1>1. Init => Inv
  BY InitOwnInv
<1>2. Inv /\ [Next]_vars => Inv'
  BY OwnInvInductive
<1>3. Inv => (SERIAL => ClosesOwn)
  BY DEF OwnInv, History, ClosesOwn
<1> QED BY <1>1, <1>2, <1>3, PTL DEF Spec

(* And every send() is on the socket opened for it, which is connected unless connect()
   failed (network_manager.c:365-393 and 511-546). *)
THEOREM MessagesHitOwn == Spec => [](SERIAL => SendsAsOpened)
<1> DEFINE Inv == SERIAL => OwnInv
<1>1. Init => Inv
  BY InitOwnInv
<1>2. Inv /\ [Next]_vars => Inv'
  BY OwnInvInductive
<1>3. Inv => (SERIAL => SendsAsOpened)
  BY DEF OwnInv, History, SendsAsOpened
<1> QED BY <1>1, <1>2, <1>3, PTL DEF Spec

--------------------------------------------------------------------------------
(* Types, whether or not users overlap.  That the counter of PUTs stays within its
   type is the only part that is not plain: a PUT that was begun counts later. *)

Fit(u) ==
  /\ pc[u] \in {"open", "connect", "request", "pause"} => job[u] # "udp"
  /\ pc[u] \in {"send", "recv"} => job[u] = "udp"
  /\ job[u] = "id" => u = "network"
  /\ u = "network" => job[u] # "udp" /\ (pc[u] = "resolve" => job[u] = "id")
  /\ u = "twt" => job[u] = "udp"

(* Whether a user has still to count the PUT of its job. *)
Counts(u) == \/ job[u] = "id"
             \/ job[u] = "put" /\ pc[u] \in {"open", "connect", "request"}
Due(u) == IF u \in Users /\ Counts(u) THEN 1 ELSE 0

(* Every press makes one PUT at most, and the boot makes one. *)
Counted == /\ \A u \in Users : Fit(u)
           /\ counter + Due("network") + Due("button") <= jobs + 1

TypeInv == TypeOK /\ Counted

(* Before the boot, the network thread's PUT is still to come. *)
LEMMA InitTypeInv == Init => TypeInv
<1> SUFFICES ASSUME Init PROVE TypeInv
  OBVIOUS
<1>1. TypeOK
  BY SocketsConstants, FreeFacts DEF Init, TypeOK, Failures
<1>2. \A u \in Users : Fit(u)
  BY DEF Init, Fit
<1>3. counter + Due("network") + Due("button") <= jobs + 1
  BY DEF Init, Due, Counts
<1> QED BY <1>1, <1>2, <1>3 DEF TypeInv, Counted

(* A step of one user after which no more is to be counted than jobs allow. *)
LEMMA OneCounts ==
  ASSUME TypeInv, NEW u \in Users, NEW to \in Pcs, NEW what \in {"id", "put", "get", "udp"},
         pc' = [pc EXCEPT ![u] = to], job' = [job EXCEPT ![u] = what],
         Fit(u)', NEW n \in {0, 1}, NEW k \in {0, 1},
         jobs' = jobs + n, counter' = counter + k,
         k + Due(u)' <= n + Due(u)
  PROVE  Counted' /\ pc' \in [Users -> Pcs] /\ job' \in [Users -> {"id", "put", "get", "udp"}]
<1>1. /\ pc \in [Users -> Pcs] /\ job \in [Users -> {"id", "put", "get", "udp"}]
      /\ counter \in Nat /\ jobs \in Nat /\ u \in {"network", "button", "twt"}
  BY SocketsConstants DEF TypeInv, TypeOK, Pcs
<1>2. pc' \in [Users -> Pcs] /\ job' \in [Users -> {"id", "put", "get", "udp"}]
  BY <1>1
<1>3. \A v \in Users : v # u => pc'[v] = pc[v] /\ job'[v] = job[v]
  BY <1>1
<1>4. \A v \in Users : Fit(v)'
  BY <1>3 DEF TypeInv, Counted, Fit
<1>5. \A v : v # u => Due(v)' = Due(v)
  BY <1>3 DEF Due, Counts
<1>6. Due("network") \in {0, 1} /\ Due("button") \in {0, 1} /\ Due(u) \in {0, 1} /\ Due(u)' \in {0, 1}
  BY DEF Due
<1>7. u = "twt" => Due(u) = 0 /\ Due(u)' = 0
  BY DEF Due, Counts, TypeInv, Counted, Fit
<1>8. counter + Due("network") + Due("button") <= jobs + 1
  BY DEF TypeInv, Counted
<1>9. counter' + Due("network")' + Due("button")' <= jobs' + 1
  <2>1. CASE u = "network"
    <3>1. Due("button")' = Due("button")
      BY <1>5, <2>1
    <3>2. k + Due("network")' <= n + Due("network")
      BY <2>1
    <3> QED BY <1>1, <1>6, <1>8, <2>1, <3>1, <3>2
  <2>2. CASE u = "button"
    <3>1. Due("network")' = Due("network")
      BY <1>5, <2>2
    <3>2. k + Due("button")' <= n + Due("button")
      BY <2>2
    <3> QED BY <1>1, <1>6, <1>8, <2>2, <3>1, <3>2
  <2>3. CASE u = "twt"
    <3>1. Due("network")' = Due("network") /\ Due("button")' = Due("button")
      BY <1>5, <2>3
    <3>2. k <= n
      BY <1>7, <2>3
    <3> QED BY <1>1, <1>6, <1>8, <3>1, <3>2
  <2> QED BY <1>1, <2>1, <2>2, <2>3
<1> QED BY <1>2, <1>4, <1>9 DEF Counted

(* An attempt of the HTTP client ends, and is counted if it was a PUT at its request. *)
LEMMA FinishCounts ==
  ASSUME TypeInv, NEW u \in Users, NEW from \in {"resolve", "open", "connect", "request"},
         Finish(u, from), job[u] # "udp", UNCHANGED jobs,
         \/ UNCHANGED counter
         \/ from = "request" /\ job[u] = "put" /\ counter' = counter + 1
  PROVE  Counted' /\ pc' \in [Users -> Pcs] /\ job' \in [Users -> {"id", "put", "get", "udp"}]
<1>1. /\ pc \in [Users -> Pcs] /\ job \in [Users -> {"id", "put", "get", "udp"}]
      /\ counter \in Nat /\ jobs \in Nat /\ Fit(u)
  BY SocketsConstants DEF TypeInv, TypeOK, Pcs, Counted
<1>2. /\ pc[u] = from /\ pc' = [pc EXCEPT ![u] = AfterJob(u)] /\ job' = [job EXCEPT ![u] = NextJob(u)]
  BY DEF Finish, Goto
<1>3. \/ job[u] = "id" /\ AfterJob(u) = "open" /\ NextJob(u) = "put" /\ u = "network"
      \/ job[u] = "put" /\ AfterJob(u) = "pause" /\ NextJob(u) = "put"
      \/ job[u] = "get" /\ AfterJob(u) \in {"over", "idle"} /\ NextJob(u) = "get"
  BY <1>1 DEF AfterJob, NextJob, Fit
<1>4. pc'[u] = AfterJob(u) /\ job'[u] = NextJob(u)
  BY <1>1, <1>2
<1>5. Fit(u)'
  BY <1>1, <1>3, <1>4 DEF Fit
<1>6. PICK k \in {0, 1} : counter' = counter + k /\ (k = 1 => from = "request" /\ job[u] = "put")
  BY <1>1
<1>7. k + Due(u)' <= 0 + Due(u)
  BY <1>2, <1>3, <1>4, <1>6, <1>1 DEF Due, Counts, Fit
<1>8. AfterJob(u) \in Pcs /\ NextJob(u) \in {"id", "put", "get", "udp"} /\ jobs' = jobs + 0
  BY <1>1, <1>3 DEF Pcs
<1> QED BY <1>2, <1>5, <1>6, <1>7, <1>8, OneCounts

(* A step within an attempt, or of the UDP socket. *)
LEMMA GotoCounts ==
  ASSUME TypeInv, NEW u \in Users, NEW from,
         NEW to \in Pcs, Goto(u, from, to),
         NEW what \in {"id", "put", "get", "udp"}, job' = [job EXCEPT ![u] = what],
         Fit(u)', UNCHANGED <<jobs, counter>>, Due(u)' <= Due(u)
  PROVE  Counted' /\ pc' \in [Users -> Pcs] /\ job' \in [Users -> {"id", "put", "get", "udp"}]
<1>1. jobs' = jobs + 0 /\ counter' = counter + 0 /\ 0 + Due(u)' <= 0 + Due(u)
  <2>1. jobs \in Nat /\ counter \in Nat
    BY SocketsConstants DEF TypeInv, TypeOK
  <2>2. Due(u) \in {0, 1} /\ Due(u)' \in {0, 1}
    BY DEF Due
  <2> QED BY <2>1, <2>2
<1> QED BY <1>1, OneCounts DEF Goto

(* What a step does to the jobs and to what is still to be counted. *)
LEMMA CountsInductive ==
  ASSUME TypeInv, [Next]_vars
  PROVE  Counted' /\ pc' \in [Users -> Pcs] /\ job' \in [Users -> {"id", "put", "get", "udp"}]
<1> DEFINE Goal == /\ Counted'
                   /\ pc' \in [Users -> Pcs] /\ job' \in [Users -> {"id", "put", "get", "udp"}]
<1>0. /\ pc \in [Users -> Pcs] /\ job \in [Users -> {"id", "put", "get", "udp"}]
      /\ counter \in Nat /\ jobs \in Nat /\ \A u \in Users : Fit(u)
  BY SocketsConstants DEF TypeInv, TypeOK, Pcs, Counted
<1>1. ASSUME UNCHANGED <<pc, job, jobs, counter>> PROVE Goal
  BY <1>0, <1>1 DEF TypeInv, Counted, Fit, Due, Counts
<1>2. ASSUME NEW u \in Users, NEW from, NEW to \in Pcs, Goto(u, from, to), UNCHANGED <<job, jobs, counter>>,
             to \in {"connect", "request"} => from \in {"open", "connect"},
             to = "open" => from = "resolve" /\ u = "network",
             to \in {"send", "recv"} => job[u] = "udp",
             to \notin {"pause", "resolve"}
      PROVE  Goal
  <2>1. pc[u] = from /\ pc'[u] = to /\ job'[u] = job[u] /\ job' = [job EXCEPT ![u] = job[u]]
    BY <1>0, <1>2 DEF Goto
  <2>2. Fit(u)'
    BY <1>0, <1>2, <2>1 DEF Fit
  <2>3. Due(u)' <= Due(u)
    BY <1>0, <1>2, <2>1 DEF Due, Counts, Fit
  <2> QED BY <1>0, <1>2, <2>1, <2>2, <2>3, GotoCounts
<1>3. CASE PressButton2
  <2>1. /\ "button" \in Users /\ pc["button"] = "idle"
        /\ pc' = [pc EXCEPT !["button"] = "open"] /\ job' = [job EXCEPT !["button"] = "put"]
        /\ jobs' = jobs + 1 /\ counter' = counter + 0
    BY <1>0, <1>3 DEF PressButton2, Goto, clientVars
  <2>2. Fit("button")'
    BY <1>0, <2>1 DEF Fit
  <2>3. 0 + Due("button")' <= 1 + Due("button")
    BY DEF Due
  <2>4. "open" \in Pcs
    BY DEF Pcs
  <2> QED BY <2>1, <2>2, <2>3, <2>4, OneCounts
<1>4. CASE HttpResolves
  <2>1. "network" \in Users /\ job["network"] # "udp" /\ UNCHANGED <<jobs, counter>>
    BY <1>0, <1>4 DEF HttpResolves, Fit, clientVars
  <2>2. CASE Finish("network", "resolve")
    BY <2>1, <2>2, FinishCounts
  <2>3. CASE Goto("network", "resolve", "open") /\ UNCHANGED job
    BY <1>2, <2>1, <2>3 DEF Pcs
  <2> QED BY <1>4, <2>2, <2>3 DEF HttpResolves
<1>5. ASSUME NEW u \in Users, HttpClient(u) PROVE Goal
  <2>1. pc[u] \in {"open", "connect", "request", "pause"} => job[u] # "udp"
    BY <1>0 DEF Fit
  <2>2. CASE HttpOpenFails(u) \/ HttpConnectFails(u) \/ HttpRequestEnds(u)
    <3>1. \E from \in {"open", "connect", "request"} :
            /\ Finish(u, from) /\ pc[u] = from /\ UNCHANGED jobs
            /\ \/ UNCHANGED counter
               \/ from = "request" /\ job[u] = "put" /\ counter' = counter + 1
      BY <2>2 DEF HttpOpenFails, HttpConnectFails, HttpRequestEnds, Finish, Goto, clientVars
    <3> QED BY <2>1, <3>1, FinishCounts
  <2>3. CASE HttpConnected(u) \/ \E fd \in Fds : HttpOpens(u, fd)
    <3>1. \/ Goto(u, "connect", "request")
          \/ Goto(u, "open", "connect")
      BY <2>3 DEF HttpConnected, Requests, HttpOpens
    <3>2. UNCHANGED <<job, jobs, counter>>
      BY <2>3 DEF HttpConnected, HttpOpens, clientVars
    <3> QED BY <1>2, <3>1, <3>2 DEF Pcs
  <2>4. CASE PauseEnds(u)
    <3>1. /\ Goto(u, "pause", "open") /\ pc[u] = "pause" /\ job[u] # "udp"
          /\ job' = [job EXCEPT ![u] = "get"] /\ UNCHANGED <<jobs, counter>>
      BY <2>1, <2>4 DEF PauseEnds, Goto, clientVars
    <3>2. pc'[u] = "open" /\ job'[u] = "get"
      BY <1>0, <3>1 DEF Goto
    <3>3. Fit(u)'
      BY <1>0, <3>1, <3>2 DEF Fit
    <3>4. Due(u)' <= Due(u)
      BY <3>2 DEF Due, Counts
    <3>5. "open" \in Pcs
      BY DEF Pcs
    <3> QED BY <3>1, <3>3, <3>4, <3>5, GotoCounts
  <2>5. CASE HttpCallback(u)
    BY <1>1, <2>5 DEF HttpCallback
  <2> QED BY <1>5, <2>2, <2>3, <2>4, <2>5 DEF HttpClient
<1>6. ASSUME NEW u \in Users, UdpBegins(u) PROVE Goal
  <2>1. /\ u # "network" /\ pc[u] = "idle" /\ pc' = [pc EXCEPT ![u] = "resolve"]
        /\ job' = [job EXCEPT ![u] = "udp"] /\ jobs' = jobs + 1 /\ counter' = counter + 0
    BY <1>0, <1>6 DEF UdpBegins, Goto, clientVars
  <2>2. Fit(u)'
    BY <1>0, <2>1 DEF Fit
  <2>3. 0 + Due(u)' <= 1 + Due(u)
    BY DEF Due
  <2>4. "resolve" \in Pcs
    BY DEF Pcs
  <2> QED BY <2>1, <2>2, <2>3, <2>4, OneCounts
<1>7. ASSUME NEW u \in Users, UdpOpenFails(u) \/ UdpResolveFails(u) \/ \E fd \in Fds : UdpOpens(u, fd) \/ UdpConnectFails(u, fd)
      PROVE  Goal
  <2>1. Goto(u, "resolve", "send") /\ job[u] = "udp" /\ UNCHANGED <<job, jobs, counter>>
    BY <1>7 DEF UdpOpenFails, UdpResolveFails, UdpOpens, UdpConnectFails, Meets, clientVars
  <2> QED BY <1>2, <2>1 DEF Pcs
<1>8. CASE ButtonSends \/ TwtSends \/ TwtReceives \/ TwtReceiveFails
  <2>1. \E u \in Users, from \in {"send", "recv"}, to \in {"idle", "recv"} :
           Goto(u, from, to) /\ pc[u] = from /\ UNCHANGED <<job, jobs, counter>>
    BY <1>8 DEF ButtonSends, TwtSends, TwtReceives, TwtReceiveFails, Goto, clientVars
  <2>2. \A u \in Users : pc[u] \in {"send", "recv"} => job[u] = "udp"
    BY <1>0 DEF Fit
  <2> QED BY <1>2, <2>1, <2>2 DEF Pcs
<1>9. CASE ServerOpens \/ ServerCloses \/ UNCHANGED vars
  BY <1>1, <1>9 DEF ServerOpens, ServerCloses, vars, clientVars
<1> QED BY <1>3, <1>4, <1>5, <1>6, <1>7, <1>8, <1>9 DEF Next, UdpClient

(* What a step does to the other types. *)
LEMMA TypesInductive ==
  ASSUME TypeInv, [Next]_vars
  PROVE  TypeOK'
<1>0. TypeOK
  BY DEF TypeInv
<1>1. \A u \in Users, p \in {"tcp", "udp", "unconnected"} : Socket(u, p) \in Entries /\ u \in Owners
  BY UserNames
<1>2. Free \in Entries /\ Socket("server", "tcp") \in Entries
  BY FreeFacts DEF Socket, Entries, Protos, Owners
<1>3. \A fd : Refers(fd) \in Entries /\ Refers(fd).by \in Owners
  <2>1. \A e \in Entries : e.by \in Owners
    BY DEF Entries
  <2>2. \A fd : Refers(fd) = Free \/ Refers(fd) \in Entries
    BY <1>0 DEF Refers, TypeOK
  <2> QED BY <1>2, <2>1, <2>2
<1>4. fdtab \in [Fds -> Entries]
  BY <1>0 DEF TypeOK
<1>5. fdtab' \in [Fds -> Entries]
  BY <1>1, <1>2, <1>4 DEF Next, ServerOpens, ServerCloses, PressButton2, HttpResolves,
     ButtonSends, TwtSends, TwtReceives, TwtReceiveFails, HttpClient, UdpClient, HttpOpenFails,
     HttpConnected, HttpConnectFails, HttpCallback, HttpRequestEnds, PauseEnds, HttpOpens,
     UdpBegins, UdpOpenFails, UdpResolveFails, UdpOpens, UdpConnectFails, Meets, Close, vars
<1>6. httpSock' \in Fds \cup {-1, 0} /\ udpSock' \in Fds \cup {-1, 0} /\ started' \in BOOLEAN
  <2>1. httpSock' \in {httpSock, -1} \cup Fds /\ udpSock' \in {udpSock, -1} \cup Fds
    BY DEF Next, ServerOpens, ServerCloses, PressButton2, HttpResolves,
       ButtonSends, TwtSends, TwtReceives, TwtReceiveFails, HttpClient, UdpClient, HttpOpenFails,
       HttpConnected, HttpConnectFails, HttpCallback, HttpRequestEnds, PauseEnds, HttpOpens,
       UdpBegins, UdpOpenFails, UdpResolveFails, UdpOpens, UdpConnectFails, Meets, clientVars, vars
  <2>2. started' = started \/ \E u \in Users : started' = (started \/ (u = "network" /\ job[u] = "get"))
    BY DEF Next, ServerOpens, ServerCloses, PressButton2, HttpResolves,
       ButtonSends, TwtSends, TwtReceives, TwtReceiveFails, HttpClient, UdpClient, HttpOpenFails,
       HttpConnected, HttpConnectFails, HttpCallback, HttpRequestEnds, PauseEnds, HttpOpens,
       UdpBegins, UdpOpenFails, UdpResolveFails, UdpOpens, UdpConnectFails, Meets, Finish, vars
  <2> QED BY <1>0, <2>1, <2>2 DEF TypeOK
<1>7. reqFd' \in [Users -> Fds \cup {-1, 0}] /\ callbacks' \in [Users -> 0..MAX_CALLBACKS]
  <2>1. UNCHANGED reqFd \/ \E u \in Users : reqFd' = [reqFd EXCEPT ![u] = httpSock]
    BY DEF Next, ServerOpens, ServerCloses, PressButton2, HttpResolves,
       ButtonSends, TwtSends, TwtReceives, TwtReceiveFails, HttpClient, UdpClient, HttpOpenFails,
       HttpConnected, Requests, HttpConnectFails, HttpCallback, HttpRequestEnds, PauseEnds,
       HttpOpens, UdpBegins, UdpOpenFails, UdpResolveFails, UdpOpens, UdpConnectFails, Meets, vars
  <2>2. \/ UNCHANGED callbacks
        \/ \E u \in Users : callbacks' = [callbacks EXCEPT ![u] = 0]
        \/ \E u \in Users : callbacks[u] < MAX_CALLBACKS /\ callbacks' = [callbacks EXCEPT ![u] = @ + 1]
    BY DEF Next, ServerOpens, ServerCloses, PressButton2, HttpResolves,
       ButtonSends, TwtSends, TwtReceives, TwtReceiveFails, HttpClient, UdpClient, HttpOpenFails,
       HttpConnected, Requests, HttpConnectFails, HttpCallback, FragmentArrives, HttpRequestEnds,
       PauseEnds, HttpOpens, UdpBegins, UdpOpenFails, UdpResolveFails, UdpOpens, UdpConnectFails, Meets, vars
  <2>3. MAX_CALLBACKS \in Nat /\ reqFd \in [Users -> Fds \cup {-1, 0}]
        /\ callbacks \in [Users -> 0..MAX_CALLBACKS] /\ httpSock \in Fds \cup {-1, 0}
    BY <1>0, SocketsConstants DEF TypeOK
  <2>4. reqFd' \in [Users -> Fds \cup {-1, 0}]
    BY <2>1, <2>3
  <2>5. callbacks' \in [Users -> 0..MAX_CALLBACKS]
    BY <2>2, <2>3
  <2> QED BY <2>4, <2>5
<1>8. faults' \in [Users -> Nat] /\ met' \in [Users -> Failures]
  <2>1. UNCHANGED faults \/ \E u \in Users : faults' = [faults EXCEPT ![u] = @ + 1]
    BY DEF Next, ServerOpens, ServerCloses, PressButton2, HttpResolves,
       ButtonSends, TwtSends, TwtReceives, TwtReceiveFails, HttpClient, UdpClient, HttpOpenFails,
       HttpConnected, HttpConnectFails, HttpCallback, HttpRequestEnds, PauseEnds, HttpOpens,
       UdpBegins, UdpOpenFails, UdpResolveFails, UdpOpens, UdpConnectFails, Meets, Fault, historyVars, vars
  <2>2. met' \in [Users -> Failures]
    BY <1>0, MetIsFailure DEF TypeOK
  <2> QED BY <1>0, <2>1, <2>2 DEF TypeOK
<1>9. /\ closes' \subseteq [by : Owners, of : Owners, again : BOOLEAN]
      /\ sends' \subseteq [by : Owners, met : Failures, into : Entries]
  <2>1. \/ UNCHANGED closes
        \/ \E u \in Users, fd \in Numbers, again \in BOOLEAN : Close(u, fd, again)
    <3>1. httpSock \in Numbers /\ udpSock \in Numbers
      BY <1>0 DEF TypeOK, Numbers
    <3>2. \A u \in Users : (callbacks[u] > 0) \in BOOLEAN
      OBVIOUS
    <3>3. ASSUME NEW u \in Users, HttpCallback(u)
          PROVE  \E fd \in Numbers, again \in BOOLEAN : Close(u, fd, again)
      BY <3>1, <3>2, <3>3, Zenon DEF HttpCallback
    <3>4. ASSUME ButtonSends \/ TwtReceives
          PROVE  \E u \in Users, fd \in Numbers, again \in BOOLEAN : Close(u, fd, again)
      BY <3>1, <3>4 DEF ButtonSends, TwtReceives
    <3>5. \/ UNCHANGED closes
          \/ ButtonSends \/ TwtReceives \/ \E u \in Users : HttpCallback(u)
      BY DEF Next, ServerOpens, ServerCloses, PressButton2, HttpResolves, TwtSends, TwtReceiveFails,
         HttpClient, UdpClient, HttpOpenFails, HttpConnected, HttpConnectFails, HttpRequestEnds,
         PauseEnds, HttpOpens, UdpBegins, UdpOpenFails, UdpResolveFails, UdpOpens, UdpConnectFails, Meets, historyVars, vars
    <3> QED BY <3>3, <3>4, <3>5
  <2>2. UNCHANGED sends \/ \E u \in Users : Sends(u)
    BY DEF Next, ServerOpens, ServerCloses, PressButton2, HttpResolves,
       ButtonSends, TwtSends, TwtReceives, TwtReceiveFails, HttpClient, UdpClient, HttpOpenFails,
       HttpConnected, HttpConnectFails, HttpCallback, HttpRequestEnds, PauseEnds, HttpOpens,
       UdpBegins, UdpOpenFails, UdpResolveFails, UdpOpens, UdpConnectFails, Meets, historyVars, vars
  <2>3. ASSUME NEW u \in Users, NEW fd \in Numbers, NEW again \in BOOLEAN, Close(u, fd, again)
        PROVE  closes' \subseteq [by : Owners, of : Owners, again : BOOLEAN]
    <3>1. [by |-> u, of |-> Refers(fd).by, again |-> again] \in [by : Owners, of : Owners, again : BOOLEAN]
      BY <1>1, <1>3
    <3> QED BY <1>0, <2>3, <3>1 DEF Close, TypeOK
  <2>4. ASSUME NEW u \in Users, Sends(u) PROVE sends' \subseteq [by : Owners, met : Failures, into : Entries]
    <3>1. [by |-> u, met |-> met[u], into |-> Refers(udpSock)]
            \in [by : Owners, met : Failures, into : Entries]
      BY <1>0, <1>1, <1>3 DEF TypeOK
    <3>2. sends \subseteq [by : Owners, met : Failures, into : Entries]
      BY <1>0 DEF TypeOK
    <3> QED BY <2>4, <3>1, <3>2 DEF Sends
  <2>5. /\ closes \subseteq [by : Owners, of : Owners, again : BOOLEAN]
        /\ sends \subseteq [by : Owners, met : Failures, into : Entries]
    BY <1>0 DEF TypeOK
  <2> QED BY <2>1, <2>2, <2>3, <2>4, <2>5
<1>10. jobs' \in 0..MAX_JOBS /\ counter' \in 0..(MAX_JOBS + 1)
  <2>1. jobs \in Nat /\ jobs <= MAX_JOBS /\ MAX_JOBS \in Nat /\ counter \in Nat
    BY <1>0, SocketsConstants DEF TypeOK
  <2>2. UNCHANGED jobs \/ (jobs < MAX_JOBS /\ jobs' = jobs + 1)
    BY DEF Next, ServerOpens, ServerCloses, PressButton2, HttpResolves,
       ButtonSends, TwtSends, TwtReceives, TwtReceiveFails, HttpClient, UdpClient, HttpOpenFails,
       HttpConnected, HttpConnectFails, HttpCallback, HttpRequestEnds, PauseEnds, HttpOpens,
       UdpBegins, UdpOpenFails, UdpResolveFails, UdpOpens, UdpConnectFails, Meets, vars
  <2>3. UNCHANGED counter \/ counter' = counter + 1
    BY DEF Next, ServerOpens, ServerCloses, PressButton2, HttpResolves,
       ButtonSends, TwtSends, TwtReceives, TwtReceiveFails, HttpClient, UdpClient, HttpOpenFails,
       HttpConnected, HttpConnectFails, HttpCallback, HttpRequestEnds, PauseEnds, HttpOpens,
       UdpBegins, UdpOpenFails, UdpResolveFails, UdpOpens, UdpConnectFails, Meets, clientVars, vars
  <2>4. counter' + Due("network")' + Due("button")' <= jobs' + 1
    BY CountsInductive DEF Counted
  <2>5. Due("network")' \in {0, 1} /\ Due("button")' \in {0, 1}
    BY DEF Due
  <2>6. jobs' \in 0..MAX_JOBS
    BY <2>1, <2>2
  <2>7. counter' \in Nat
    BY <2>1, <2>3
  <2> QED BY <2>1, <2>4, <2>5, <2>6, <2>7
<1>11. pc' \in [Users -> Pcs] /\ job' \in [Users -> {"id", "put", "get", "udp"}]
  BY CountsInductive
<1> QED BY <1>5, <1>6, <1>7, <1>8, <1>9, <1>10, <1>11 DEF TypeOK, Pcs

(* Every variable has its type, whether or not users overlap: sock is always a
   descriptor, 0 or -1, and the counter that goes into the PUTs counts no more of them
   than presses and one boot have made. *)
THEOREM TypeCorrect == Spec => []TypeOK
<1>1. TypeInv /\ [Next]_vars => TypeInv'
  BY CountsInductive, TypesInductive DEF TypeInv
<1>2. TypeInv => TypeOK
  BY DEF TypeInv
<1> QED BY <1>1, <1>2, InitTypeInv, PTL DEF Spec
================================================================================
