------------------------- MODULE NetworkManagerProofs --------------------------
(* Theorems about NetworkManager, for every size of the event queue and every
   number of link changes and TWT events. *)
EXTENDS NetworkManager, SequenceTheorems, TLAPS

Events == LinkEvents \cup TwtEvents \cup SleepEvents

(* An event that finds room makes the queue one longer. *)
LEMMA Appended ==
  ASSUME NEW S, NEW q \in Seq(S), NEW e \in S
  PROVE  /\ Append(q, e) \in Seq(S) /\ Append(q, e) # <<>>
         /\ Len(Append(q, e)) = Len(q) + 1
         /\ Append(q, e)[Len(Append(q, e))] = e
         /\ \A i \in 1..Len(q) : Append(q, e)[i] = q[i]
         /\ Append(q, e)[1] = IF q = <<>> THEN e ELSE q[1]
<1>1. Len(q) \in Nat /\ (q = <<>> <=> Len(q) = 0)
  BY EmptySeq, LenProperties
<1> QED
  BY <1>1, AppendProperties

(* The event thread takes the first event. *)
LEMMA Removed ==
  ASSUME NEW S, NEW q \in Seq(S), q # <<>>
  PROVE  /\ Tail(q) \in Seq(S) /\ Head(q) \in S /\ Head(q) = q[1]
         /\ Len(Tail(q)) = Len(q) - 1 /\ Len(q) \in Nat \ {0}
         /\ \A i \in 1..Len(q) - 1 : Tail(q)[i] = q[i + 1]
         /\ Tail(q) = <<>> <=> Len(q) = 1
<1>1. Len(q) \in Nat /\ Len(q) # 0
  BY EmptySeq, LenProperties
<1>2. Tail(q) \in Seq(S) /\ Len(Tail(q)) = Len(q) - 1
  BY <1>1, HeadTailProperties
<1>3. Tail(q) = <<>> <=> Len(Tail(q)) = 0
  BY <1>2, EmptySeq
<1> QED
  BY <1>1, <1>2, <1>3, HeadTailProperties

(* The two connection events differ. *)
LEMMA LinkEventFacts ==
  /\ \A up \in BOOLEAN : LinkEvent(up) \in LinkEvents
  /\ LinkEvent(TRUE).type = "connected" /\ LinkEvent(FALSE).type = "disconnected"
  /\ LinkEvent(TRUE) # LinkEvent(FALSE)
  /\ \A e \in LinkEvents : e.type = "connected" => e = LinkEvent(TRUE)
  /\ \A e \in LinkEvents : e.type = "disconnected" => e = LinkEvent(FALSE)
BY DEF LinkEvents, LinkEvent

--------------------------------------------------------------------------------
(* Types. *)

(* The statically allocated data is well typed, and no event exists yet. *)
LEMMA InitTypeOK == Init => TypeOK
<1> SUFFICES ASSUME Init PROVE TypeOK
  OBVIOUS
<1>1. queue \in Seq(LinkEvents \cup TwtEvents \cup SleepEvents) /\ Len(queue) = 0
  BY EmptySeq DEF Init
<1>2. /\ changes \in 0..MAX_CHANGES /\ twts \in 0..MAX_TWT /\ Len(queue) <= QUEUE_SIZE
      /\ run_app \in 0..1 /\ twt_flow_id \in 0..7
  BY <1>1, NetworkManagerConstants DEF Init
<1> QED
  BY <1>1, <1>2 DEF Init, TypeOK, Labels

(* No event and no step of the network thread spoils a type. *)
LEMMA TypeOKInductive == TypeOK /\ [Next]_vars => TypeOK'
<1> SUFFICES ASSUME TypeOK, [Next]_vars PROVE TypeOK'
  OBVIOUS
<1> USE NetworkManagerConstants
<1>q. queue \in Seq(Events) /\ Len(queue) <= QUEUE_SIZE /\ Len(queue) \in Nat
  BY LenProperties DEF TypeOK, Events
<1>a. ASSUME HasRoom, NEW e \in Events, queue' = Append(queue, e)
      PROVE  queue' \in Seq(Events) /\ Len(queue') <= QUEUE_SIZE
  <2>1. Append(queue, e) \in Seq(Events) /\ Len(Append(queue, e)) = Len(queue) + 1
    BY <1>q, Appended
  <2> QED BY <1>a, <1>q, <2>1 DEF HasRoom
<1>n. ASSUME NEW up \in BOOLEAN, NotifyLink(up)
      PROVE  queue' \in Seq(Events) /\ Len(queue') <= QUEUE_SIZE /\ dropped' \in BOOLEAN
  <2>1. LinkEvent(up) \in Events
    BY LinkEventFacts DEF Events
  <2> QED BY <1>a, <1>n, <1>q, <2>1 DEF NotifyLink, TypeOK
<1>h. ASSUME NEW types, Handles(types)
      PROVE  queue' \in Seq(Events) /\ Len(queue') <= QUEUE_SIZE /\ Head(queue) \in Events
  <2>1. Tail(queue) \in Seq(Events) /\ Len(Tail(queue)) = Len(queue) - 1 /\ Head(queue) \in Events
    BY <1>q, <1>h, Removed DEF Handles
  <2> QED BY <1>h, <1>q, <2>1 DEF Handles
<1>1. CASE LinkChanges
  <2>0. link' = ~link /\ NotifyLink(~link)
    BY <1>1 DEF LinkChanges
  <2>1. (~link) \in BOOLEAN
    BY DEF TypeOK
  <2>2. queue' \in Seq(Events) /\ Len(queue') <= QUEUE_SIZE /\ dropped' \in BOOLEAN
    BY <2>0, <2>1, <1>n
  <2>3. changes' \in 0..MAX_CHANGES
    BY <1>1 DEF LinkChanges, TypeOK
  <2>4. /\ twts' = twts /\ mgmt' = mgmt /\ mgmt_cb' = mgmt_cb /\ twt_mgmt_cb' = twt_mgmt_cb
        /\ wifi_connected' = wifi_connected /\ led1' = led1 /\ run_app' = run_app
        /\ pc' = pc /\ twt_flow_id' = twt_flow_id /\ asked' = asked
    BY <1>1 DEF LinkChanges, handlerVars, registerVars
  <2>5. link' \in BOOLEAN
    BY <2>0, <2>1
  <2> QED BY <2>2, <2>3, <2>4, <2>5 DEF TypeOK, Events
<1>2. ASSUME NEW e \in TwtEvents \cup SleepEvents, TwtHappens(e) PROVE TypeOK'
  <2>1. e \in Events
    BY DEF Events
  <2> QED BY <1>2, <1>a, <1>q, <2>1 DEF TwtHappens, TypeOK, Events, handlerVars, registerVars
<1>3. CASE Unheard
  BY <1>3, <1>h DEF Unheard, TypeOK, Events, handlerVars, registerVars, boardVars
<1>4. CASE HandleConnected
  BY <1>4, <1>h DEF HandleConnected, TypeOK, Events, registerVars, boardVars, Labels
<1>5. CASE HandleDisconnected
  <2>1. pc' \in Labels /\ run_app' \in 0..1
    BY <1>5 DEF HandleDisconnected, ResetSemaphore, TypeOK, Labels
  <2>2. wifi_connected' \in BOOLEAN /\ led1' \in BOOLEAN
    BY <1>5 DEF HandleDisconnected, TypeOK
  <2>3. queue' \in Seq(Events) /\ Len(queue') <= QUEUE_SIZE
    BY <1>5, <1>h DEF HandleDisconnected
  <2> QED BY <1>5, <2>1, <2>2, <2>3 DEF HandleDisconnected, TypeOK, Events, registerVars, boardVars
<1>6. CASE HandleTwt
  <2>1. twt_flow_id' \in 0..7
    <3>1. CASE Head(queue).type = "response"
      <4>1. Head(queue) \in TwtEvents
        BY <1>6, <1>h, <3>1 DEF HandleTwt, Events, LinkEvents, SleepEvents
      <4> QED BY <1>6, <3>1, <4>1 DEF HandleTwt, TwtEvents
    <3> QED BY <1>6, <3>1 DEF HandleTwt, TypeOK
  <2> QED BY <1>6, <1>h, <2>1 DEF HandleTwt, TypeOK, Events, registerVars, boardVars
<1>7. CASE HandleSleepState
  BY <1>7, <1>h DEF HandleSleepState, TypeOK, Events, handlerVars, registerVars, boardVars
<1>8. CASE TwtAnswered
  BY <1>8 DEF TwtAnswered, TypeOK, handlerVars, registerVars, boardVars
<1>9. CASE Boot
  <2>1. CASE ResendStatus
    BY <2>1, <1>n DEF ResendStatus, Goto, TypeOK, Events, handlerVars, registerVars, boardVars, Labels
  <2>2. CASE AddCallback \/ AddTwtCallback \/ ConnectStored \/ RunClient \/ StartServer
    BY <2>2 DEF AddCallback, AddTwtCallback, ConnectStored, RunClient, StartServer, Goto, TypeOK,
                handlerVars, registerVars, boardVars, Labels
  <2>3. CASE TakeRunApp
    BY <2>3 DEF TakeRunApp, Goto, TypeOK, registerVars, boardVars, Labels
  <2>4. CASE SetPowerState \/ SetWakeupMode \/ SetTwt
    BY <2>4 DEF SetPowerState, SetWakeupMode, SetTwt, Asks, Goto, TypeOK,
                handlerVars, registerVars, boardVars, Labels
  <2> QED BY <1>9, <2>1, <2>2, <2>3, <2>4 DEF Boot
<1>10. CASE UNCHANGED vars
  BY <1>10 DEF vars, TypeOK, handlerVars, registerVars, boardVars
<1> QED
  BY <1>1, <1>2, <1>3, <1>4, <1>5, <1>6, <1>7, <1>8, <1>9, <1>10 DEF Next, HandleEvent

(* Every variable keeps its type: the semaphore's count stays 0 or 1, and the
   queue never holds more events than it has room for. *)
THEOREM TypeCorrect == Spec => []TypeOK
BY InitTypeOK, TypeOKInductive, PTL DEF Spec

--------------------------------------------------------------------------------
(* The inductive invariant. *)

(* Nothing has happened when the system boots. *)
LEMMA InitIInv == Init => IInv
<1> SUFFICES ASSUME Init PROVE IInv
  OBVIOUS
<1>1. queue \in Seq(LinkEvents) /\ TypeOK
  BY EmptySeq, InitTypeOK DEF Init
<1> QED
  BY <1>1 DEF Init, IInv, PermitMeansConnected, QuietBoot, QueueTellsLink, Waits,
              PermitTellsConnected, Registered

(* What TwtHappens says of the boot: the network thread is past the TWT request. *)
LEMMA TwtComesLate ==
  ASSUME IInv, "twt" \in asked
  PROVE  pc \notin BeforeTwt /\ ~Waits /\ pc # "resend" /\ pc # "register"
BY DEF IInv, QuietBoot, BeforeTwt, Waits

(* A connection event that the link raises becomes the last of the queue. *)
LEMMA LinkChangesKeepsIInv ==
  ASSUME IInv, TypeOK', LinkChanges
  PROVE  IInv'
<1>1. PermitMeansConnected' /\ PermitTellsConnected' /\ Registered'
  BY DEF IInv, LinkChanges, PermitMeansConnected, PermitTellsConnected, Registered,
         handlerVars, registerVars
<1>2. pc' = pc /\ asked' = asked /\ mgmt' = mgmt /\ mgmt_cb' = mgmt_cb
      /\ wifi_connected' = wifi_connected /\ link' = ~link
  BY DEF LinkChanges, handlerVars, registerVars
<1>3. CASE pc \notin BeforeTwt
  BY <1>1, <1>2, <1>3 DEF IInv, QuietBoot, QueueTellsLink, Waits, BeforeTwt
<1>4. CASE pc \in BeforeTwt
  <2>1. mgmt = "idle" /\ ~dropped /\ queue \in Seq(LinkEvents) /\ "twt" \notin asked
    BY <1>4 DEF IInv, QuietBoot
  <2> DEFINE e == LinkEvent(~link)
  <2>2. queue' = Append(queue, e) /\ dropped' = dropped
    BY <2>1 DEF LinkChanges, NotifyLink
  <2>3. e \in LinkEvents /\ e # LinkEvent(link) /\ e = LinkEvent(link')
    BY <1>2, LinkEventFacts DEF IInv, TypeOK, LinkEvent
  <2> HIDE DEF e
  <2>4. /\ queue' \in Seq(LinkEvents) /\ queue' # <<>> /\ Len(queue') = Len(queue) + 1
        /\ queue'[Len(queue')] = e /\ \A i \in 1..Len(queue) : queue'[i] = queue[i]
        /\ queue'[1] = IF queue = <<>> THEN e ELSE queue[1]
    BY <2>1, <2>2, <2>3, Appended
  <2>5. QuietBoot'
    BY <1>2, <2>1, <2>2, <2>4 DEF QuietBoot
  <2>6. QueueTellsLink'
    <3> SUFFICES ASSUME Waits PROVE
             /\ mgmt_cb' /\ queue' # <<>> /\ queue'[Len(queue')] = LinkEvent(link')
             /\ \A i \in 1..Len(queue') - 1 : queue'[i] # queue'[i + 1]
             /\ pc = "waiting" => queue'[1] = LinkEvent(TRUE)
      BY <1>2, <2>4 DEF QueueTellsLink, Waits
    <3>1. /\ queue # <<>> => queue[Len(queue)] = LinkEvent(link)
          /\ \A i \in 1..Len(queue) - 1 : queue[i] # queue[i + 1]
          /\ queue = <<>> => wifi_connected = link
          /\ pc = "waiting" /\ queue # <<>> => queue[1] = LinkEvent(TRUE)
          /\ mgmt_cb
      BY DEF IInv, QueueTellsLink
    <3>2. Len(queue) \in Nat /\ (queue # <<>> => Len(queue) \in Nat \ {0})
          /\ (queue = <<>> => Len(queue) = 0)
      BY <2>1, EmptySeq, LenProperties
    <3>3. ASSUME NEW i \in 1..Len(queue') - 1 PROVE queue'[i] # queue'[i + 1]
      <4>1. i \in 1..Len(queue) /\ queue'[i] = queue[i] /\ queue # <<>>
        BY <2>4, <3>2, <3>3
      <4>2. CASE i = Len(queue)
        BY <2>3, <2>4, <3>1, <4>1, <4>2
      <4>3. CASE i # Len(queue)
        <5>1. i \in 1..Len(queue) - 1 /\ i + 1 \in 1..Len(queue)
          BY <3>2, <4>1, <4>3
        <5> QED BY <2>4, <3>1, <4>1, <5>1
      <4> QED BY <4>2, <4>3
    <3>4. ASSUME pc = "waiting" PROVE queue'[1] = LinkEvent(TRUE)
      <4>1. CASE queue # <<>>
        BY <2>4, <3>1, <3>4, <4>1
      <4>2. CASE queue = <<>>
        <5>1. wifi_connected = link /\ ~wifi_connected
          BY <3>1, <3>4, <4>2 DEF IInv, PermitMeansConnected
        <5>2. link' = TRUE
          BY <1>2, <5>1
        <5>3. e = LinkEvent(TRUE)
          BY <2>3, <5>2
        <5> QED BY <2>4, <4>2, <5>3
      <4> QED BY <4>1, <4>2
    <3> QED BY <1>2, <2>3, <2>4, <3>1, <3>3, <3>4
  <2> QED BY <1>1, <2>5, <2>6 DEF IInv
<1> QED BY <1>3, <1>4

(* A TWT event comes when the boot no longer depends on the queue. *)
LEMMA TwtHappensKeepsIInv ==
  ASSUME IInv, TypeOK', NEW ev \in TwtEvents \cup SleepEvents, TwtHappens(ev)
  PROVE  IInv'
<1>1. pc \notin BeforeTwt /\ ~Waits
  BY TwtComesLate DEF TwtHappens
<1> QED
  BY <1>1 DEF IInv, TwtHappens, QuietBoot, QueueTellsLink, Waits, PermitMeansConnected,
              PermitTellsConnected, Registered, handlerVars, registerVars

(* What the event thread finds while the network thread is at the semaphore. *)
LEMMA HeadFacts ==
  ASSUME IInv, pc \in BeforeTwt, NEW types, Handles(types)
  PROVE  /\ queue' \in Seq(LinkEvents) /\ Head(queue) \in LinkEvents
         /\ Waits =>
              /\ queue' # <<>> => queue'[Len(queue')] = LinkEvent(link)
              /\ \A i \in 1..Len(queue') - 1 : queue'[i] # queue'[i + 1]
              /\ queue' = <<>> => Head(queue) = LinkEvent(link)
              /\ pc = "waiting" => Head(queue) = LinkEvent(TRUE)
<1>1. queue \in Seq(LinkEvents) /\ queue # <<>> /\ queue' = Tail(queue)
  BY DEF IInv, QuietBoot, Handles
<1>2. /\ queue' \in Seq(LinkEvents) /\ Head(queue) \in LinkEvents /\ Head(queue) = queue[1]
      /\ Len(queue') = Len(queue) - 1 /\ Len(queue) \in Nat \ {0}
      /\ \A i \in 1..Len(queue) - 1 : queue'[i] = queue[i + 1]
      /\ queue' = <<>> <=> Len(queue) = 1
  BY <1>1, Removed
<1>3. SUFFICES ASSUME Waits
      PROVE  /\ queue' # <<>> => queue'[Len(queue')] = LinkEvent(link)
             /\ \A i \in 1..Len(queue') - 1 : queue'[i] # queue'[i + 1]
             /\ queue' = <<>> => Head(queue) = LinkEvent(link)
             /\ pc = "waiting" => Head(queue) = LinkEvent(TRUE)
  BY <1>2
<1>4. /\ queue[Len(queue)] = LinkEvent(link)
      /\ \A i \in 1..Len(queue) - 1 : queue[i] # queue[i + 1]
      /\ pc = "waiting" => queue[1] = LinkEvent(TRUE)
  BY <1>1, <1>3 DEF IInv, QueueTellsLink
<1>5. ASSUME queue' # <<>> PROVE queue'[Len(queue')] = LinkEvent(link)
  <2>1. Len(queue') \in 1..Len(queue) - 1 /\ Len(queue') + 1 = Len(queue)
    BY <1>2, <1>5
  <2> QED BY <1>2, <1>4, <2>1
<1>6. ASSUME NEW i \in 1..Len(queue') - 1 PROVE queue'[i] # queue'[i + 1]
  <2>1. /\ i \in 1..Len(queue) - 1 /\ i + 1 \in 1..Len(queue) - 1
    BY <1>2
  <2>2. queue'[i] = queue[i + 1] /\ queue'[i + 1] = queue[(i + 1) + 1]
    BY <1>2, <2>1
  <2> QED BY <1>4, <2>1, <2>2
<1> QED
  BY <1>2, <1>4, <1>5, <1>6

(* An event that nobody hears was raised before the callback was registered. *)
LEMMA UnheardKeepsIInv ==
  ASSUME IInv, TypeOK', Unheard
  PROVE  IInv'
<1>1. pc = "register" /\ pc' = pc
  BY DEF Unheard, IInv, Registered
<1>2. pc \in BeforeTwt /\ ~Waits
  BY <1>1 DEF BeforeTwt, Waits
<1>3. queue' \in Seq(LinkEvents)
  BY <1>2, HeadFacts DEF Unheard
<1> QED
  BY <1>1, <1>2, <1>3 DEF IInv, Unheard, QuietBoot, QueueTellsLink, Waits, PermitMeansConnected,
     PermitTellsConnected, Registered, handlerVars, registerVars, boardVars

(* A connection gives the permit, or wakes the thread that waits for it. *)
LEMMA HandleConnectedKeepsIInv ==
  ASSUME IInv, TypeOK', HandleConnected
  PROVE  IInv'
<1>1. /\ wifi_connected' = TRUE /\ mgmt_cb' = mgmt_cb /\ mgmt_cb /\ link' = link
      /\ asked' = asked /\ mgmt' = mgmt /\ dropped' = dropped
      /\ Handles({"connected"}) /\ Head(queue).type = "connected"
  BY DEF HandleConnected, registerVars, boardVars, Handles
<1>2. /\ pc = "waiting" => pc' = "power" /\ run_app' = run_app
      /\ pc # "waiting" => pc' = pc /\ run_app' = 1
  BY DEF HandleConnected
<1>3. PermitMeansConnected' /\ PermitTellsConnected' /\ Registered'
  BY <1>1, <1>2 DEF IInv, PermitMeansConnected, PermitTellsConnected, Registered
<1>4. CASE pc \notin BeforeTwt
  BY <1>1, <1>2, <1>3, <1>4 DEF IInv, QuietBoot, QueueTellsLink, Waits, BeforeTwt
<1>5. CASE pc \in BeforeTwt
  <2>1. QuietBoot'
    BY <1>1, <1>2, <1>5, HeadFacts DEF IInv, QuietBoot, BeforeTwt
  <2>2. CASE pc = "take"
    <3>1. Waits /\ pc' = "take"
      BY <1>2, <2>2 DEF Waits
    <3>2. ASSUME queue' = <<>> PROVE wifi_connected' = link'
      <4>1. LinkEvent(link).type = "connected"
        BY <1>1, <1>5, <3>1, <3>2, HeadFacts
      <4>2. link = TRUE
        BY <4>1, LinkEventFacts DEF IInv, TypeOK
      <4> QED BY <1>1, <4>2
    <3>3. QueueTellsLink'
      BY <1>1, <1>5, <3>1, <3>2, HeadFacts DEF QueueTellsLink
    <3> QED BY <1>3, <2>1, <3>3 DEF IInv
  <2>3. CASE pc # "take"
    <3>1. ~Waits'
      BY <1>2, <2>3 DEF Waits
    <3> QED BY <1>3, <2>1, <3>1 DEF IInv, QueueTellsLink
  <2> QED BY <2>2, <2>3
<1> QED BY <1>4, <1>5

(* A thread that waits has a connection at the head of the queue: k_sem_reset
   never wakes it. *)
LEMMA NoResetWhileWaiting ==
  ASSUME IInv, HandleDisconnected
  PROVE  pc # "waiting"
<1> SUFFICES ASSUME pc = "waiting" PROVE FALSE
  OBVIOUS
<1>1. Head(queue) = LinkEvent(TRUE)
  BY HeadFacts DEF HandleDisconnected, BeforeTwt, Waits
<1> QED
  BY <1>1, LinkEventFacts DEF HandleDisconnected, Handles

(* A loss takes the permit back. *)
LEMMA HandleDisconnectedKeepsIInv ==
  ASSUME IInv, TypeOK', HandleDisconnected
  PROVE  IInv'
<1>1. /\ wifi_connected' = FALSE /\ mgmt_cb' = mgmt_cb /\ mgmt_cb /\ link' = link
      /\ asked' = asked /\ mgmt' = mgmt /\ dropped' = dropped
      /\ Handles({"disconnected"}) /\ Head(queue).type = "disconnected"
  BY DEF HandleDisconnected, registerVars, boardVars, Handles
<1>2. pc # "waiting" /\ pc' = pc /\ run_app' = 0
  BY NoResetWhileWaiting DEF HandleDisconnected, ResetSemaphore
<1>3. PermitMeansConnected' /\ PermitTellsConnected' /\ Registered'
  BY <1>1, <1>2 DEF IInv, PermitMeansConnected, PermitTellsConnected, Registered
<1>4. CASE pc \notin BeforeTwt
  BY <1>1, <1>2, <1>3, <1>4 DEF IInv, QuietBoot, QueueTellsLink, Waits, BeforeTwt
<1>5. CASE pc \in BeforeTwt
  <2>1. QuietBoot'
    BY <1>1, <1>2, <1>5, HeadFacts DEF IInv, QuietBoot
  <2>2. CASE pc = "take"
    <3>1. Waits /\ pc' = "take"
      BY <1>2, <2>2 DEF Waits
    <3>2. ASSUME queue' = <<>> PROVE wifi_connected' = link'
      <4>1. LinkEvent(link).type = "disconnected"
        BY <1>1, <1>5, <3>1, <3>2, HeadFacts
      <4>2. link = FALSE
        BY <4>1, LinkEventFacts DEF IInv, TypeOK
      <4> QED BY <1>1, <4>2
    <3>3. QueueTellsLink'
      BY <1>1, <1>5, <3>1, <3>2, HeadFacts DEF QueueTellsLink
    <3> QED BY <1>3, <2>1, <3>3 DEF IInv
  <2>3. CASE pc # "take"
    <3>1. ~Waits'
      BY <1>2, <2>3 DEF Waits
    <3> QED BY <1>3, <2>1, <3>1 DEF IInv, QueueTellsLink
  <2> QED BY <2>2, <2>3
<1> QED BY <1>4, <1>5

(* A TWT event, and the answer to the datagram it makes the board send, come
   after the boot has passed the semaphore. *)
LEMMA TwtHandlersKeepIInv ==
  ASSUME IInv, TypeOK', HandleTwt \/ HandleSleepState \/ TwtAnswered
  PROVE  IInv'
<1>1. pc \notin BeforeTwt
  <2>1. CASE TwtAnswered
    BY <2>1 DEF TwtAnswered, IInv, QuietBoot
  <2>2. ASSUME pc \in BeforeTwt, HandleTwt \/ HandleSleepState PROVE FALSE
    <3>1. Head(queue) \in LinkEvents
      BY <2>2, HeadFacts DEF HandleTwt, HandleSleepState
    <3>2. Head(queue).type \in {"response", "teardown", "awake", "sleeping"}
      BY <2>2 DEF HandleTwt, HandleSleepState, Handles
    <3> QED BY <3>1, <3>2 DEF LinkEvents
  <2> QED BY <2>1, <2>2
<1>2. /\ pc' = pc /\ run_app' = run_app /\ wifi_connected' = wifi_connected
      /\ mgmt_cb' = mgmt_cb
  BY DEF HandleTwt, HandleSleepState, TwtAnswered, handlerVars, registerVars
<1> QED
  BY <1>1, <1>2 DEF IInv, QuietBoot, QueueTellsLink, Waits, BeforeTwt, PermitMeansConnected,
                    PermitTellsConnected, Registered

(* conn_mgr_mon_resend_status puts the link's state into an empty queue. *)
LEMMA ResendStatusKeepsIInv ==
  ASSUME IInv, TypeOK', ResendStatus
  PROVE  IInv'
<1>1. /\ pc = "resend" /\ pc' = "take" /\ EventsFirst /\ NotifyLink(link) /\ link' = link
      /\ asked' = asked /\ mgmt' = mgmt /\ mgmt_cb' = mgmt_cb
      /\ wifi_connected' = wifi_connected /\ run_app' = run_app
  BY DEF ResendStatus, Goto, boardVars, handlerVars, registerVars
<1>2. mgmt = "idle" /\ ~dropped /\ queue \in Seq(LinkEvents) /\ "twt" \notin asked /\ mgmt_cb
  BY <1>1 DEF IInv, QuietBoot, BeforeTwt, Registered
<1>3. queue = <<>> /\ queue' = Append(queue, LinkEvent(link)) /\ dropped' = dropped
  BY <1>1, <1>2 DEF EventsFirst, NotifyLink
<1>4. LinkEvent(link) \in LinkEvents /\ Len(queue) = 0
  BY <1>3, LinkEventFacts, EmptySeq DEF IInv, TypeOK
<1>5. /\ queue' \in Seq(LinkEvents) /\ queue' # <<>> /\ Len(queue') = 1
      /\ queue'[Len(queue')] = LinkEvent(link)
  BY <1>2, <1>3, <1>4, Appended
<1>6. QuietBoot' /\ QueueTellsLink'
  BY <1>1, <1>2, <1>3, <1>5 DEF QuietBoot, QueueTellsLink, Waits
<1>7. PermitMeansConnected' /\ PermitTellsConnected' /\ Registered'
  BY <1>1, <1>2 DEF IInv, PermitMeansConnected, PermitTellsConnected, Registered
<1> QED BY <1>6, <1>7 DEF IInv

(* k_sem_take: without a permit there is no connection, and every event was
   handled. *)
LEMMA TakeRunAppKeepsIInv ==
  ASSUME IInv, TypeOK', TakeRunApp
  PROVE  IInv'
<1>1. /\ pc = "take" /\ EventsFirst /\ run_app' = 0
      /\ run_app = 1 => pc' = "power"
      /\ run_app # 1 => pc' = "waiting"
      /\ link' = link /\ queue' = queue /\ asked' = asked /\ mgmt' = mgmt
      /\ mgmt_cb' = mgmt_cb /\ wifi_connected' = wifi_connected /\ dropped' = dropped
  BY DEF TakeRunApp, Goto, boardVars, registerVars
<1>2. queue = <<>> /\ mgmt_cb
  BY <1>1 DEF IInv, QuietBoot, BeforeTwt, EventsFirst, Registered
<1>3. QuietBoot' /\ Registered'
  BY <1>1, <1>2 DEF IInv, QuietBoot, BeforeTwt, Registered
<1>4. PermitMeansConnected' /\ PermitTellsConnected'
  BY <1>1 DEF IInv, PermitMeansConnected, PermitTellsConnected
<1>5. wifi_connected = link
  BY <1>1, <1>2 DEF IInv, QueueTellsLink, Waits
<1>6. Len(queue) = 0
  BY <1>2, EmptySeq
<1>7. QueueTellsLink'
  BY <1>1, <1>2, <1>5, <1>6 DEF QueueTellsLink
<1> QED BY <1>3, <1>4, <1>7 DEF IInv

(* The other steps of the network thread leave the events alone. *)
LEMMA BootStepsKeepIInv ==
  ASSUME IInv, TypeOK', Boot, ~ResendStatus, ~TakeRunApp
  PROVE  IInv'
<1>1. CASE AddCallback
  BY <1>1 DEF AddCallback, Goto, IInv, QuietBoot, QueueTellsLink, Waits, BeforeTwt,
     PermitMeansConnected, PermitTellsConnected, Registered, boardVars, handlerVars
<1>2. CASE ~AddCallback
  <2>1. /\ UNCHANGED <<link, wifi_connected, run_app, mgmt_cb, queue, mgmt, dropped>>
        /\ pc # "register" /\ pc # "waiting" /\ pc # "take"
        /\ pc' # "register" /\ ~Waits'
    BY <1>2 DEF Boot, AddTwtCallback, ConnectStored, SetPowerState, SetWakeupMode, SetTwt, Asks,
       RunClient, StartServer, Goto, Waits, boardVars, handlerVars, registerVars
  <2>2. pc' \in {"register", "registerTwt", "connect", "resend"} =>
          pc \in {"registerTwt", "connect"}
    BY <1>2 DEF Boot, AddTwtCallback, ConnectStored, SetPowerState, SetWakeupMode, SetTwt, Asks,
       RunClient, StartServer, Goto
  <2>3. pc' \in BeforeTwt => pc \in BeforeTwt /\ ("twt" \in asked' => "twt" \in asked)
    BY <1>2 DEF Boot, AddTwtCallback, ConnectStored, SetPowerState, SetWakeupMode, SetTwt, Asks,
       RunClient, StartServer, Goto, BeforeTwt
  <2>4. QuietBoot'
    BY <2>1, <2>3 DEF IInv, QuietBoot
  <2>5. QueueTellsLink' /\ Registered'
    BY <2>1 DEF IInv, QueueTellsLink, Registered
  <2>6. PermitMeansConnected' /\ PermitTellsConnected'
    BY <2>1, <2>2 DEF IInv, PermitMeansConnected, PermitTellsConnected, Waits
  <2> QED BY <2>4, <2>5, <2>6 DEF IInv
<1> QED BY <1>1, <1>2

(* Every step keeps the inductive invariant. *)
LEMMA IInvInductive == IInv /\ [Next]_vars => IInv'
<1> SUFFICES ASSUME IInv, [Next]_vars PROVE IInv'
  OBVIOUS
<1>1. TypeOK'
  BY TypeOKInductive DEF IInv
<1>2. CASE LinkChanges
  BY <1>1, <1>2, LinkChangesKeepsIInv
<1>3. ASSUME NEW ev \in TwtEvents \cup SleepEvents, TwtHappens(ev) PROVE IInv'
  BY <1>1, <1>3, TwtHappensKeepsIInv
<1>4. CASE HandleEvent \/ TwtAnswered
  BY <1>1, <1>4, UnheardKeepsIInv, HandleConnectedKeepsIInv, HandleDisconnectedKeepsIInv,
     TwtHandlersKeepIInv DEF HandleEvent
<1>5. CASE Boot
  BY <1>1, <1>5, ResendStatusKeepsIInv, TakeRunAppKeepsIInv, BootStepsKeepIInv
<1>6. CASE UNCHANGED vars
  BY <1>1, <1>6 DEF vars, boardVars, handlerVars, registerVars, IInv, QuietBoot,
     QueueTellsLink, Waits, PermitMeansConnected, PermitTellsConnected, Registered
<1> QED BY <1>2, <1>3, <1>4, <1>5, <1>6 DEF Next

--------------------------------------------------------------------------------
(* The handlers' view. *)

(* The last connection event on its way says up, or there is none. *)
LastTells(q, up) ==
  \E i \in 1..Len(q) : /\ q[i] = LinkEvent(up)
                       /\ \A j \in i + 1..Len(q) : q[j] \notin LinkEvents
NoneTells(q) == \A i \in 1..Len(q) : q[i] \notin LinkEvents

(* Once the status was resent and nothing was dropped, the last connection event
   on its way tells what the link is, or else the handlers know it already; and
   the LED shows what they know. *)
ViewInv == /\ led1 = wifi_connected
           /\ Resent /\ ~dropped =>
                LastTells(queue, link) \/ (NoneTells(queue) /\ wifi_connected = link)

(* A connection event at the end of the queue is the last one. *)
LEMMA LinkAppended ==
  ASSUME NEW q \in Seq(Events), NEW up \in BOOLEAN
  PROVE  LastTells(Append(q, LinkEvent(up)), up)
<1> DEFINE r == Append(q, LinkEvent(up))
<1>1. LinkEvent(up) \in Events
  BY LinkEventFacts DEF Events
<1>2. Len(q) \in Nat /\ Len(r) = Len(q) + 1 /\ r[Len(r)] = LinkEvent(up)
  BY <1>1, Appended, LenProperties
<1> HIDE DEF r
<1>3. Len(r) \in 1..Len(r) /\ Len(r) + 1..Len(r) = {}
  BY <1>2
<1>4. LastTells(r, up)
  BY <1>2, <1>3 DEF LastTells
<1> QED BY <1>4 DEF r

(* Any other event at the end of the queue changes nothing. *)
LEMMA OtherAppended ==
  ASSUME NEW q \in Seq(Events), NEW e \in Events, e \notin LinkEvents, NEW up
  PROVE  /\ LastTells(q, up) => LastTells(Append(q, e), up)
         /\ NoneTells(q) => NoneTells(Append(q, e))
<1> DEFINE r == Append(q, e)
<1>1. /\ Len(q) \in Nat /\ Len(r) = Len(q) + 1 /\ r[Len(r)] = e
      /\ \A i \in 1..Len(q) : r[i] = q[i]
  BY Appended, LenProperties
<1> HIDE DEF r
<1>2. ASSUME NEW i \in 1..Len(r), i \notin 1..Len(q) PROVE i = Len(r)
  BY <1>1, <1>2
<1>3. NoneTells(q) => NoneTells(r)
  BY <1>1, <1>2 DEF NoneTells
<1>4. ASSUME LastTells(q, up) PROVE LastTells(r, up)
  <2>1. PICK i \in 1..Len(q) : /\ q[i] = LinkEvent(up)
                               /\ \A j \in i + 1..Len(q) : q[j] \notin LinkEvents
    BY <1>4 DEF LastTells
  <2>2. i \in 1..Len(r) /\ r[i] = LinkEvent(up)
    BY <1>1, <2>1
  <2>3. ASSUME NEW j \in i + 1..Len(r) PROVE r[j] \notin LinkEvents
    <3>1. CASE j \in 1..Len(q)
      BY <1>1, <2>1, <3>1
    <3>2. CASE j \notin 1..Len(q)
      BY <1>1, <1>2, <3>2
    <3> QED BY <3>1, <3>2
  <2> QED BY <2>2, <2>3 DEF LastTells
<1> QED BY <1>3, <1>4 DEF r

(* Taking the first event leaves the last one alone, or is taking the last. *)
LEMMA FirstTaken ==
  ASSUME NEW q \in Seq(Events), q # <<>>, NEW up
  PROVE  /\ LastTells(q, up) =>
              LastTells(Tail(q), up) \/ (NoneTells(Tail(q)) /\ Head(q) = LinkEvent(up))
         /\ NoneTells(q) => NoneTells(Tail(q)) /\ Head(q) \notin LinkEvents
<1> DEFINE r == Tail(q)
<1>1. /\ Len(r) = Len(q) - 1 /\ Len(q) \in Nat \ {0} /\ Head(q) = q[1]
      /\ \A i \in 1..Len(q) - 1 : r[i] = q[i + 1]
  BY Removed
<1> HIDE DEF r
<1>2. \A i \in 1..Len(r) : r[i] = q[i + 1] /\ i + 1 \in 1..Len(q)
  BY <1>1
<1>3. NoneTells(q) => NoneTells(r) /\ Head(q) \notin LinkEvents
  BY <1>1, <1>2 DEF NoneTells
<1>4. ASSUME LastTells(q, up)
      PROVE  LastTells(r, up) \/ (NoneTells(r) /\ Head(q) = LinkEvent(up))
  <2>1. PICK i \in 1..Len(q) : /\ q[i] = LinkEvent(up)
                               /\ \A j \in i + 1..Len(q) : q[j] \notin LinkEvents
    BY <1>4 DEF LastTells
  <2>2. CASE i = 1
    <3>1. ASSUME NEW j \in 1..Len(r) PROVE r[j] \notin LinkEvents
      <4>1. r[j] = q[j + 1] /\ j + 1 \in i + 1..Len(q)
        BY <1>1, <1>2, <2>2
      <4> QED BY <2>1, <4>1
    <3> QED BY <1>1, <2>1, <2>2, <3>1 DEF NoneTells
  <2>3. CASE i # 1
    <3>1. i - 1 \in 1..Len(r) /\ r[i - 1] = LinkEvent(up)
      <4>1. i - 1 \in 1..Len(r) /\ (i - 1) + 1 = i
        BY <1>1, <2>3
      <4> QED BY <1>2, <2>1, <4>1
    <3>2. ASSUME NEW j \in (i - 1) + 1..Len(r) PROVE r[j] \notin LinkEvents
      <4>1. j \in 1..Len(r) /\ j + 1 \in i + 1..Len(q)
        BY <1>1
      <4> QED BY <1>2, <2>1, <4>1
    <3> QED BY <3>1, <3>2 DEF LastTells
  <2> QED BY <2>2, <2>3
<1> QED BY <1>3, <1>4 DEF r

(* Raising a connection event: it is the last one, or it is dropped. *)
LEMMA NotifyTells ==
  ASSUME queue \in Seq(Events), NEW up \in BOOLEAN, NotifyLink(up), ~dropped'
  PROVE  LastTells(queue', up)
BY LinkAppended DEF NotifyLink

(* Every step keeps the view. *)
LEMMA ViewInvInductive == IInv /\ ViewInv /\ [Next]_vars => ViewInv'
<1> SUFFICES ASSUME IInv, ViewInv, [Next]_vars PROVE ViewInv'
  OBVIOUS
<1>q. queue \in Seq(Events) /\ link \in BOOLEAN
  BY DEF IInv, TypeOK, Events
<1>h. ASSUME NEW types, Handles(types)
      PROVE  /\ LastTells(queue, link) =>
                  LastTells(queue', link) \/ (NoneTells(queue') /\ Head(queue) = LinkEvent(link))
             /\ NoneTells(queue) => NoneTells(queue') /\ Head(queue) \notin LinkEvents
             /\ Head(queue).type \in types
  BY <1>q, <1>h, FirstTaken DEF Handles
<1>1. CASE LinkChanges
  <2>1. link' \in BOOLEAN /\ NotifyLink(link')
    BY <1>1, <1>q DEF LinkChanges
  <2>2. ~dropped' => LastTells(queue', link')
    BY <1>q, <2>1, NotifyTells
  <2> QED BY <1>1, <2>2 DEF LinkChanges, ViewInv, handlerVars
<1>2. ASSUME NEW e \in TwtEvents \cup SleepEvents, TwtHappens(e) PROVE ViewInv'
  <2>1. e \in Events /\ e \notin LinkEvents
    BY DEF Events, TwtEvents, SleepEvents, LinkEvents
  <2>2. queue' = Append(queue, e) \/ queue' = queue
    BY <1>2 DEF TwtHappens
  <2>3. /\ LastTells(queue, link) => LastTells(queue', link)
        /\ NoneTells(queue) => NoneTells(queue')
    BY <1>q, <2>1, <2>2, OtherAppended
  <2> QED BY <1>2, <2>3 DEF TwtHappens, ViewInv, handlerVars, Resent
<1>3. CASE Unheard
  <2>1. pc = "register" /\ pc' = pc
    BY <1>3 DEF Unheard, IInv, Registered
  <2> QED BY <1>3, <2>1 DEF Unheard, ViewInv, Resent, handlerVars
<1>4. CASE HandleConnected
  <2>1. Head(queue).type = "connected" /\ wifi_connected' = TRUE /\ led1' = TRUE
    BY <1>4, <1>h DEF HandleConnected
  <2>2. Resent' = Resent /\ dropped' = dropped /\ link' = link
    BY <1>4 DEF HandleConnected, Resent, boardVars
  <2>3. queue # <<>> /\ Head(queue) \in Events
    BY <1>4, <1>q, Removed DEF HandleConnected, Handles
  <2>4. Head(queue) \in LinkEvents
    BY <2>1, <2>3 DEF Events, TwtEvents, SleepEvents, LinkEvents
  <2>5. Head(queue) = LinkEvent(link) => link = TRUE
    BY <1>q, <2>1, LinkEventFacts
  <2>6. ASSUME Resent, ~dropped
        PROVE  LastTells(queue', link) \/ (NoneTells(queue') /\ link = TRUE)
    BY <1>4, <1>h, <2>4, <2>5, <2>6 DEF HandleConnected, ViewInv
  <2> QED BY <2>1, <2>2, <2>6 DEF ViewInv
<1>5. CASE HandleDisconnected
  <2>1. Head(queue).type = "disconnected" /\ wifi_connected' = FALSE /\ led1' = FALSE
    BY <1>5, <1>h DEF HandleDisconnected, ViewInv, IInv, TypeOK
  <2>2. Resent' = Resent /\ dropped' = dropped /\ link' = link
    BY <1>5 DEF HandleDisconnected, ResetSemaphore, Resent, boardVars
  <2>3. queue # <<>> /\ Head(queue) \in Events
    BY <1>5, <1>q, Removed DEF HandleDisconnected, Handles
  <2>4. Head(queue) \in LinkEvents
    BY <2>1, <2>3 DEF Events, TwtEvents, SleepEvents, LinkEvents
  <2>5. Head(queue) = LinkEvent(link) => link = FALSE
    BY <1>q, <2>1, LinkEventFacts
  <2>6. ASSUME Resent, ~dropped
        PROVE  LastTells(queue', link) \/ (NoneTells(queue') /\ link = FALSE)
    BY <1>5, <1>h, <2>4, <2>5, <2>6 DEF HandleDisconnected, ViewInv
  <2> QED BY <2>1, <2>2, <2>6 DEF ViewInv
<1>6. CASE HandleTwt \/ HandleSleepState
  <2>1. /\ LastTells(queue, link) =>
             LastTells(queue', link) \/ (NoneTells(queue') /\ Head(queue) = LinkEvent(link))
        /\ NoneTells(queue) => NoneTells(queue')
        /\ Head(queue).type \in {"response", "teardown", "awake", "sleeping"}
    BY <1>6, <1>h DEF HandleTwt, HandleSleepState
  <2>2. Head(queue) # LinkEvent(link)
    BY <1>q, <2>1, LinkEventFacts
  <2>3. /\ wifi_connected' = wifi_connected /\ led1' = led1 /\ link' = link
        /\ pc' = pc /\ dropped' = dropped
    BY <1>6 DEF HandleTwt, HandleSleepState, handlerVars, boardVars
  <2> QED BY <2>1, <2>2, <2>3 DEF ViewInv, Resent
<1>7. CASE ResendStatus
  <2>1. ~dropped' => LastTells(queue', link)
    BY <1>7, <1>q, NotifyTells DEF ResendStatus
  <2> QED BY <1>7, <2>1 DEF ResendStatus, ViewInv, handlerVars, boardVars
<1>8. CASE (Boot /\ ~ResendStatus) \/ TwtAnswered \/ UNCHANGED vars
  <2>1. /\ wifi_connected' = wifi_connected /\ led1' = led1 /\ link' = link
        /\ queue' = queue /\ dropped' = dropped /\ (Resent' => Resent)
    BY <1>8 DEF Boot, AddCallback, AddTwtCallback, ConnectStored, TakeRunApp, SetPowerState,
       SetWakeupMode, SetTwt, Asks, RunClient, StartServer, Goto, Resent, TwtAnswered,
       vars, handlerVars, boardVars
  <2> QED BY <2>1 DEF ViewInv
<1> QED BY <1>1, <1>2, <1>3, <1>4, <1>5, <1>6, <1>7, <1>8 DEF Next, HandleEvent

--------------------------------------------------------------------------------
(* The theorems. *)

(* The conjunction that every step keeps; the queue tells what the link has done. *)
THEOREM InductiveInvariant == Spec => []IInv
BY InitIInv, IInvInductive, PTL DEF Spec

(* A permit in run_app stands for a connection, and a thread that waits in
   k_sem_take (line 711) has missed none. *)
THEOREM PermitIsHonest == Spec => []PermitMeansConnected
<1>1. IInv => PermitMeansConnected
  BY DEF IInv
<1> QED BY <1>1, InductiveInvariant, PTL

(* Once the status was resent (line 709), and unless an event was dropped, a
   queue without events means that wifi_connected and the LED (lines 122-140)
   agree with the link. *)
THEOREM HandlersKnowTheLink == Spec => []ViewAgrees
<1>1. Init => ViewInv
  BY DEF Init, ViewInv, Resent
<1>2. Spec => []ViewInv
  BY <1>1, ViewInvInductive, InductiveInvariant, PTL DEF Spec
<1>3. ViewInv => ViewAgrees
  <2> SUFFICES ASSUME ViewInv, Resent, queue = <<>>, ~dropped
               PROVE  wifi_connected = link /\ led1 = link
    BY DEF ViewAgrees
  <2>1. 1..Len(queue) = {}
    OBVIOUS
  <2> QED BY <2>1 DEF ViewInv, LastTells
<1> QED BY <1>2, <1>3, PTL

(* The boot passes k_sem_take (line 711) only while the network is connected:
   k_sem_reset (line 135) never ends the wait. *)
THEOREM BootWaitsForNetwork == Spec => StartsConnected
<1> DEFINE Passes == Waits /\ ~Waits' => wifi_connected'
<1>1. IInv /\ [Next]_vars => Passes
  <2> SUFFICES ASSUME IInv, [Next]_vars, Waits, ~Waits' PROVE wifi_connected'
    OBVIOUS
  <2>1. pc' # pc
    BY DEF Waits
  <2>2. CASE HandleConnected
    BY <2>2 DEF HandleConnected
  <2>3. CASE HandleDisconnected
    <3>1. pc # "waiting"
      BY <2>3, NoResetWhileWaiting
    <3> QED BY <2>1, <2>3, <3>1 DEF HandleDisconnected, ResetSemaphore
  <2>4. CASE TakeRunApp
    <3>1. run_app = 1 /\ wifi_connected' = wifi_connected
      BY <2>4 DEF TakeRunApp, Goto, Waits
    <3> QED BY <3>1 DEF IInv, PermitMeansConnected
  <2>5. CASE Boot /\ ~TakeRunApp
    BY <2>5 DEF Boot, AddCallback, AddTwtCallback, ConnectStored, ResendStatus, SetPowerState,
       SetWakeupMode, SetTwt, Asks, RunClient, StartServer, Goto, Waits
  <2>6. pc' = pc \/ HandleConnected \/ HandleDisconnected \/ Boot
    BY DEF Next, HandleEvent, LinkChanges, TwtAnswered, TwtHappens, Unheard, HandleTwt,
       HandleSleepState, vars
  <2> QED BY <2>1, <2>2, <2>3, <2>4, <2>5, <2>6
<1>2. Spec => [][Passes]_vars
  BY <1>1, InductiveInvariant, PTL DEF Spec
<1> QED BY <1>2 DEF StartsConnected
================================================================================
