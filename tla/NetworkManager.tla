---------------------------- MODULE NetworkManager -----------------------------
(***************************************************************************)
(* Bringing the network up (application/network_manager.c).  The network   *)
(* thread registers its event handlers, asks for the stored Wi-Fi network, *)
(* waits on the semaphore run_app, and then asks for power saving and TWT, *)
(* runs the HTTP client and starts the HTTP server.  Connection events and *)
(* TWT events pass through one bounded queue to the network-event thread,  *)
(* which runs net_mgmt_event_handler and twt_mgmt_event_handler.           *)
(*                                                                         *)
(* The event thread is cooperative and the network thread, priority 6, is  *)
(* not: a queued event is handled before the network thread takes its next *)
(* step, unless the event thread itself waits, which it does in the recv() *)
(* of the TWT handler.  Who raises an event waits 5 s for room in the      *)
(* queue and then drops it (NET_MGMT_EVENT_QUEUE_TIMEOUT, prj.conf:68).    *)
(***************************************************************************)
EXTENDS Integers, Sequences

CONSTANTS
  QUEUE_SIZE,    (* events that the queue holds                              *)
  FlowIds,       (* TWT flow IDs that an access point answers with           *)
  MAX_CHANGES,   (* bound: changes of the link                               *)
  MAX_TWT        (* bound: TWT events                                        *)

ASSUME NetworkManagerConstants ==
  /\ QUEUE_SIZE \in Nat \ {0} /\ MAX_CHANGES \in Nat /\ MAX_TWT \in Nat
  /\ FlowIds \subseteq 0..7

VARIABLES
  link,            (* the connection manager considers the network connected *)
  queue,           (* events on their way to the event thread                *)
  mgmt,            (* the event thread: "idle", or "recv" in the TWT handler *)
  mgmt_cb,         (* net_mgmt_event_handler is registered                   *)
  twt_mgmt_cb,     (* twt_mgmt_event_handler is registered                   *)
  wifi_connected,
  led1,            (* DK_LED1 as this file has set it                        *)
  run_app,         (* the semaphore's count                                  *)
  pc,              (* what the network thread does next                      *)
  twt_flow_id,
  asked,           (* what the Wi-Fi driver was asked for and agreed to      *)
  changes, twts,   (* link changes and TWT events so far                     *)
  dropped          (* a connection event found no room in the queue          *)

boardVars == <<link, changes, twts>>
handlerVars == <<wifi_connected, led1, run_app, twt_flow_id>>
registerVars == <<mgmt_cb, twt_mgmt_cb>>
vars == <<boardVars, handlerVars, registerVars, queue, mgmt, pc, asked, dropped>>

LinkEvents == {[type |-> "connected"], [type |-> "disconnected"]}
TwtEvents == [type : {"response", "teardown"}, flow_id : FlowIds]
SleepEvents == {[type |-> "awake"], [type |-> "sleeping"]}

Labels == {"register", "registerTwt", "connect", "resend", "take", "waiting", "power",
           "wakeup", "twt", "client", "server", "over"}

TypeOK ==
  /\ link \in BOOLEAN /\ changes \in 0..MAX_CHANGES /\ twts \in 0..MAX_TWT
  /\ queue \in Seq(LinkEvents \cup TwtEvents \cup SleepEvents) /\ Len(queue) <= QUEUE_SIZE
  /\ mgmt \in {"idle", "recv"}
  /\ mgmt_cb \in BOOLEAN /\ twt_mgmt_cb \in BOOLEAN
  /\ wifi_connected \in BOOLEAN /\ led1 \in BOOLEAN /\ run_app \in 0..1
  /\ pc \in Labels /\ twt_flow_id \in 0..7
  /\ asked \subseteq {"power", "wakeup", "twt"} /\ dropped \in BOOLEAN

Init ==
  /\ link = FALSE /\ changes = 0 /\ twts = 0
  /\ queue = <<>> /\ mgmt = "idle"
  /\ mgmt_cb = FALSE /\ twt_mgmt_cb = FALSE
  /\ wifi_connected = FALSE /\ led1 = FALSE /\ run_app = 0
  /\ pc = "register" /\ twt_flow_id = 1
  /\ asked = {} /\ dropped = FALSE

--------------------------------------------------------------------------------
(* Raising events. *)

HasRoom == Len(queue) < QUEUE_SIZE
LinkEvent(up) == IF up THEN [type |-> "connected"] ELSE [type |-> "disconnected"]

(* A connection event waits for room, and is dropped only while the event
   thread does not come back. *)
NotifyLink(up) ==
  \/ HasRoom /\ queue' = Append(queue, LinkEvent(up)) /\ UNCHANGED dropped
  \/ ~HasRoom /\ mgmt = "recv" /\ dropped' = TRUE /\ UNCHANGED queue

LinkChanges ==
  /\ changes < MAX_CHANGES
  /\ link' = ~link /\ changes' = changes + 1
  /\ NotifyLink(~link)
  /\ UNCHANGED <<twts, handlerVars, registerVars, mgmt, pc, asked>>

(* The Wi-Fi driver raises TWT events once it has agreed to the TWT request. *)
TwtHappens(e) ==
  /\ "twt" \in asked /\ twts < MAX_TWT
  /\ twts' = twts + 1
  /\ queue' = IF HasRoom THEN Append(queue, e) ELSE queue
  /\ HasRoom \/ mgmt = "recv"
  /\ UNCHANGED <<link, changes, handlerVars, registerVars, mgmt, pc, asked, dropped>>

--------------------------------------------------------------------------------
(* The event thread. *)

Handles(types) ==
  /\ mgmt = "idle" /\ queue # <<>> /\ Head(queue).type \in types
  /\ queue' = Tail(queue)

(* An event whose handler is not registered yet has no effect.  TWT events come
   only after their handler is registered. *)
Unheard ==
  /\ Handles({"connected", "disconnected"}) /\ ~mgmt_cb
  /\ UNCHANGED <<boardVars, handlerVars, registerVars, mgmt, pc, asked, dropped>>

(* Mutant of HandleConnected: the semaphore has no limit. *)
ConnectedCounts ==
  /\ Handles({"connected"}) /\ mgmt_cb
  /\ wifi_connected' = TRUE /\ led1' = TRUE
  /\ IF pc = "waiting" THEN pc' = "power" /\ UNCHANGED run_app
                       ELSE run_app' = run_app + 1 /\ UNCHANGED pc
  /\ UNCHANGED <<boardVars, registerVars, twt_flow_id, mgmt, asked, dropped>>

(* k_sem_give: a waiting network thread gets the permit *)
HandleConnected ==
  /\ Handles({"connected"}) /\ mgmt_cb
  /\ wifi_connected' = TRUE /\ led1' = TRUE
  /\ IF pc = "waiting" THEN pc' = "power" /\ UNCHANGED run_app
                       ELSE run_app' = 1 /\ UNCHANGED pc
  /\ UNCHANGED <<boardVars, registerVars, twt_flow_id, mgmt, asked, dropped>>

(* k_sem_reset: a waiting network thread returns from k_sem_take with -EAGAIN,
   which it does not look at *)
ResetSemaphore == /\ run_app' = 0
                  /\ pc' = IF pc = "waiting" THEN "power" ELSE pc

(* Mutant of HandleDisconnected: the permit is left in the semaphore. *)
DisconnectedKeepsPermit ==
  /\ Handles({"disconnected"}) /\ mgmt_cb
  /\ wifi_connected' = FALSE
  /\ led1' = IF wifi_connected THEN FALSE ELSE led1
  /\ UNCHANGED <<boardVars, registerVars, run_app, pc, twt_flow_id, mgmt, asked, dropped>>

(* Mutant of HandleDisconnected: the flag is set only when it is clear already. *)
DisconnectedInverted ==
  /\ Handles({"disconnected"}) /\ mgmt_cb
  /\ led1' = IF wifi_connected THEN led1 ELSE FALSE
  /\ ResetSemaphore
  /\ UNCHANGED <<boardVars, registerVars, wifi_connected, twt_flow_id, mgmt, asked, dropped>>

HandleDisconnected ==
  /\ Handles({"disconnected"}) /\ mgmt_cb
  /\ wifi_connected' = FALSE
  /\ led1' = IF wifi_connected THEN FALSE ELSE led1
  /\ ResetSemaphore
  /\ UNCHANGED <<boardVars, registerVars, twt_flow_id, mgmt, asked, dropped>>

(* handle_wifi_twt_event: a teardown leaves twt_flow_id as it is *)
HandleTwt ==
  /\ Handles({"response", "teardown"}) /\ twt_mgmt_cb
  /\ twt_flow_id' = IF Head(queue).type = "response" THEN Head(queue).flow_id ELSE twt_flow_id
  /\ UNCHANGED <<boardVars, wifi_connected, led1, run_app, registerVars, mgmt, pc, asked, dropped>>

(* The station woke: a datagram is sent, and its answer is waited for.  The
   wait has no timeout; without a socket recv() fails at once.  *)
HandleSleepState ==
  /\ Handles({"awake", "sleeping"}) /\ twt_mgmt_cb
  /\ IF Head(queue).type = "awake" THEN mgmt' \in {"recv", "idle"} ELSE UNCHANGED mgmt
  /\ UNCHANGED <<boardVars, handlerVars, registerVars, pc, asked, dropped>>

TwtAnswered ==
  /\ mgmt = "recv" /\ mgmt' = "idle"
  /\ UNCHANGED <<boardVars, handlerVars, registerVars, queue, pc, asked, dropped>>

HandleEvent == Unheard \/ HandleConnected \/ HandleDisconnected \/ HandleTwt \/ HandleSleepState

--------------------------------------------------------------------------------
(* The network thread. *)

(* Mutant of EventsFirst: the event thread does not go first. *)
AnyOrder == TRUE

(* The event thread has nothing to do, or waits. *)
EventsFirst == queue = <<>> \/ mgmt = "recv"

Goto(from, to) == /\ pc = from /\ EventsFirst
                  /\ pc' = to

AddCallback ==
  /\ Goto("register", "registerTwt") /\ mgmt_cb' = TRUE
  /\ UNCHANGED <<boardVars, handlerVars, twt_mgmt_cb, queue, mgmt, asked, dropped>>

AddTwtCallback ==
  /\ Goto("registerTwt", "connect") /\ twt_mgmt_cb' = TRUE
  /\ UNCHANGED <<boardVars, handlerVars, mgmt_cb, queue, mgmt, asked, dropped>>

ConnectStored ==
  /\ Goto("connect", "resend")
  /\ UNCHANGED <<boardVars, handlerVars, registerVars, queue, mgmt, asked, dropped>>

(* Mutant of ResendStatus: the call is missing. *)
NoResend ==
  /\ Goto("resend", "take")
  /\ UNCHANGED <<boardVars, handlerVars, registerVars, queue, mgmt, asked, dropped>>

(* conn_mgr_mon_resend_status: the present state is raised as an event *)
ResendStatus ==
  /\ Goto("resend", "take")
  /\ NotifyLink(link)
  /\ UNCHANGED <<boardVars, handlerVars, registerVars, mgmt, asked>>

(* k_sem_take(&run_app, K_FOREVER) *)
TakeRunApp ==
  /\ IF run_app = 1 THEN Goto("take", "power") ELSE Goto("take", "waiting")
  /\ run_app' = 0
  /\ UNCHANGED <<boardVars, wifi_connected, led1, twt_flow_id, registerVars, queue, mgmt, asked, dropped>>

(* A request to the driver, which may refuse: the caller goes on all the same. *)
Asks(what, from, to) ==
  /\ Goto(from, to)
  /\ asked' \in {asked, asked \cup {what}}
  /\ UNCHANGED <<boardVars, handlerVars, registerVars, queue, mgmt, dropped>>

SetPowerState == Asks("power", "power", "wakeup")
SetWakeupMode == Asks("wakeup", "wakeup", "twt")
SetTwt == Asks("twt", "twt", "client")

(* network_http_client_connect and network_http_client_test: all they call ends
   by a timeout at the latest *)
RunClient ==
  /\ Goto("client", "server")
  /\ UNCHANGED <<boardVars, handlerVars, registerVars, queue, mgmt, asked, dropped>>

StartServer ==
  /\ Goto("server", "over")
  /\ UNCHANGED <<boardVars, handlerVars, registerVars, queue, mgmt, asked, dropped>>

Boot == \/ AddCallback \/ AddTwtCallback \/ ConnectStored \/ ResendStatus \/ TakeRunApp
        \/ SetPowerState \/ SetWakeupMode \/ SetTwt \/ RunClient \/ StartServer

Next == \/ LinkChanges \/ HandleEvent \/ TwtAnswered \/ Boot
        \/ \E e \in TwtEvents \cup SleepEvents : TwtHappens(e)

Spec == Init /\ [][Next]_vars

(* Both threads are scheduled.  Nobody owes the TWT handler an answer, and the
   link may stay as it is. *)
FairSpec == Spec /\ WF_vars(HandleEvent) /\ WF_vars(Boot)

--------------------------------------------------------------------------------
(* Properties. *)

Resent == pc \notin {"register", "registerTwt", "connect", "resend"}
Waits == pc \in {"take", "waiting"}

(* The network thread leaves k_sem_take (line 711), whose result it ignores,
   only while the network is connected: no k_sem_reset (line 135) ends the wait
   early, and no permit outlives the connection it was given for. *)
StartsConnected == [][Waits /\ ~Waits' => wifi_connected']_vars

(* A permit in the semaphore stands for a connection, and a thread that waits
   for one has not missed it. *)
PermitMeansConnected ==
  /\ run_app = 1 => wifi_connected
  /\ pc = "waiting" => run_app = 0 /\ ~wifi_connected

(* Before the network thread asks for TWT, no TWT event exists, the event thread
   never waits and no event is dropped. *)
BeforeTwt == {"register", "registerTwt", "connect", "resend", "take", "waiting",
              "power", "wakeup", "twt"}
QuietBoot ==
  pc \in BeforeTwt =>
    /\ "twt" \notin asked /\ mgmt = "idle" /\ ~dropped
    /\ queue \in Seq(LinkEvents)

(* While the network thread is about to wait, or waits, the queue holds what the
   link has done since the last event that was handled: each event undoes the one
   before, and the last one is the link's state.  A thread that waits therefore
   sees a connection first. *)
QueueTellsLink ==
  Waits =>
    /\ mgmt_cb
    /\ queue # <<>> => queue[Len(queue)] = LinkEvent(link)
    /\ \A i \in 1..Len(queue) - 1 : queue[i] # queue[i + 1]
    /\ queue = <<>> => wifi_connected = link
    /\ pc = "waiting" /\ queue # <<>> => queue[1] = LinkEvent(TRUE)

(* Until it is taken, the permit is there exactly while the network is connected. *)
PermitTellsConnected ==
  pc \in {"register", "registerTwt", "connect", "resend", "take"} =>
    (run_app = 1 <=> wifi_connected)

(* The callback of the connection events is registered from line 623 on. *)
Registered == pc # "register" => mgmt_cb

(* The inductive invariant of the proofs. *)
IInv == /\ TypeOK /\ PermitMeansConnected /\ QuietBoot /\ QueueTellsLink
        /\ PermitTellsConnected /\ Registered

(* Once the status was resent, and unless an event was dropped, the handlers'
   view and the LED agree with the connection whenever all events are handled. *)
ViewAgrees ==
  Resent /\ queue = <<>> /\ ~dropped => wifi_connected = link /\ led1 = link

(* If the network is connected for good, the server is started. *)
ServerStarts == <>[]link => <>(pc = "over")

(* A lost connection is noticed, unless the event thread waits in the TWT
   handler or an event was dropped. *)
LossNoticed == ~link ~> (~wifi_connected \/ link \/ mgmt = "recv" \/ dropped)

(* "Upon TWT sleep state event, inform the user of the current sleep state"
   (line 514): an event in the queue is handled. *)
EventsAreHandled == (queue # <<>>) ~> (queue = <<>>)
================================================================================
