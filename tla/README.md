# Verification of wifi6-http-server

This directory holds TLA+ models of the firmware in `src/`: what its threads,
handlers and sockets do, the properties that make them correct, TLC
configurations that check them on small instances, and proofs, checked by TLAPS,
of their safety for every size of what the code sizes. The reference is the code in `src/application/`
and `src/hal/`; line numbers below are of its files.

## The system

The firmware runs on Zephyr, on one core of an nRF5340 with an nRF7002 Wi-Fi
chip. `prj.conf` fixes the default configuration: MQTT, zperf, BLE provisioning,
static credentials and `SOCKET_TEST` are compiled out.

| part | state | operations | talks to |
|---|---|---|---|
| HTTP server, `network_http.c` 50-484, 776-782 | `tcp4_accepted[]`, `tcp4_handler_tid[]`, `led_states[]`, `page_buf`, the listening socket, the handlers' stacks | one listener thread accepts or refuses; one handler thread per slot receives, parses, answers and closes | sockets, LED library |
| HTTP client, `network_http.c` 488-774 | `sock`, `server`, `client_id_buf`, `counter` | resolve, connect, POST for an ID, PUT, GET; response callbacks | called by the network thread and by button 2 |
| UDP socket, `network_socket.c` | `sock`, `server` | connect, send, receive, close | called by button 1 and the TWT handler |
| network manager, `network_manager.c` | `run_app`, `wifi_connected`, `twt_flow_id`, two event callbacks | boot sequence of the network thread; connection events; TWT events; buttons | all of the above, Zephyr's network-event thread |
| BLE provisioning, `network_manager.c` 163-359 | advertising data, two delayable work items | advertising restarts, data updates, connection callbacks | compiled out by default |
| MQTT client, `network_mqtt.c` | `client_id` | connect, subscribe, publish, LED commands | compiled out by default |
| throughput test, `network_perf.c` | none | start, result callback | compiled out by default |
| main thread, `main.c` | LED 0, LED 1 | toggle every 500 ms; toggle in the button interrupt | LEDs |
| BME280 and blink drivers, `hal/` | sensor data; a timer | fetch, power management; set period | not used by the application |

What is hard here: the listener and the handlers interleave at every socket call
and share slots, descriptors and a page buffer; a slot is handed over between
two threads through two statements after `close()`; requests arrive in fragments
of any length in a ring of 1024 bytes; two static variables named `sock` are
shared by threads; descriptor numbers are given out again at once; the thread
that handles network events also waits for a datagram; a connection may come or
go at any point of the boot. `PROJECT.json` lists these hazards one by one, each
at its line, with the properties that cover it.

What makes each part correct:

- server: a handler uses only its own open connection, no connection is lost, no
  thread is created over a live one, the descriptors suffice, every client gets
  the answer to its own request, slots come back;
- receiving: what is handled is a complete request, at its last byte, and what is
  read of it is what was sent;
- clients: everyone closes its own sockets, all of them, and sends into its own;
- manager: the boot goes on only with a connection, the handlers' view agrees with
  the connection, a lasting connection starts the server;
- advertising: its data is left alone during a connection, it is never restarted
  over one, it comes back after one, and tells the Wi-Fi status in the end;
- MQTT: a session does not outlive the network;
- LEDs: what HTTP reports of an LED should be how the LED is. Of LED 2 a press of
  button 1 makes it wrong; that nothing else does, while the LED library does not
  fail, is what `Leds` shows;
- drivers: a blinking that was ended leaves the LED off; each fetch of a sample
  gives back the power it took.

## Modules

`ConnService` states what the server promises about connections, with no word of
descriptors or threads: a connection is served by a free worker or, only when all
are busy, refused; its worker answers and closes it; a worker is free again only
after that; a service that stopped never accepts again.

`HttpServer` is the server in detail. All its threads have one cooperative
priority (`THREAD_PRIORITY`, line 52), so one of them runs until it enters a
socket call, and an action is the code between two socket calls.

| actions | code |
|---|---|
| `Start` | `start_listener`, 476-484 |
| `SetupServer`, `SetupFails` | `setup_server`, 315-339, and the return at 463-465 |
| `AcceptServe`, `AcceptRefuse`, `CloseRefused`, `AcceptFails` | `process_tcp`, 412-451, and the loop 470-472 |
| `HandlerStart`, `RecvEnds`, `CloseConn`, `Exit` | `client_conn_handler`, 342-395 |
| `PutLed` ... `OtherMethod` | `handle_http_request`, 147-221, with `handle_led_update`, 118-144 |
| `Send`, `SendFails` | its sending loop, 226-239 |
| `Connect`, `ClientSend`, `ClientGone`, `Tick` | the clients and the clock |

`fdtab` is the table of descriptors, filled lowest number first as Zephyr does. A
page is sent in up to `PAGE_CHUNKS` pieces, each read from `page_buf` at the
moment it is sent.

`HttpReceive` takes one handler apart: `Recv(n)` is one pass of the loop 359-389 for
every possible length, with the callbacks `on_url`, `on_body`,
`on_message_begin`, `on_headers_complete` and `on_message_complete`. Bytes are known by their
place in the stream, so that reading through `url` and `body` shows which bytes
are seen. What a client may send is a stream that the parser's grammar allows (`Follow`,
`Grammatical`): a request line with its URL, headers, perhaps a body, perhaps the next
request, a byte it rejects at any point and anything behind that. One kind of stream is left out: a client
that stops within a body. Where a body ends is told by its length in a header, which the model
does not read, so a body ends where another request begins or the stream does. `NewState` is `atoi()` on an unterminated body, cut to a byte, as in line 130.
`HttpServer` uses its result: a complete request, with the value that `atoi()`
left. The two are not composed: a handler's buffer is nobody else's.

`Sockets` has both clients beside the server's descriptors: `httpSock` and `udpSock` are the
two static variables, and users interleave at every call that may block. The
HTTP library calls back once per fragment, as long as the request's descriptor
refers to a socket, whoever owns it by then. What the callbacks put into
`client_id_buf` is left out. The server appears only as somebody
who takes and returns descriptors.

`NetworkManager` is the boot sequence and the event handlers. The events pass
through a bounded queue. The event thread is cooperative
(`NET_TC_THREAD_COOPERATIVE`, Zephyr's default) and the network thread has
preemptible priority 6, so `EventsFirst` lets the network thread take a step only when
every event is handled or the event thread waits itself. `k_sem_reset` ends a wait
in `k_sem_take` as Zephyr's does. The TWT handler's socket calls appear as the wait they end in; their sockets are in `Sockets`.

`BleAdvertising` is advertising for provisioning. A work item of Zephyr may wait for
its delay, be queued, and run, several of these at once; cancelling an item that
runs marks it, and a marked item is refused by its queue until its handler has
returned, though it may still be given a delay. The callbacks of connections
run in a cooperative thread of the Bluetooth stack and so come between any two
calls of a handler or of the boot.

| actions | code |
|---|---|
| `BleStarts`, `BleBootFails`, `StartQueue`, `InitItems`, `ScheduleData` | the network thread, `network_manager.c` 628-681 |
| `ReadStatus`, `UpdateData`, `RescheduleData`, `DataReturns` | `update_adv_data_task`, 300-313, with `update_wifi_status_in_adv`, 174-200 |
| `StopAdvertising`, `StartAdvertising` | `update_adv_param_task`, 315-335 |
| `Connected`, `Disconnected`, `DisconnectedTooEarly` | the callbacks, 202-229 |
| `Expires`, `TakeWork` | Zephyr's work queue and its delays |

`MqttClient` is the session with the broker: the network thread's one call of
`network_mqtt_connect`, the callbacks in the MQTT helper library's thread, `publish` from
the buttons, and what the manager's handler does when the network comes and goes. The
library appears as its state, and refuses what does not fit it.

`Leds` is LED 2 (index 1), which main, the interrupt of button 1, the LED library's
initialisation and the HTTP server drive. The network thread takes a step only
while main sleeps or has ended (`NetworkMayRun`): main has priority 0 and the
network thread 6. `led_states[1]` is written only by the server's updates, so that
`pin_isr`, which toggles the LED (51), makes it wrong;
`OnlyPressMisleads` is what the code does ensure: no other step does so but a
failing call of the LED library.

`BlinkDriver` is the timer and the pin of the blink driver; stopping takes two steps
(`StopTimer`, `ClearLed`), between which other callers and the timer's interrupt come.
`Bme280` is the sensor driver: initialisation, at boot and when power management
resumes the device, the fetching of a sample, and the count of users that Zephyr's
runtime power management keeps.

`MCParts` puts these five into one instance, each behaviour being one of a single
part: parts without a common variable need no interleaving. That `wifi_connected`
and the Wi-Fi status, which the manager sets, change freely in `MqttClient` and
`BleAdvertising` allows more than `NetworkManager` does.

Every other `MC` module only gives constants their values. In the other modules,
definitions introduced by the words "Mutant of" are variants of the definition
after them with a plausible mistake; no specification uses them. Each property is
known to fail when the variant takes the definition's place (`mutants` in
`PROJECT.json`).

## Runs

| run | instance | what it shows |
|---|---|---|
| `http_slots` | 2 slots, 3 connections, 5 descriptors, failing calls, pages of 2 pieces | slots, threads, descriptors and connections agree; no live thread is reused; each client gets the answer to its request; the server implements `ConnService` |
| `http_live` | 1 slot, 2 connections, every kind of query, the clock ticks | the backlog drains, what is accepted is closed, slots come back |
| `http_page` | 2 slots, 2 connections, the clock ticks | violated: a page is mixed from two renderings |
| `receive_all` | buffer 7, URL limit 2, streams of 0 to 12 bytes, unfinished and malformed ones among them, every cut | when a request is handled and what is read of it |
| `receive_url`, `receive_stale` | same | violated: see the findings |
| `sockets_serial` | all three users, 4 descriptors, up to 2 of them the server's, 2 presses or wake-ups, 2 fragments; resolving, `socket()`, both `connect()`, the HTTP request and `recv()` may fail | what can make a user close or write into another's socket, and how many sockets stay behind |
| `sockets_stale` | button 1 and 2, failing resolution | violated: see the findings |
| `sockets_shared` | button and network thread at once | violated: see the findings |
| `manager_all` | 4 link changes, 2 TWT events, queue of 2, fair | the wait ends only with a connection; the view agrees with the link; a lasting connection starts the server; a loss is noticed |
| `parts_all` | two Bluetooth connections, two Wi-Fi statuses; two losses of the network; two callers of the blink driver and five calls; two fetchers of samples and four fetches; four presses or updates of LED 2; two or three failing calls each | each part's inductive invariant; what cancelling leaves of the work items, restarts of advertising, its return and its data; the MQTT session and the network; blinking ended; power given back; what can make the report of LED 2 wrong |
| `manager_twt` | 3 link changes, 2 TWT events, fair | violated: an unanswered datagram stops the handling of events |

Why the bounds are enough. Two slots and three connections give a free, a full
and an overfull server, a number that is closed and given out again while
its old handler still has to clear its slot, and one descriptor more than the
server needs. One slot and two connections give progress its hard case: the
second client is refused or waits for the only slot. A buffer of seven bytes is
shorter than, as long as and longer than the streams; each `recv()` may end
anywhere. Two presses or wake-ups after the boot let a number be closed, given to
the server and used again, and two fragments are the first that let a callback
come twice. A queue of two events fills while the event thread waits; four link
changes outnumber it. With two Bluetooth connections one can begin while the
items of the one before are still at work; two failures let both the stopping and
the updating of one round fail. Two callers and five calls put a start between
the two steps of a stop, and end with a stop. Four fetches by two fetchers let a
failed resume be followed by a put for another's get; three failing transfers
are a resume, a read and a suspend. `CHECK_DEADLOCK FALSE` is set throughout, as the bounded environment
stops: clients, presses and link changes run out.

`SERIAL` is a bound of its own: with it a button is pressed, or a TWT event
comes, only while no other user of the same `sock` variable is at work. The code
does not ensure that; `sockets_shared` is the same specification without it.

`ClosesOwn` and `SendsAsOpened` hold unless one of two steps came first,
which `Stray` names: a name was not resolved, so that `sock` kept an old number;
or a response came in two fragments, the first callback closed the socket, its
number was given to somebody else, and the second callback closed it again. So
these two, and two users of one `sock`, are the only ways in which a client can
touch a socket that is not its own. Neither property says that a message arrives:
`network_socket_connect()` may fail, nobody looks at its result, and the caller goes on to send
(`network_manager.c` 368-370, 519-521). `SendsAsOpened` says what `send()` is then applied to: a
socket left unconnected when `connect()` failed (82-87), -1 when `socket()` failed, so
that no message goes, and the socket opened for this message otherwise.

### Findings

`PROJECT.json` quotes the line each one contradicts.

- `http_page`: `page_buf` is shared by all handlers (73, 211).
- `receive_url`: a URL that arrives in two fragments is reduced to its last part (293).
- `receive_stale`: a digit left behind the body makes a legal update fail (130).
- `sockets_stale`: after a failed name resolution button 1 writes into, and closes,
  whatever has the old number, such as a connection of the server.
- `sockets_shared`: button 2, pressed while the boot's request is under way, has
  its socket closed by the other's callback.
- `manager_twt`: the TWT handler waits in the event thread without a timeout.

Seen on the way, without a run of their own: a second request in the fragment
that completes the first clears `received_all`, and the first is never answered
(`ReceivedAll`, line 271); 256, or a body that is no number, is accepted as 0
(`NewState`, line 130).
In `network_manager.c`: cancelling the data item while its handler runs does not
keep it quiet, since the handler reschedules it (216, 311; `CancelledMeansQuiet` names
the exception), and an item still being cancelled is refused when the connection
ends (228); a connection that ends before the items are initialised reschedules
them all the same (227, 678); when advertising cannot be started again nothing tries
a second time (327); MQTT connects once and for all (759), and a loss of the
network during the handshake leaves a session behind that nobody ends (130).
In `main.c`: one press of button 1 toggles LED 2 past the server (51), and `GET /led/2`
reports it wrong until the next update, against "Keep track of the current LED states. 0 = LED
OFF, 1 = LED ON." (`network_http.c` 94); `OnlyPressMisleads` has to name this press as
its exception.
In `network_http.c`: of LED 1 the server's report is wrong within 500 ms, as main
toggles it for ever (140, `main.c:112`).
In `custom_bme280.c`: a fetch whose resume failed puts all the same, for another's
get (255); the eight result registers are read one by one while the sensor
measures (270); suspending writes 0x93, which is normal mode (477).

## Fairness

`HttpServer!Fairness` has weak fairness of the listener and of each handler:
threads of one priority take turns, and each blocks only in socket calls, which
end when the peer acts. It also has every client in the end send its request or
leave; `recv()` has no timeout (361), so without it a silent client keeps its
slot for ever. Nothing is assumed of new clients or the clock. The liveness run
has no socket errors, since a failing `accept()` ends the listener.

`NetworkManager!FairSpec` has weak fairness of the event thread's handlers and of the network
thread's steps. The link and the answer to a TWT datagram are not fair, so the
liveness properties either do not need the answer or name the wait as an
exception.

`BleFairness` has weak fairness of the boot, of the daemon that runs the work
items, and of each item's delay: timers end, and the scheduler runs every ready
thread. No central has to come or go, and no call has to succeed; the properties
name the failures that nothing repairs. The other parts of `parts_all` have no
liveness property: nothing there is promised to happen.

## Proofs

`HttpServerProofs` proves, for every number of slots, descriptors, connections and
requests that satisfies `ServerConstants` and `RequestShape`:

- `TypeCorrect`: `Spec => []TypeOK`;
- `InductiveInvariant`: `Spec => []IInv`;
- `SocketsAreOwned`, `SlotsAgree`, `NoLeak`, `DescriptorsBounded`: the invariants of the runs;
- `ThreadsAreNotReused`: the action property `NoLiveThreadReuse`;
- `ServerImplementsService`: the refinement of `ConnService`;
- `ClientsGetTheirAnswers`: the invariant `AnswersMatch`.

The argument. `SocketOwnership` is not inductive: that a descriptor just given
out belongs to no handler follows only if no handler uses a free descriptor, and
that a connection has one owner only if the table names it once. So `IInv` adds
`TableAgrees`: the table of descriptors names open connections, each once, and
one listening socket; and `SlotsMatchThreads`: a slot is taken exactly while its
thread lives. Each action has a lemma that it keeps `IInv`; `AcceptFacts` and
`ShutKeepsTable` hold what accepting and closing do to the table. The thread
property follows because a slot that `get_free_slot` finds has a dead thread. The
bound on descriptors maps each descriptor in use to the one who uses it: the
listening socket, a handler at work, or the refusal. The refinement shows, action by action,
that a step of the server is one step of the service or leaves its state alone.
For `AnswersMatch` the invariant `AnswersInv` goes on from there: `IInv` gives each working
handler a peer that no other handler has, and `Answering` says what that handler
has prepared for it: nothing was sent to the peer before the request is read, and
what is being sent answers the request the peer made.

`NetworkManagerProofs` proves, for every size of the event queue and any number of
link changes and TWT events:

- `TypeCorrect`: `Spec => []TypeOK`;
- `InductiveInvariant`: `Spec => []IInv`;
- `PermitIsHonest`: a permit stands for a connection;
- `HandlersKnowTheLink`: the invariant `ViewAgrees`;
- `BootWaitsForNetwork`: the action property `StartsConnected`.

The argument. `k_sem_reset` would end the wait in `k_sem_take`, and its result is not
looked at, so the proof has to show that a thread that waits never meets a
disconnection. It meets one only if the event at the head of the queue is one; so
`QueueTellsLink` says that while the thread is at the semaphore each event in the
queue undoes the one before and the last is the link's state, and that a waiting
thread has a connection at the head. That holds when it begins to wait because
`EventsFirst` lets it take that step only with an empty queue, and the resent
status has made the handlers' view equal to the link's. `QuietBoot` adds that no
event was dropped by then and the event thread is not in the TWT handler, since
TWT is asked for only later. `ViewAgrees` speaks of an empty queue; `ViewInv` of any: the
last connection event in it tells what the link is, or there is none and the
handlers know already.

`HttpReceiveProofs` proves, for every size of the buffer and of the local URL, every
set of grammatical streams, and every way in which `recv()` may cut them:

- `TypeCorrect`: `Spec => []TypeOK`, in which `offset` and both pointers stay within the buffer;
- `CompleteWhenHandled`: `HandledIsComplete`, of any stream, pipelined and malformed ones too;
- `HandledWithLastByte`: `HandledAtLastByte`;
- `UrlReadIsSuffix` and `UrlReadWhole`: `UrlIsSuffix` and `UrlWholeUnlessCut`;
- `DigitIsReadRight`: `DigitIsRead`.

The argument. None of the six is inductive. `ParseInv` says that the parser's state follows from
what it has seen (`Seen`, the bytes in front of the first that it rejects): the last event among them
decides whether a request is complete, and the method is that of the last message whose
headers ended. It is inductive because what one `recv()` adds lies behind all that was
seen before, so that a maximum of both is one of the new part (`MaxOfUnion`). That the
method and the completed message are the same one is then a matter of the grammar: a
body has an end of headers before it in its own message (`BodyHasEnd`), and nothing
sound begins behind the last event. For one request that fits the buffer, `SingleInv` adds
that byte `i` stands in cell `i - 1` and that a pointer points to the last bytes
of its kind received so far, from some byte on (`PointsAt`): a run is an interval since the
parts of a request come in order (`Ascends`, `KindIsTogether`). What follows from a grammar is
proved through the least counterexample (`Least`, from the well-foundedness of
the natural numbers).

`SocketsProofs` proves, for every table of descriptors and any number of presses,
wake-ups, fragments and descriptors of the server, that types are kept
(`TypeCorrect`), which for the counter of PUTs takes an account of the PUTs still to be
counted (`Counted`); and, as long as no two users of one `sock` overlap (`SERIAL`):

- `EachLeakHasItsFailure` and `DoneMeansClosed`: `LeaksCounted` and `NothingLeft`;
- `ClosesHitOwn` and `MessagesHitOwn`: `ClosesOwn` and `SendsAsOpened`.

The argument. `ShapeInv` says that each of the two variables has one user at a time; it
is what `SERIAL` buys, and all the rest needs it. A count of sockets is not
inductive by itself: `Tidy` counts those that a user has left behind, apart from the
one it is using, and knows that the descriptor of a request that was answered is
no longer its own, so that the request may end without a failure. `OwnInv` says that,
until `Stray`, a user's variable names its own socket from `socket()` to the first close, or is -1
when `socket()` failed; `met` tells which of the two, and whether that socket is connected.

The other parts are proved for any number of connections, calls, threads and
failures.

- `BleAdvertisingProofs`: `CancelledIsQuiet` and `NoRestartInUse`. Neither property is
  inductive: that no restart is pending in a new connection needs that nothing is
  restarted while advertising, and advertising is what a connection needs.
  `ItemsAgree` states this balance: a device that neither advertises nor has
  a connection has a restart on its way or has failed, and only a running handler
  is being cancelled.
- `PartsProofs`, of `MqttClient`: `SessionNeedsNetwork`. `MqttInv` adds that before
  the one call the library has no session.
- `PartsProofs`, of `BlinkDriver`: `LedStaysOff`. `stopping` is what makes it inductive: the timer may
  only be found stopped with the LED on while a caller has yet to clear the pin.
- `Bme280Proofs`: `FetchesAreBalanced`. The count equals the number of fetchers that
  took, plus one after a failed suspend; the proof counts finite sets, and needs
  that the resuming fetcher is alone (`InitAgrees`).
- `PartsProofs`, of `Leds`: `LedMisledByPressOnly`, the action property `OnlyPressMisleads`. `LedsInv`
  says that while main configures, the network thread has not run, so that main cannot
  switch on an LED that is reported off; and that `led_states` says off until the LED library
  is initialised, so that its switching the LED off agrees with it.
- `PartsProofs`, of `MCParts`: `PartsBehaveAlone`, that each part beside the others behaves as
  it does alone, so that what is proved of it alone holds there too; and
  `PartsAreInvariant`, the invariant `PartsInv`.

The assumptions: the constants satisfy the assumptions of their modules
(`ServerConstants`, `RequestShape`, `ReceiveConstants`, `NetworkManagerConstants`, `BleConstants` and so on);
`http_parser` takes what its grammar allows and no other stream (`StreamShape`), and makes one
data callback for each run of bytes in one call;
socket calls do to the table what `HttpServer` says; the event thread goes before
the network thread, and main before it, as their priorities make it; Zephyr's work
queue and power management and the MQTT helper library do what the modules say.

Only model-checked: the liveness properties `BacklogDrains`, `ServedIsClosed`, `SlotsComeBack`,
`ServerStarts`, `LossNoticed`, `AdvertisesAgain` and `StatusAdvertised`, as liveness under
fairness is beyond the prover. Every invariant and every action property of a passing run, and
the refinement, is a theorem. What `Atoi` computes of more than one digit is neither
proved nor a property of a run.

## Not modelled

- TLS in the HTTP client: every caller passes `false`.
- `sscanf()` of the URL and the wording of responses.
- The throughput test: it keeps no state, and its 64-bit rates exceed the integers
  of TLC. That "Wi-Fi benchmark finished" is printed when the test has only been
  started is left to a reader.
- The compensation of the BME280 and `channel_get`: arithmetic on 32 and 64 bits,
  for the same reason, on values that no control depends on.
- The pairing callbacks of Bluetooth, which only print.
- LED 1, of which nothing lasts longer than 500 ms; the MQTT commands, which
  `MqttClient` has, do not appear in `Leds`, as MQTT is not in the default
  configuration: they would switch the LED without `led_states`.
- Two users of the UDP socket at once: `Sockets` allows them without `SERIAL`, but
  `sockets_shared` runs only the HTTP client's two.

## Plan

Done: `HttpServer` with `ConnService`, `HttpReceive`, `Sockets`, `NetworkManager`, the five parts
of `MCParts`, and the proofs of the safety of all of them.

Left: `Board`, the composition of `HttpServer` with `Sockets` over one table of
descriptors; and what `Atoi` reads of a body of several digits, with the theorem
that the value is the one that was sent, modulo 256, when the body was not cut.
