------------------------------ MODULE MqttClient -------------------------------
(***************************************************************************)
(* The MQTT client (application/network_mqtt.c, with CONFIG_MQTT_HELPER).  *)
(* The network thread connects to the broker once, after the network is    *)
(* up.  What follows happens in callbacks of the MQTT helper library's     *)
(* thread: CONNACK, SUBACK, commands to switch LEDs, and the end of the    *)
(* session.  Button pressed publish from a work queue, and the manager's   *)
(* event handler ends the session when the network is lost.                *)
(*                                                                         *)
(* The library keeps a state and refuses a call that does not fit it:      *)
(* publishing, subscribing and disconnecting need a connected state.       *)
(***************************************************************************)
EXTENDS Integers

CONSTANTS
  MAX_LOSSES,    (* bound: times that the network is lost                     *)
  MAX_MESSAGES   (* bound: commands of the broker                             *)

ASSUME MqttConstants == MAX_LOSSES \in Nat /\ MAX_MESSAGES \in Nat

VARIABLES
  mqttBoot,      (* the network thread's way to the session                   *)
  netUp,         (* the manager's wifi_connected                              *)
  helper,        (* the state of the MQTT helper library                      *)
  subscription,  (* of this session: "none", "asked", "granted", "failed"     *)
  late,          (* CONNACK was handled after the network had been lost       *)
  commanded,     (* the LEDs as commands have switched them                   *)
  pressed,       (* what came of the last press of a button                   *)
  losses, messages  (* losses of the network and commands so far              *)

mqttVars == <<mqttBoot, netUp, helper, subscription, late, commanded, pressed,
              losses, messages>>

SwitchedLeds == {1, 2}
Commands == [led : SwitchedLeds, on : BOOLEAN]

MqttTypeOK ==
  /\ mqttBoot \in {"out", "wait", "init", "connect", "opening", "over"}
  /\ netUp \in BOOLEAN /\ late \in BOOLEAN
  /\ helper \in {"uninit", "disconnected", "connecting", "connected"}
  /\ subscription \in {"none", "asked", "granted", "failed"}
  /\ commanded \in [SwitchedLeds -> BOOLEAN]
  /\ pressed \in {"none", "published", "refused"}
  /\ losses \in 0..MAX_LOSSES /\ messages \in 0..MAX_MESSAGES

MqttInit ==
  /\ mqttBoot \in {"out", "wait"} /\ netUp = FALSE
  /\ helper = "uninit" /\ subscription = "none" /\ late = FALSE
  /\ commanded = [n \in SwitchedLeds |-> FALSE]
  /\ pressed = "none"
  /\ losses = 0 /\ messages = 0

--------------------------------------------------------------------------------
(* The manager's handler of connection events. *)

NetworkUp ==
  /\ mqttBoot # "out" /\ ~netUp /\ netUp' = TRUE
  /\ mqttBoot' = IF mqttBoot = "wait" THEN "init" ELSE mqttBoot
  /\ UNCHANGED <<helper, subscription, late, commanded, pressed, losses, messages>>

SessionEnds == helper' = "disconnected" /\ subscription' = "none" /\ late' = FALSE

(* Mutant of NetworkDown: wifi_connected is cleared before it is asked for. *)
DownForgetsSession ==
  /\ netUp /\ losses < MAX_LOSSES
  /\ netUp' = FALSE /\ losses' = losses + 1
  /\ UNCHANGED <<mqttBoot, helper, subscription, late, commanded, pressed, messages>>

(* mqtt_helper_disconnect() ends a session, also when the broker can no longer
   be told, and refuses in any other state; nobody looks at its result.  *)
NetworkDown ==
  /\ netUp /\ losses < MAX_LOSSES
  /\ netUp' = FALSE /\ losses' = losses + 1
  /\ IF helper = "connected" THEN SessionEnds ELSE UNCHANGED <<helper, subscription, late>>
  /\ UNCHANGED <<mqttBoot, commanded, pressed, messages>>

--------------------------------------------------------------------------------
(* network_mqtt_connect.  Its result is not looked at, and nobody calls it again. *)

Connecting(from, to, state) ==
  /\ mqttBoot = from /\ mqttBoot' = to
  /\ helper' = state
  /\ UNCHANGED <<netUp, subscription, late, commanded, pressed, losses, messages>>

HelperInit == Connecting("init", "connect", "disconnected")
HelperInitFails == Connecting("init", "over", "uninit")

(* mqtt_helper_connect() resolves the broker's name and connects to it. *)
Open == Connecting("connect", "opening", "disconnected")
OpenSucceeds == Connecting("opening", "over", "connecting")
OpenFails == Connecting("opening", "over", "disconnected")

--------------------------------------------------------------------------------
(* Callbacks of the library's thread. *)

(* subscribe(), whose failure is only logged. *)
Subscribes == subscription' \in {"asked", "failed"}

(* on_mqtt_connack subscribes when the broker accepts. *)
ConnackAccepted ==
  /\ helper = "connecting" /\ helper' = "connected"
  /\ Subscribes
  /\ late' = ~netUp
  /\ UNCHANGED <<mqttBoot, netUp, commanded, pressed, losses, messages>>

ConnackRefused ==
  /\ helper = "connecting" /\ SessionEnds
  /\ UNCHANGED <<mqttBoot, netUp, commanded, pressed, losses, messages>>

Suback ==
  /\ helper = "connected" /\ subscription = "asked"
  /\ subscription' \in {"granted", "failed"}
  /\ UNCHANGED <<mqttBoot, netUp, helper, late, commanded, pressed, losses, messages>>

(* on_mqtt_publish: a command may come before SUBACK; other payloads have no
   effect. *)
Command(c) ==
  /\ helper = "connected" /\ subscription \in {"asked", "granted"}
  /\ messages < MAX_MESSAGES /\ messages' = messages + 1
  /\ commanded' = [commanded EXCEPT ![c.led] = c.on]
  /\ UNCHANGED <<mqttBoot, netUp, helper, subscription, late, pressed, losses>>

(* on_mqtt_disconnect: the broker closes, or answers no more. *)
BrokerGone ==
  /\ helper \in {"connecting", "connected"} /\ SessionEnds
  /\ UNCHANGED <<mqttBoot, netUp, commanded, pressed, losses, messages>>

--------------------------------------------------------------------------------
(* publish(): the library takes a message only in a session. *)
Publishes == pressed' = IF helper = "connected" THEN "published" ELSE "refused"

(* network_mqtt_publish, called by both buttons: at any time, also before the
   library is initialised and after the session. *)
Press ==
  /\ mqttBoot # "out"
  /\ Publishes
  /\ UNCHANGED <<mqttBoot, netUp, helper, subscription, late, commanded, losses, messages>>

MqttNext == \/ NetworkUp \/ NetworkDown
            \/ HelperInit \/ HelperInitFails \/ Open \/ OpenSucceeds \/ OpenFails
            \/ ConnackAccepted \/ ConnackRefused \/ Suback \/ BrokerGone \/ Press
            \/ \E c \in Commands : Command(c)

MqttSpec == MqttInit /\ [][MqttNext]_mqttVars

--------------------------------------------------------------------------------
(* Properties. *)

(* The session does not outlive the network (network_manager.c:130): while the
   manager holds the network for lost there is none, unless CONNACK was handled
   after the loss, when the disconnecting call had been refused already; and
   while there is none, no subscription is alive. *)
SessionOverNetwork ==
  /\ helper = "connected" /\ ~netUp => late
  /\ subscription # "none" => helper = "connected"

(* The inductive invariant of the proofs: until the client has connected, the
   library has no session. *)
MqttInv ==
  /\ MqttTypeOK /\ SessionOverNetwork
  /\ mqttBoot \in {"out", "wait", "init"} => helper = "uninit"
  /\ mqttBoot \in {"connect", "opening"} => helper = "disconnected"
================================================================================
