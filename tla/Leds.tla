--------------------------------- MODULE Leds ----------------------------------
(***************************************************************************)
(* LED 2 of the board (index 1) and those who drive it: main()             *)
(* (application/main.c) configures it, which switches it on; the interrupt *)
(* of button 1 toggles it; the network thread (application/                *)
(* network_manager.c) initialises the LED library, which switches it off;  *)
(* requests to the HTTP server (application/network_http.c) switch it and  *)
(* keep in led_states how.                                                 *)
(*                                                                         *)
(* main has priority 0, Zephyr's default, and the network thread 6, so     *)
(* that the network thread runs only while main sleeps or has ended.       *)
(* Handlers of the server and the interrupt preempt both.                  *)
(***************************************************************************)
EXTENDS Integers

CONSTANT MAX_TOUCHES     (* bound: presses of the button and HTTP updates       *)

ASSUME LedsConstants == MAX_TOUCHES \in Nat

VARIABLES
  mainPc,        (* what main does next; "absent": no one runs                *)
  networkPc,     (* how far the network thread has come                       *)
  pressable,     (* the interrupt's callback is registered                    *)
  lit2,          (* the LED is on                                             *)
  led_state,     (* led_states[1] of the HTTP server                          *)
  ledFault,      (* the last call of the LED library failed                   *)
  touches

ledsVars == <<mainPc, networkPc, pressable, lit2, led_state, ledFault, touches>>

(* main's configuring calls, in their order. *)
AfterCall == [led0 |-> "led1", led1 |-> "sw0", sw0 |-> "interrupt",
              interrupt |-> "callback", callback |-> "toggle"]

LedsTypeOK ==
  /\ mainPc \in DOMAIN AfterCall \cup {"absent", "toggle", "sleep", "ended"}
  /\ networkPc \in {"leds", "boot", "serving"}
  /\ pressable \in BOOLEAN /\ lit2 \in BOOLEAN /\ led_state \in BOOLEAN
  /\ ledFault \in BOOLEAN
  /\ touches \in 0..MAX_TOUCHES

LedsInit ==
  /\ mainPc \in {"absent", "led0"} /\ networkPc = "leds"
  /\ pressable = FALSE /\ lit2 = FALSE /\ led_state = FALSE
  /\ ledFault = FALSE
  /\ touches = 0

--------------------------------------------------------------------------------
(* main *)

Configures ==
  /\ mainPc \in DOMAIN AfterCall /\ mainPc' = AfterCall[mainPc]
  /\ lit2' = (lit2 \/ mainPc = "led1")
  /\ pressable' = (pressable \/ mainPc = "callback")
  /\ UNCHANGED <<networkPc, led_state, ledFault, touches>>

(* A failing call ends main, also that in the loop. *)
MainFails ==
  /\ mainPc \in DOMAIN AfterCall \cup {"toggle"} /\ mainPc' = "ended"
  /\ UNCHANGED <<networkPc, pressable, lit2, led_state, ledFault, touches>>

(* The loop toggles LED 1 (index 0) and sleeps. *)
MainLoops ==
  /\ \/ mainPc = "toggle" /\ mainPc' = "sleep"
     \/ mainPc = "sleep" /\ mainPc' = "toggle"
  /\ UNCHANGED <<networkPc, pressable, lit2, led_state, ledFault, touches>>

Touch == touches < MAX_TOUCHES /\ touches' = touches + 1

(* The interrupt of button 1 toggles the LED, and led_states does not learn of it. *)
pin_isr ==
  /\ pressable /\ Touch
  /\ lit2' = ~lit2
  /\ UNCHANGED <<mainPc, networkPc, pressable, led_state, ledFault>>

--------------------------------------------------------------------------------
(* The network thread and the server. *)

(* Mutant of NetworkMayRun: the network thread is not less urgent than main. *)
AnyTime == mainPc # "absent"

NetworkMayRun == mainPc \in {"sleep", "ended"}

(* dk_leds_init() configures every LED, as off; its failure is only logged. *)
LedsInitialised ==
  /\ NetworkMayRun /\ networkPc = "leds" /\ networkPc' = "boot"
  /\ \/ ledFault' = FALSE /\ lit2' = FALSE
     \/ ledFault' = TRUE /\ lit2' \in {lit2, FALSE}
  /\ UNCHANGED <<mainPc, pressable, led_state, touches>>

ServerStarted ==
  /\ NetworkMayRun /\ networkPc = "boot" /\ networkPc' = "serving"
  /\ UNCHANGED <<mainPc, pressable, lit2, led_state, ledFault, touches>>

(* handle_led_update: what dk_set_led() returns is dropped. *)
LedUpdated(on) ==
  /\ networkPc = "serving" /\ Touch
  /\ led_state' = on
  /\ \/ ledFault' = FALSE /\ lit2' = on
     \/ ledFault' = TRUE /\ UNCHANGED lit2
  /\ UNCHANGED <<mainPc, networkPc, pressable>>

LedsNext == \/ Configures \/ MainFails \/ MainLoops \/ pin_isr
            \/ LedsInitialised \/ ServerStarted \/ \E on \in BOOLEAN : LedUpdated(on)

LedsSpec == LedsInit /\ [][LedsNext]_ledsVars

--------------------------------------------------------------------------------
(* Properties. *)

(* "Keep track of the current LED states. 0 = LED OFF, 1 = LED ON." (network_http.c:94):
   once the LED library is initialised, what the HTTP server reports of LED 2 is how
   it is.  The code does not ensure this: one press of button 1 makes it wrong until
   the next update (main.c:51). *)
Agrees == networkPc # "leds" => (lit2 <=> led_state)

(* What the code does ensure: nothing but a press of button 1, or a failing call of the
   LED library (network_http.c:140, network_manager.c:607), makes the report wrong
   when it was right.  In particular main does not, which switches LED 2 on while
   led_states says off from the start (main.c:73): it has done so before the library
   switches the LED off. *)
Presses == pressable /\ UNCHANGED <<mainPc, networkPc, led_state>>
OnlyPressMisleads == [][Agrees /\ ~Agrees' => Presses \/ ledFault']_ledsVars

(* The inductive invariant of the proofs: while main configures, the network
   thread has not run, and led_states is as it began. *)
LedsInv ==
  /\ LedsTypeOK
  /\ mainPc \in {"absent"} \cup DOMAIN AfterCall => networkPc = "leds"
  /\ networkPc = "leds" => ~led_state
================================================================================
