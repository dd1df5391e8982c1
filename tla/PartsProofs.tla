------------------------------ MODULE PartsProofs -------------------------------
(* Theorems about the parts that share nothing with each other, and of MCParts,
   which puts them side by side: about MqttClient, for any number of losses of the
   network and of commands; about BlinkDriver, for every set of callers and any number
   of calls and failing pins; about Leds, for any number of presses and updates.  Those
   of the other two parts have a module each. *)
EXTENDS MCParts, BleAdvertisingProofs, Bme280Proofs, TLAPS

--------------------------------------------------------------------------------
(* The MQTT client. *)

(* Before the client connects there is no session. *)
LEMMA MqttStarts == MqttInit => MqttInv
<1> SUFFICES ASSUME MqttInit PROVE MqttInv
  OBVIOUS
<1>1. losses \in 0..MAX_LOSSES /\ messages \in 0..MAX_MESSAGES
  BY MqttConstants DEF MqttInit
<1>2. commanded \in [SwitchedLeds -> BOOLEAN]
  BY DEF MqttInit
<1> QED
  BY <1>1, <1>2 DEF MqttInit, MqttInv, MqttTypeOK, SessionOverNetwork

(* One more loss or command stays within its bound. *)
LEMMA MqttCounts ==
  ASSUME NEW n \in Nat, NEW k \in 0..n, k < n PROVE k + 1 \in 0..n
OBVIOUS

(* Every step keeps the invariant. *)
LEMMA MqttStep == MqttInv /\ [MqttNext]_mqttVars => MqttInv'
<1> SUFFICES ASSUME MqttInv, [MqttNext]_mqttVars PROVE MqttInv'
  OBVIOUS
<1> USE MqttConstants DEF MqttInv, MqttTypeOK, SessionOverNetwork
<1>1. CASE UNCHANGED mqttVars
  BY <1>1 DEF mqttVars
<1>2. CASE NetworkUp
  BY <1>2 DEF NetworkUp
<1>3. CASE NetworkDown
  BY <1>3, MqttCounts DEF NetworkDown, SessionEnds
<1>4. CASE HelperInit \/ HelperInitFails
  BY <1>4 DEF HelperInit, HelperInitFails, Connecting
<1>5. CASE Open \/ OpenSucceeds \/ OpenFails
  BY <1>5 DEF Open, OpenSucceeds, OpenFails, Connecting
<1>6. CASE ConnackAccepted
  <2>1. /\ helper' = "connected" /\ (netUp' \/ late')
        /\ late' \in BOOLEAN /\ subscription' \in {"asked", "failed"}
    BY <1>6 DEF ConnackAccepted, Subscribes
  <2> QED
    BY <1>6, <2>1 DEF ConnackAccepted, Subscribes
<1>7. CASE ConnackRefused \/ BrokerGone
  BY <1>7 DEF ConnackRefused, BrokerGone, SessionEnds
<1>8. CASE Suback
  BY <1>8 DEF Suback
<1>9. CASE Press
  BY <1>9 DEF Press, Publishes
<1>10. CASE \E c \in Commands : Command(c)
  <2> PICK c \in Commands : Command(c)
    BY <1>10
  <2>1. c.led \in SwitchedLeds /\ c.on \in BOOLEAN
    BY DEF Commands
  <2>2. commanded' \in [SwitchedLeds -> BOOLEAN] /\ messages' \in 0..MAX_MESSAGES
    BY <2>1, MqttCounts DEF Command
  <2> QED
    BY <2>2 DEF Command
<1> QED
  BY <1>1, <1>2, <1>3, <1>4, <1>5, <1>6, <1>7, <1>8, <1>9, <1>10 DEF MqttNext

(* The session does not outlive the network that the manager knows of, but for
   a CONNACK that was handled after the loss. *)
THEOREM SessionNeedsNetwork == MqttSpec => []SessionOverNetwork
<1>1. MqttInv => SessionOverNetwork
  BY DEF MqttInv
<1> QED
  BY MqttStarts, MqttStep, <1>1, PTL DEF MqttSpec

--------------------------------------------------------------------------------
(* The blink driver. *)

(* A driver that has not started drives nothing. *)
LEMMA BlinkStarts == BlinkInit => BlinkInv
<1> SUFFICES ASSUME BlinkInit PROVE BlinkInv
  OBVIOUS
<1>1. calls \in 0..MAX_CALLS /\ pinErrors \in 0..MAX_PIN_ERRORS
  BY BlinkConstants DEF BlinkInit
<1> QED
  BY <1>1 DEF BlinkInit, BlinkInv, BlinkTypeOK, OffStaysOff

(* One more call or error stays within its bound. *)
LEMMA BlinkCounts ==
  ASSUME NEW n \in Nat, NEW k \in 0..n, k < n PROVE k + 1 \in 0..n
OBVIOUS

(* Every step keeps the invariant. *)
LEMMA BlinkStep == BlinkInv /\ [BlinkNext]_blinkVars => BlinkInv'
<1> SUFFICES ASSUME BlinkInv, [BlinkNext]_blinkVars PROVE BlinkInv'
  OBVIOUS
<1> USE BlinkConstants DEF BlinkInv, BlinkTypeOK, OffStaysOff
<1>1. CASE UNCHANGED blinkVars
  BY <1>1 DEF blinkVars
<1>2. CASE DriverStarts
  BY <1>2 DEF DriverStarts
<1>3. CASE DriverFails
  BY <1>3, BlinkCounts DEF DriverFails, PinFails
<1>4. CASE TimerExpires
  BY <1>4, BlinkCounts DEF TimerExpires, PinFails
<1>5. CASE \E c \in Callers : StartBlinking(c)
  BY <1>5, BlinkCounts DEF StartBlinking, CallBegins
<1>6. CASE \E c \in Callers : StopTimer(c)
  BY <1>6, BlinkCounts DEF StopTimer, CallBegins
<1>7. CASE \E c \in Callers : ClearLed(c)
  BY <1>7, BlinkCounts DEF ClearLed, PinFails
<1> QED
  BY <1>1, <1>2, <1>3, <1>4, <1>5, <1>6, <1>7 DEF BlinkNext, StopBlinking

(* When every call has returned and the timer is stopped, the LED is off,
   however callers and the interrupt were interleaved. *)
THEOREM LedStaysOff == BlinkSpec => []OffStaysOff
<1>1. BlinkInv => OffStaysOff
  BY DEF BlinkInv
<1> QED
  BY BlinkStarts, BlinkStep, <1>1, PTL DEF BlinkSpec

--------------------------------------------------------------------------------
(* LED 2. *)

(* The LED is off and nothing is reported. *)
LEMMA LedsStart == LedsInit => LedsInv
<1> SUFFICES ASSUME LedsInit PROVE LedsInv
  OBVIOUS
<1>1. touches \in 0..MAX_TOUCHES
  BY LedsConstants DEF LedsInit
<1>2. mainPc \in DOMAIN AfterCall \cup {"absent", "toggle", "sleep", "ended"}
  BY DEF LedsInit, AfterCall
<1> QED
  BY <1>1, <1>2 DEF LedsInit, LedsInv, LedsTypeOK

(* One more press or update stays within its bound. *)
LEMMA LedsCount ==
  ASSUME NEW n \in Nat, NEW k \in 0..n, k < n PROVE k + 1 \in 0..n
OBVIOUS

(* Every step keeps the invariant. *)
LEMMA LedsStep == LedsInv /\ [LedsNext]_ledsVars => LedsInv'
<1> SUFFICES ASSUME LedsInv, [LedsNext]_ledsVars PROVE LedsInv'
  OBVIOUS
<1> USE LedsConstants DEF LedsInv, LedsTypeOK
<1>1. CASE UNCHANGED ledsVars
  BY <1>1 DEF ledsVars
<1>2. CASE Configures
  <2>1. networkPc = "leds" /\ networkPc' = "leds"
    BY <1>2 DEF Configures
  <2>2. mainPc' \in DOMAIN AfterCall \cup {"toggle"}
    BY <1>2 DEF Configures, AfterCall
  <2> QED
    BY <1>2, <2>1, <2>2 DEF Configures
<1>3. CASE MainFails
  BY <1>3 DEF MainFails, AfterCall
<1>4. CASE MainLoops
  BY <1>4 DEF MainLoops, AfterCall
<1>5. CASE pin_isr
  BY <1>5, LedsCount DEF pin_isr, Touch
<1>6. CASE LedsInitialised
  BY <1>6 DEF LedsInitialised, NetworkMayRun, AfterCall
<1>7. CASE ServerStarted
  BY <1>7 DEF ServerStarted, NetworkMayRun, AfterCall
<1>8. CASE \E on \in BOOLEAN : LedUpdated(on)
  <2> PICK on \in BOOLEAN : LedUpdated(on)
    BY <1>8
  <2>1. touches' \in 0..MAX_TOUCHES
    BY LedsCount DEF LedUpdated, Touch
  <2>2. led_state' \in BOOLEAN
    BY DEF LedUpdated
  <2> QED
    BY <2>1, <2>2 DEF LedUpdated
<1> QED
  BY <1>1, <1>2, <1>3, <1>4, <1>5, <1>6, <1>7, <1>8 DEF LedsNext

(* A right report of LED 2 is made wrong by a press of button 1 or a failing call of
   the LED library, and by nothing else: not by main, whose configuring is over
   when the report begins. *)
THEOREM LedMisledByPressOnly == LedsSpec => OnlyPressMisleads
<1>1. LedsInv /\ [LedsNext]_ledsVars => [Agrees /\ ~Agrees' => Presses \/ ledFault']_ledsVars
  <2> SUFFICES ASSUME LedsInv, LedsNext, Agrees, ~Agrees'
               PROVE  Presses \/ ledFault'
    OBVIOUS
  <2> USE DEF Agrees
  <2>1. CASE Configures
    <3>1. networkPc = "leds"
      BY <2>1 DEF Configures, LedsInv
    <3> QED BY <2>1, <3>1 DEF Configures
  <2>2. CASE MainFails \/ MainLoops
    BY <2>2 DEF MainFails, MainLoops
  <2>3. CASE pin_isr
    BY <2>3 DEF pin_isr, Presses
  <2>4. CASE LedsInitialised
    BY <2>4 DEF LedsInitialised, LedsInv
  <2>5. CASE ServerStarted
    BY <2>5 DEF ServerStarted
  <2>6. CASE \E on \in BOOLEAN : LedUpdated(on)
    BY <2>6 DEF LedUpdated
  <2> QED BY <2>1, <2>2, <2>3, <2>4, <2>5, <2>6 DEF LedsNext
<1> QED BY LedsStart, LedsStep, <1>1, PTL DEF LedsSpec, OnlyPressMisleads

--------------------------------------------------------------------------------
(* The parts side by side. *)

(* Each part behaves as it does alone: no step of another disturbs it. *)
LEMMA PartsKeepToThemselves ==
  /\ Init => BleInit /\ MqttInit /\ BlinkInit /\ BmeInit /\ LedsInit
  /\ [Next]_vars => /\ [BleNext]_bleVars /\ [MqttNext]_mqttVars /\ [BlinkNext]_blinkVars
                    /\ [BmeNext]_bmeVars /\ [LedsNext]_ledsVars
<1>1. Init => BleInit /\ MqttInit /\ BlinkInit /\ BmeInit /\ LedsInit
  BY DEF Init
<1>2. ASSUME [Next]_vars
      PROVE  /\ [BleNext]_bleVars /\ [MqttNext]_mqttVars /\ [BlinkNext]_blinkVars
             /\ [BmeNext]_bmeVars /\ [LedsNext]_ledsVars
  BY <1>2, Zenon DEF Next, vars
<1> QED BY <1>1, <1>2

(* So what is proved of a part alone holds of it beside the others. *)
THEOREM PartsBehaveAlone == Spec => BleSpec /\ MqttSpec /\ BlinkSpec /\ BmeSpec /\ LedsSpec
BY PartsKeepToThemselves, PTL DEF Spec, BleSpec, MqttSpec, BlinkSpec, BmeSpec, LedsSpec

(* The inductive invariants of all parts, types included. *)
THEOREM PartsAreInvariant == Spec => []PartsInv
<1>1. PartsInv /\ [Next]_vars => PartsInv'
  BY PartsKeepToThemselves, BleStep, MqttStep, BlinkStep, BmeStep, LedsStep DEF PartsInv
<1>2. Init => PartsInv
  BY PartsKeepToThemselves, BleBegins, MqttStarts, BlinkStarts, BmeBegins, LedsStart DEF PartsInv
<1> QED BY <1>1, <1>2, PTL DEF Spec
================================================================================
