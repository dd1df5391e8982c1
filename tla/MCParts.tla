------------------------------- MODULE MCParts ---------------------------------
(***************************************************************************)
(* Small instances for TLC of the parts that share nothing with the others *)
(* and little with each other: advertising, the MQTT client, the blink and *)
(* BME280 drivers, and LED 2.  Each behaviour is one of one part, as every *)
(* other part begins as absent and stays so: of parts without a common     *)
(* variable, interleavings show nothing that the parts alone do not.       *)
(***************************************************************************)
EXTENDS BleAdvertising, MqttClient, BlinkDriver, Bme280, Leds

Present == {part \in {"ble", "mqtt", "blink", "bme280", "leds"} :
              \/ part = "ble" /\ bleBoot # "out"
              \/ part = "mqtt" /\ mqttBoot # "out"
              \/ part = "blink" /\ device # "absent"
              \/ part = "bme280" /\ sensor # "absent"
              \/ part = "leds" /\ mainPc # "absent"}

Init == /\ BleInit /\ MqttInit /\ BlinkInit /\ BmeInit /\ LedsInit
        /\ Cardinality(Present) = 1

Next ==
  \/ BleNext /\ UNCHANGED <<mqttVars, blinkVars, bmeVars, ledsVars>>
  \/ MqttNext /\ UNCHANGED <<bleVars, blinkVars, bmeVars, ledsVars>>
  \/ BlinkNext /\ UNCHANGED <<bleVars, mqttVars, bmeVars, ledsVars>>
  \/ BmeNext /\ UNCHANGED <<bleVars, mqttVars, blinkVars, ledsVars>>
  \/ LedsNext /\ UNCHANGED <<bleVars, mqttVars, blinkVars, bmeVars>>

vars == <<bleVars, mqttVars, blinkVars, bmeVars, ledsVars>>

Spec == Init /\ [][Next]_vars /\ BleFairness

(* The inductive invariants of all parts, types included, of which the proofs
   begin: see each part's own. *)
PartsInv == BleInv /\ MqttInv /\ BlinkInv /\ BmeInv /\ LedsInv

TwoStatuses == {"down", "up"}
TwoCallers == {"a", "b"}
================================================================================
