------------------------------ MODULE BlinkDriver ------------------------------
(***************************************************************************)
(* The blink driver (hal/ext_drivers/custom_driver_module/drivers/blink/   *)
(* gpio_led.c): a timer whose expiry, in an interrupt, toggles an LED.     *)
(* blink_set_period_ms() is a system call that any thread may make: with a *)
(* period it restarts the timer; with 0, which is blink_off(), it stops    *)
(* the timer and then switches the LED off.  Threads and the interrupt     *)
(* interleave between the two.                                             *)
(***************************************************************************)
EXTENDS Integers

CONSTANTS
  Callers,       (* threads that use the driver                               *)
  MAX_CALLS,     (* bound: calls                                              *)
  MAX_PIN_ERRORS (* bound: failing accesses to the pin                        *)

ASSUME BlinkConstants == MAX_CALLS \in Nat /\ MAX_PIN_ERRORS \in Nat

VARIABLES
  device,        (* "absent", "booting", "failed" or "ready"                  *)
  timer,         (* the timer runs                                            *)
  lit,           (* the LED is on                                             *)
  stopping,      (* callers between stopping the timer and clearing the pin   *)
  stuck,         (* the pin was not cleared since the timer was last stopped  *)
  calls, pinErrors

blinkVars == <<device, timer, lit, stopping, stuck, calls, pinErrors>>

BlinkTypeOK ==
  /\ device \in {"absent", "booting", "failed", "ready"}
  /\ timer \in BOOLEAN /\ lit \in BOOLEAN /\ stuck \in BOOLEAN
  /\ stopping \subseteq Callers
  /\ calls \in 0..MAX_CALLS /\ pinErrors \in 0..MAX_PIN_ERRORS

BlinkInit ==
  /\ device \in {"absent", "booting"}
  /\ timer = FALSE /\ lit = FALSE /\ stopping = {} /\ stuck = FALSE
  /\ calls = 0 /\ pinErrors = 0

PinFails == pinErrors < MAX_PIN_ERRORS /\ pinErrors' = pinErrors + 1

(* blink_gpio_led_init: the LED is configured and off, and blinks from the start
   if the devicetree gives a period. *)
DriverStarts ==
  /\ device = "booting" /\ device' = "ready"
  /\ timer' \in BOOLEAN
  /\ UNCHANGED <<lit, stopping, stuck, calls, pinErrors>>

DriverFails ==
  /\ device = "booting" /\ device' = "failed" /\ PinFails
  /\ UNCHANGED <<timer, lit, stopping, stuck, calls>>

(* blink_gpio_led_on_timer_expire *)
TimerExpires ==
  /\ timer
  /\ \/ lit' = ~lit /\ UNCHANGED pinErrors
     \/ PinFails /\ UNCHANGED lit
  /\ UNCHANGED <<device, timer, stopping, stuck, calls>>

CallBegins(c) ==
  /\ device = "ready" /\ c \notin stopping
  /\ calls < MAX_CALLS /\ calls' = calls + 1
  /\ UNCHANGED <<device, lit, pinErrors>>

(* blink_gpio_led_set_period_ms with a period *)
StartBlinking(c) ==
  /\ CallBegins(c)
  /\ timer' = TRUE
  /\ UNCHANGED <<stopping, stuck>>

(* Mutant of StopBlinking: the LED is switched off before the timer is stopped. *)
ClearThenStop(c) ==
  \/ /\ device = "ready" /\ c \notin stopping
     /\ calls < MAX_CALLS /\ calls' = calls + 1
     /\ lit' = FALSE /\ stopping' = stopping \cup {c} /\ stuck' = FALSE
     /\ UNCHANGED <<device, timer, pinErrors>>
  \/ /\ c \in stopping /\ stopping' = stopping \ {c}
     /\ timer' = FALSE
     /\ UNCHANGED <<device, lit, stuck, calls, pinErrors>>

(* blink_gpio_led_set_period_ms with 0: the timer is stopped, *)
StopTimer(c) ==
  /\ CallBegins(c)
  /\ timer' = FALSE /\ stopping' = stopping \cup {c} /\ stuck' = FALSE

(* and the LED switched off, which may fail. *)
ClearLed(c) ==
  /\ c \in stopping /\ stopping' = stopping \ {c}
  /\ \/ lit' = FALSE /\ UNCHANGED <<stuck, pinErrors>>
     \/ PinFails /\ stuck' = TRUE /\ UNCHANGED lit
  /\ UNCHANGED <<device, timer, calls>>

StopBlinking(c) == StopTimer(c) \/ ClearLed(c)

BlinkNext == \/ DriverStarts \/ DriverFails \/ TimerExpires
             \/ \E c \in Callers : StartBlinking(c) \/ StopBlinking(c)

BlinkSpec == BlinkInit /\ [][BlinkNext]_blinkVars

--------------------------------------------------------------------------------
(* Properties. *)

(* "0 to disable blinking" (blink.h:19): when the timer is stopped and every
   call has returned, the LED is off, whatever other callers and the interrupt
   did meanwhile, unless the pin could not be cleared. *)
OffStaysOff == ~timer /\ stopping = {} /\ ~stuck => ~lit

(* The inductive invariant of the proofs: a driver that has not started drives
   nothing. *)
BlinkInv ==
  /\ BlinkTypeOK /\ OffStaysOff
  /\ device # "ready" => ~timer /\ ~lit /\ stopping = {}
================================================================================
