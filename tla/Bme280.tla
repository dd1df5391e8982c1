-------------------------------- MODULE Bme280 ---------------------------------
(***************************************************************************)
(* The BME280 driver (hal/ext_drivers/custom_driver_module/drivers/sensor/ *)
(* custom_bme280/custom_bme280.c): initialisation, fetching a sample, and  *)
(* power management.  Any thread may fetch; only the lock of the power     *)
(* management, held while it resumes or suspends the device, keeps         *)
(* fetchers apart.                                                         *)
(*                                                                         *)
(* Zephyr's runtime power management counts the device's users: the first  *)
(* get resumes the device, the last put suspends it.  A get whose resume   *)
(* fails does not count, a put whose suspend fails is taken back, and a    *)
(* put without a user is refused.  The driver ignores what both return.    *)
(***************************************************************************)
EXTENDS Integers, FiniteSets

CONSTANTS
  Fetchers,      (* threads that fetch samples                                *)
  MAX_FETCHES,   (* bound: samples fetched                                    *)
  MAX_SPI_ERRORS (* bound: failing SPI transfers                              *)

ASSUME FetchersFinite == IsFiniteSet(Fetchers)
ASSUME FetchersNamed == "boot" \notin Fetchers /\ "nobody" \notin Fetchers
ASSUME Bme280Bounds == MAX_FETCHES \in Nat /\ MAX_SPI_ERRORS \in Nat

VARIABLES
  sensor,        (* "absent", "off", "failed", or "ready" for use             *)
  starter,       (* who runs custom_bme280_init: the boot, a fetcher, no one  *)
  initPc,        (* and what it does next                                     *)
  calibrated,    (* the compensation parameters are read                      *)
  runtime,       (* power management is enabled for the device                *)
  usage,         (* users of the device, as power management counts them      *)
  power,         (* "active" or "suspended", as power management sees it      *)
  fetch,         (* what each fetcher does next                               *)
  took,          (* fetchers whose get was counted                            *)
  kept,          (* a suspend failed and its put was taken back               *)
  stray,         (* a put was made for a get that was not counted             *)
  fetches, spiErrors

initVars == <<sensor, starter, initPc, calibrated, runtime>>
pmVars == <<usage, power, took, kept, stray>>
bmeVars == <<initVars, pmVars, fetch, fetches, spiErrors>>

AfterInitStep == [id |-> "ready", ready |-> "parameters", parameters |-> "humidity",
                  humidity |-> "measure", measure |-> "done"]

BmeTypeOK ==
  /\ sensor \in {"absent", "off", "failed", "ready"}
  /\ starter \in Fetchers \cup {"boot", "nobody"}
  /\ initPc \in DOMAIN AfterInitStep \cup {"done"}
  /\ calibrated \in BOOLEAN /\ runtime \in BOOLEAN
  /\ usage \in Nat /\ power \in {"active", "suspended"}
  /\ fetch \in [Fetchers -> {"idle", "get", "wait", "read", "compensate", "put"}]
  /\ took \subseteq Fetchers /\ kept \in BOOLEAN /\ stray \in BOOLEAN
  /\ fetches \in 0..MAX_FETCHES /\ spiErrors \in 0..MAX_SPI_ERRORS

BmeInit ==
  /\ sensor \in {"absent", "off"}
  /\ starter = "nobody" /\ initPc = "done" /\ calibrated = FALSE
  /\ runtime = FALSE /\ usage = 0 /\ power = "active"
  /\ fetch = [f \in Fetchers |-> "idle"] /\ took = {}
  /\ kept = FALSE /\ stray = FALSE
  /\ fetches = 0 /\ spiErrors = 0

TransferFails == spiErrors < MAX_SPI_ERRORS /\ spiErrors' = spiErrors + 1

--------------------------------------------------------------------------------
(* custom_bme280_init, at boot and whenever power management resumes. *)

DeviceStarts ==
  /\ sensor = "off" /\ starter = "nobody"
  /\ starter' = "boot" /\ initPc' = "id"
  /\ UNCHANGED <<sensor, calibrated, runtime, pmVars, fetch, fetches, spiErrors>>

ParametersRead == initPc = "parameters"

(* One step: the chip's id, waiting until it is ready, the compensation
   parameters, and the two writes. *)
InitStep ==
  /\ initPc \in DOMAIN AfterInitStep \ {"measure"}
  /\ initPc' = AfterInitStep[initPc]
  /\ calibrated' = (calibrated \/ ParametersRead)
  /\ UNCHANGED <<sensor, starter, runtime, pmVars, fetch, fetches, spiErrors>>

InitEnds == starter' = "nobody" /\ initPc' = "done" /\ UNCHANGED calibrated

(* The device is ready.  Power management may then be enabled for it, which
   suspends it. *)
BootCompletes ==
  /\ initPc = "measure" /\ starter = "boot" /\ InitEnds
  /\ sensor' = "ready"
  /\ runtime' \in BOOLEAN
  /\ power' = IF runtime' THEN "suspended" ELSE "active"
  /\ UNCHANGED <<usage, took, kept, stray, fetch, fetches, spiErrors>>

Resumed(f) ==
  /\ initPc = "measure" /\ starter = f /\ InitEnds
  /\ usage' = 1 /\ power' = "active" /\ took' = took \cup {f}
  /\ fetch' = [fetch EXCEPT ![f] = "wait"]
  /\ UNCHANGED <<sensor, runtime, kept, stray, fetches, spiErrors>>

(* A transfer fails, or the chip has another id. *)
BootFails ==
  /\ starter = "boot" /\ TransferFails /\ InitEnds
  /\ sensor' = "failed"
  /\ UNCHANGED <<runtime, pmVars, fetch, fetches>>

ResumeFails(f) ==
  /\ starter = f /\ TransferFails /\ InitEnds
  /\ fetch' = [fetch EXCEPT ![f] = "wait"]
  /\ UNCHANGED <<sensor, runtime, pmVars, fetches>>

--------------------------------------------------------------------------------
(* custom_bme280_sample_fetch *)

FetchStep(f, from, to) ==
  /\ fetch[f] = from /\ fetch' = [fetch EXCEPT ![f] = to]

(* A failing transfer ends the fetch, but for the put. *)
FetchFails(f, from) == FetchStep(f, from, "put") /\ TransferFails

FetchBegins(f) ==
  /\ sensor = "ready" /\ FetchStep(f, "idle", "get")
  /\ fetches < MAX_FETCHES /\ fetches' = fetches + 1
  /\ UNCHANGED <<initVars, pmVars, spiErrors>>

(* pm_device_runtime_get resumes a device that nobody uses, *)
GetResumes(f) ==
  /\ fetch[f] = "get" /\ starter = "nobody" /\ runtime /\ usage = 0
  /\ starter' = f /\ initPc' = "id"
  /\ UNCHANGED <<sensor, calibrated, runtime, pmVars, fetch, fetches, spiErrors>>

(* otherwise it counts, or, if it is not enabled, does nothing. *)
Get(f) ==
  /\ FetchStep(f, "get", "wait") /\ starter = "nobody"
  /\ IF runtime
       THEN usage > 0 /\ usage' = usage + 1 /\ took' = took \cup {f}
       ELSE UNCHANGED <<usage, took>>
  /\ UNCHANGED <<initVars, power, kept, stray, fetches, spiErrors>>

WaitUntilReady(f) ==
  /\ \/ FetchStep(f, "wait", "read") /\ UNCHANGED spiErrors
     \/ FetchFails(f, "wait")
  /\ UNCHANGED <<initVars, pmVars, fetches>>

(* Mutant of ReadRegisters: a failing read returns without the put. *)
ReadReturns(f) ==
  /\ \/ FetchStep(f, "read", "compensate") /\ UNCHANGED spiErrors
     \/ FetchStep(f, "read", "idle") /\ TransferFails
  /\ UNCHANGED <<initVars, pmVars, fetches>>

ReadRegisters(f) ==
  /\ \/ FetchStep(f, "read", "compensate") /\ UNCHANGED spiErrors
     \/ FetchFails(f, "read")
  /\ UNCHANGED <<initVars, pmVars, fetches>>

Compensate(f) ==
  /\ FetchStep(f, "compensate", "put")
  /\ UNCHANGED <<initVars, pmVars, fetches, spiErrors>>

(* The last put suspends the device, which is one write. *)
Suspend ==
  \/ usage' = 0 /\ power' = "suspended" /\ UNCHANGED <<kept, spiErrors>>
  \/ TransferFails /\ kept' = TRUE /\ UNCHANGED <<usage, power>>

(* pm_device_runtime_put *)
Put(f) ==
  /\ FetchStep(f, "put", "idle") /\ starter = "nobody"
  /\ took' = took \ {f}
  /\ stray' = (stray \/ (usage > 0 /\ f \notin took))
  /\ IF usage = 1
       THEN Suspend
       ELSE /\ usage' = IF usage = 0 THEN 0 ELSE usage - 1
            /\ UNCHANGED <<power, kept, spiErrors>>
  /\ UNCHANGED <<initVars, fetches>>

BmeNext ==
  \/ DeviceStarts \/ InitStep \/ BootCompletes \/ BootFails
  \/ \E f \in Fetchers :
       \/ Resumed(f) \/ ResumeFails(f) \/ FetchBegins(f) \/ GetResumes(f) \/ Get(f)
       \/ WaitUntilReady(f) \/ ReadRegisters(f) \/ Compensate(f) \/ Put(f)

BmeSpec == BmeInit /\ [][BmeNext]_bmeVars

--------------------------------------------------------------------------------
(* Properties. *)

(* Every fetch gives back what it took, on each of its exits (lines 258-298),
   and the device is active exactly while its users are counted.  The count may
   exceed the users by one for ever, after a suspend has failed, and tells
   nothing any more once a fetch whose resume had failed has put all the same,
   for another's get (line 255 ignores the failure). *)
PowerBalanced ==
  /\ \A f \in took : fetch[f] \in {"wait", "read", "compensate", "put"}
  /\ runtime => (power = "active" <=> usage > 0)
  /\ stray \/ usage = Cardinality(took) + IF kept THEN 1 ELSE 0

(* What else holds: samples are compensated with parameters that were read, and
   the lock has one holder. *)
InitAgrees ==
  /\ starter = "nobody" <=> initPc = "done"
  /\ starter \in Fetchers => runtime /\ usage = 0 /\ fetch[starter] = "get"
  /\ sensor = "ready" => calibrated /\ starter # "boot"
  /\ sensor # "ready" => fetch = [f \in Fetchers |-> "idle"] /\ ~runtime
  /\ initPc \in {"humidity", "measure"} => calibrated
  /\ ~runtime => usage = 0 /\ took = {}

(* The inductive invariant of the proofs. *)
BmeInv == BmeTypeOK /\ PowerBalanced /\ InitAgrees
================================================================================
