---------------------------- MODULE BleAdvertising -----------------------------
(***************************************************************************)
(* Advertising for Wi-Fi provisioning over Bluetooth (application/         *)
(* network_manager.c, with CONFIG_BT_WIFI_PROV).  The network thread       *)
(* starts advertising and then sets up a work queue, the daemon, with two  *)
(* delayable work items: "data" brings the advertised Wi-Fi status up to   *)
(* date and reschedules itself, "param" stops advertising and starts it    *)
(* again.  The callbacks connected() and disconnected() run in a           *)
(* cooperative thread of the Bluetooth stack and cancel or reschedule the  *)
(* items at any moment, also between two calls of a running handler.       *)
(*                                                                         *)
(* A work item is waiting for its delay, or queued, or running, or several *)
(* of these at once.  Cancelling an item that runs marks it as being       *)
(* cancelled: until its handler returns it is not accepted by the queue,   *)
(* but it may still be given a delay.                                      *)
(***************************************************************************)
EXTENDS Integers

CONSTANTS
  Statuses,      (* what the advertisement can tell of the Wi-Fi connection   *)
  NotAssociated, (* what it tells without one                                 *)
  MAX_LINKS,     (* bound: Bluetooth connections                              *)
  MAX_CHANGES,   (* bound: changes of the Wi-Fi status                        *)
  MAX_ERRORS     (* bound: failing calls of the Bluetooth and network stacks  *)

ASSUME BleConstants ==
  /\ NotAssociated \in Statuses
  /\ MAX_LINKS \in Nat /\ MAX_CHANGES \in Nat /\ MAX_ERRORS \in Nat

VARIABLES
  bleBoot,         (* how far the network thread has come; "out": not compiled in *)
  bt,              (* a central is connected: "up" or "down"                  *)
  advertising,
  advFailed,       (* the last attempt to start advertising again failed      *)
  wifiStatus,      (* the state of the Wi-Fi interface                        *)
  prov_svc_data,   (* the status that is to be advertised                     *)
  onAir,           (* the status that is advertised                           *)
  delayed,         (* work items that wait for their delay                    *)
  queued, front,   (* work items in the queue; the first one if both are      *)
  daemon,          (* what the work queue's thread does next                  *)
  canceling,       (* the running data item is being cancelled                *)
  cancel,          (* what cancelling came to in the present connection       *)
  refused,         (* the queue refused the data item since the last accepted *)
  links, changes, errors  (* connections, status changes and errors so far    *)

workVars == <<delayed, queued, front, daemon, canceling, cancel, refused>>
airVars == <<bt, advertising, advFailed, onAir>>
statusVars == <<wifiStatus, prov_svc_data>>
bleVars == <<bleBoot, workVars, airVars, statusVars, links, changes, errors>>

Items == {"data", "param"}
Other == [data |-> "param", param |-> "data"]

(* The calls of the two handlers, in their order. *)
DataSteps == {"status", "update", "again", "return"}
ParamSteps == {"stop", "start"}

BootSteps == {"out", "start", "queue", "items", "schedule", "over", "failed", "undefined"}

BleTypeOK ==
  /\ bleBoot \in BootSteps /\ bt \in {"down", "up"}
  /\ advertising \in BOOLEAN /\ advFailed \in BOOLEAN
  /\ wifiStatus \in Statuses /\ prov_svc_data \in Statuses /\ onAir \in Statuses
  /\ delayed \subseteq Items /\ queued \subseteq Items /\ front \in Items
  /\ daemon \in {"idle"} \cup DataSteps \cup ParamSteps
  /\ canceling \in BOOLEAN /\ refused \in BOOLEAN
  /\ cancel \in {"none", "done", "running", "early"}
  /\ links \in 0..MAX_LINKS /\ changes \in 0..MAX_CHANGES /\ errors \in 0..MAX_ERRORS

BleInit ==
  /\ bleBoot \in {"out", "start"} /\ bt = "down"
  /\ advertising = FALSE /\ advFailed = FALSE
  /\ wifiStatus \in Statuses /\ prov_svc_data = wifiStatus /\ onAir = wifiStatus
  /\ delayed = {} /\ queued = {} /\ front = "data"
  /\ daemon = "idle" /\ canceling = FALSE /\ cancel = "none" /\ refused = FALSE
  /\ links = 0 /\ changes = 0 /\ errors = 0

--------------------------------------------------------------------------------
(* The work queue. *)

DataRuns == daemon \in DataSteps
IsPending(i) == i \in delayed \cup queued

(* An item that is queued already stays where it is. *)
Enqueue(i) == /\ queued' = queued \cup {i}
              /\ front' = IF queued = {} THEN i ELSE front

Dequeue(i) == /\ queued' = queued \ {i}
              /\ front' = IF front = i THEN Other[i] ELSE front

(* The queue accepts no item that is being cancelled. *)
Submit(i) == IF i = "data" /\ canceling
               THEN refused' = TRUE /\ UNCHANGED <<queued, front>>
               ELSE /\ Enqueue(i)
                    /\ refused' = IF i = "data" THEN FALSE ELSE refused

(* The delay of an item is over. *)
Expires(i) ==
  /\ bleBoot # "undefined"
  /\ i \in delayed /\ delayed' = delayed \ {i}
  /\ Submit(i)
  /\ UNCHANGED <<bleBoot, daemon, canceling, cancel, airVars, statusVars, links, changes, errors>>

(* The daemon takes the first item. *)
TakeWork(i) ==
  /\ bleBoot # "undefined" /\ daemon = "idle"
  /\ i \in queued /\ (queued = Items => front = i)
  /\ Dequeue(i)
  /\ daemon' = IF i = "data" THEN "status" ELSE "stop"
  /\ UNCHANGED <<bleBoot, delayed, canceling, cancel, refused, airVars, statusVars,
                 links, changes, errors>>

DaemonStep(from, to) ==
  /\ bleBoot # "undefined" /\ daemon = from /\ daemon' = to
  /\ UNCHANGED <<bleBoot, queued, front, cancel, refused, bt, wifiStatus, links, changes>>

Succeeds == UNCHANGED errors
Fails == errors < MAX_ERRORS /\ errors' = errors + 1

--------------------------------------------------------------------------------
(* update_adv_data_task *)

(* A status that cannot be had is advertised as no connection. *)
ReadStatus ==
  /\ DaemonStep("status", "update")
  /\ \/ Succeeds /\ prov_svc_data' = wifiStatus
     \/ Fails /\ prov_svc_data' = NotAssociated
  /\ UNCHANGED <<delayed, canceling, advertising, advFailed, onAir>>

UpdateData ==
  /\ DaemonStep("update", "again")
  /\ \/ Succeeds /\ onAir' = prov_svc_data
     \/ Fails /\ UNCHANGED onAir
  /\ UNCHANGED <<delayed, canceling, advertising, advFailed, prov_svc_data>>

(* Mutant of RescheduleData: a failing update ends the updates. *)
RescheduleUnlessFailed ==
  /\ DaemonStep("again", "return")
  /\ delayed' = IF onAir = prov_svc_data THEN delayed \cup {"data"} ELSE delayed
  /\ UNCHANGED <<canceling, advertising, advFailed, onAir, prov_svc_data, errors>>

RescheduleData ==
  /\ DaemonStep("again", "return")
  /\ delayed' = delayed \cup {"data"}
  /\ UNCHANGED <<canceling, advertising, advFailed, onAir, prov_svc_data, errors>>

(* The handler returns, and with it ends the cancelling of its item. *)
DataReturns ==
  /\ DaemonStep("return", "idle")
  /\ canceling' = FALSE
  /\ UNCHANGED <<delayed, advertising, advFailed, onAir, prov_svc_data, errors>>

(* update_adv_param_task *)

StopAdvertising ==
  /\ \/ DaemonStep("stop", "start") /\ Succeeds /\ advertising' = FALSE /\ UNCHANGED advFailed
     \/ DaemonStep("stop", "idle") /\ Fails /\ advFailed' = TRUE /\ UNCHANGED advertising
  /\ UNCHANGED <<delayed, canceling, onAir, prov_svc_data>>

(* Mutant of StartAdvertising: the restart is left out. *)
NotStarted ==
  /\ DaemonStep("start", "idle")
  /\ UNCHANGED <<delayed, canceling, advertising, advFailed, onAir, prov_svc_data, errors>>

StartAdvertising ==
  /\ DaemonStep("start", "idle")
  /\ \/ Succeeds /\ advertising' = TRUE /\ advFailed' = FALSE /\ onAir' = prov_svc_data
     \/ Fails /\ advFailed' = TRUE /\ UNCHANGED <<advertising, onAir>>
  /\ UNCHANGED <<delayed, canceling, prov_svc_data>>

Daemon == \/ \E i \in Items : TakeWork(i)
          \/ ReadStatus \/ UpdateData \/ RescheduleData \/ DataReturns
          \/ StopAdvertising \/ StartAdvertising

--------------------------------------------------------------------------------
(* The network thread. *)

BootStep(from, to) ==
  /\ bleBoot = from /\ bleBoot' = to
  /\ UNCHANGED <<queued, front, daemon, canceling, cancel, refused, bt, advFailed,
                 wifiStatus, links, changes, errors>>

BleStarts ==
  /\ BootStep("start", "queue")
  /\ prov_svc_data' \in {wifiStatus, NotAssociated} /\ onAir' = prov_svc_data'
  /\ advertising' = TRUE
  /\ UNCHANGED delayed

(* Each failing call ends the network thread. *)
BleBootFails ==
  /\ BootStep("start", "failed")
  /\ UNCHANGED <<delayed, advertising, onAir, prov_svc_data>>

StartQueue ==
  /\ BootStep("queue", "items")
  /\ UNCHANGED <<delayed, advertising, onAir, prov_svc_data>>

InitItems ==
  /\ BootStep("items", "schedule")
  /\ UNCHANGED <<delayed, advertising, onAir, prov_svc_data>>

(* Mutant of ScheduleData: both items are scheduled. *)
ScheduleBoth ==
  /\ BootStep("schedule", "over")
  /\ delayed' = delayed \cup Items
  /\ UNCHANGED <<advertising, onAir, prov_svc_data>>

(* k_work_schedule_for_queue leaves an item alone that is pending already. *)
ScheduleData ==
  /\ BootStep("schedule", "over")
  /\ delayed' = IF IsPending("data") \/ canceling THEN delayed ELSE delayed \cup {"data"}
  /\ UNCHANGED <<advertising, onAir, prov_svc_data>>

BleBoot == BleStarts \/ BleBootFails \/ StartQueue \/ InitItems \/ ScheduleData

--------------------------------------------------------------------------------
(* Centrals and the callbacks. *)

(* Mutant of CancelData: nothing is cancelled. *)
CancelNothing == UNCHANGED <<delayed, queued, front, canceling>>

CancelData ==
  /\ delayed' = delayed \ {"data"}
  /\ Dequeue("data")
  /\ canceling' = (canceling \/ DataRuns)

(* A connection ends advertising.  connected() ignores what cancelling returns,
   and does nothing when the connection failed (lines 206-210). *)
Connected ==
  /\ bleBoot # "undefined" /\ advertising /\ links < MAX_LINKS
  /\ links' = links + 1
  /\ bt' = "up" /\ advertising' = FALSE
  /\ CancelData
  /\ cancel' = IF bleBoot # "over" THEN "early" ELSE IF DataRuns THEN "running" ELSE "done"
  /\ UNCHANGED <<bleBoot, daemon, refused, advFailed, onAir, statusVars, changes, errors>>

(* "param" gets a delay, "data" is submitted at once. *)
Reschedule ==
  /\ delayed' = (delayed \cup {"param"}) \ {"data"}
  /\ Submit("data")

(* Mutant of Disconnected: only the data item is rescheduled. *)
DisconnectedDataOnly ==
  /\ bt = "up" /\ bleBoot \in {"schedule", "over"}
  /\ bt' = "down" /\ cancel' = "none"
  /\ Submit("data") /\ delayed' = delayed \ {"data"}
  /\ UNCHANGED <<bleBoot, daemon, canceling, advertising, advFailed, onAir, statusVars,
                 links, changes, errors>>

Disconnected ==
  /\ bt = "up" /\ bleBoot \in {"schedule", "over"}
  /\ bt' = "down" /\ cancel' = "none"
  /\ Reschedule
  /\ UNCHANGED <<bleBoot, daemon, canceling, advertising, advFailed, onAir, statusVars,
                 links, changes, errors>>

(* disconnected() would reschedule items that are not initialised yet. *)
DisconnectedTooEarly ==
  /\ bt = "up" /\ bleBoot \in {"queue", "items"}
  /\ bt' = "down" /\ cancel' = "none" /\ bleBoot' = "undefined"
  /\ UNCHANGED <<delayed, queued, front, daemon, canceling, refused, advertising, advFailed,
                 onAir, statusVars, links, changes, errors>>

WifiChanges ==
  /\ bleBoot \notin {"out", "undefined"} /\ changes < MAX_CHANGES
  /\ wifiStatus' \in Statuses \ {wifiStatus} /\ changes' = changes + 1
  /\ UNCHANGED <<bleBoot, workVars, airVars, prov_svc_data, links, errors>>

BleNext == \/ BleBoot \/ Daemon \/ \E i \in Items : Expires(i)
           \/ Connected \/ Disconnected \/ DisconnectedTooEarly \/ WifiChanges

(* Threads are scheduled and delays end.  No central has to come or go. *)
BleFairness == /\ WF_bleVars(BleBoot) /\ WF_bleVars(Daemon)
               /\ \A i \in Items : WF_bleVars(Expires(i))

BleSpec == BleInit /\ [][BleNext]_bleVars

--------------------------------------------------------------------------------
(* Properties. *)

(* "Upon a connected event, cancel update_adv_data_work" (line 215): during a
   connection the data item neither waits nor runs, unless cancelling found its
   handler running, which reschedules it (line 311), or the network thread had
   yet to schedule it (line 680). *)
CancelledMeansQuiet == cancel = "done" => ~IsPending("data") /\ ~DataRuns

(* update_adv_param_task (lines 320-330) runs only without a connection and
   without advertising: it never stops an advertisement that a central could
   answer, and bt_le_adv_start() is never called over a connection. *)
RestartsOnlyWhenDown ==
  IsPending("param") \/ daemon \in ParamSteps => bt = "down" /\ ~advertising

(* What else holds of the work items: only a handler that runs is being
   cancelled, the param item is waiting, queued or running but never two of
   these, nothing is pending before the items are initialised, and a device
   that neither advertises nor has a connection is about to advertise, unless it
   was told that it cannot. *)
ItemsAgree ==
  /\ cancel = "none" <=> bt = "down"
  /\ bt = "up" => ~advertising
  /\ canceling => DataRuns
  /\ daemon \in ParamSteps => ~IsPending("param")
  /\ "param" \notin delayed \cap queued
  /\ bleBoot \in {"out", "start", "failed"} => bt = "down" /\ ~advertising
  /\ bleBoot # "over" => cancel # "done"
  /\ bleBoot \notin {"schedule", "over"} => delayed = {} /\ queued = {} /\ daemon = "idle"
  /\ bleBoot \in {"queue", "items", "schedule", "over"} =>
       bt = "up" \/ advertising \/ advFailed \/ IsPending("param") \/ daemon \in ParamSteps

(* The inductive invariant of the proofs. *)
BleInv == BleTypeOK /\ CancelledMeansQuiet /\ RestartsOnlyWhenDown /\ ItemsAgree

(* Without a connection the device advertises again (lines 226-228, 320-330),
   unless bt_le_adv_stop() or bt_le_adv_start() failed: nothing tries again. *)
AdvertisesAgain ==
  (bleBoot = "over" /\ bt = "down") ~> (advertising \/ bt = "up" \/ advFailed)

(* A Wi-Fi status that lasts is advertised in the end, failing updates
   notwithstanding (line 311), unless the queue refused the data item because it
   was just being cancelled. *)
StatusAdvertised ==
  \A s \in Statuses :
    <>[](wifiStatus = s /\ advertising /\ ~refused) => <>[](onAir = s)
================================================================================
