------------------------- MODULE BleAdvertisingProofs --------------------------
(* Theorems about BleAdvertising, for every set of statuses and any number of
   connections, status changes and failing calls. *)
EXTENDS BleAdvertising, TLAPS

(* Before anything runs the invariant holds. *)
LEMMA BleBegins == BleInit => BleInv
<1> SUFFICES ASSUME BleInit PROVE BleInv
  OBVIOUS
<1>1. links \in 0..MAX_LINKS /\ changes \in 0..MAX_CHANGES /\ errors \in 0..MAX_ERRORS
  BY BleConstants DEF BleInit
<1>2. BleTypeOK
  BY <1>1 DEF BleInit, BleTypeOK, BootSteps, Items
<1> QED
  BY <1>2 DEF BleInit, BleInv, CancelledMeansQuiet, RestartsOnlyWhenDown, ItemsAgree,
              IsPending, DataRuns, DataSteps, ParamSteps

(* One more connection, change or error stays within its bound. *)
LEMMA BleCounts ==
  ASSUME NEW n \in Nat, NEW k \in 0..n, k < n PROVE k + 1 \in 0..n
OBVIOUS

(* What submitting an item does to the queue. *)
LEMMA Submitted ==
  ASSUME BleTypeOK, NEW i \in Items, Submit(i)
  PROVE  /\ queued' \in {queued, queued \cup {i}}
         /\ i = "param" => queued' = queued \cup {i}
         /\ front' \in Items /\ refused' \in BOOLEAN
BY DEF Submit, Enqueue, BleTypeOK

(* What taking an item from the queue does to it. *)
LEMMA Dequeued ==
  ASSUME BleTypeOK, NEW i \in Items, Dequeue(i)
  PROVE  queued' = queued \ {i} /\ front' \in Items
BY DEF Dequeue, BleTypeOK, Items, Other

--------------------------------------------------------------------------------
(* The network thread. *)

(* Booting schedules the data item and nothing else. *)
LEMMA BootKeeps == ASSUME BleInv, BleBoot PROVE BleInv'
<1> USE DEF BleInv, BleTypeOK, CancelledMeansQuiet, RestartsOnlyWhenDown, ItemsAgree,
            IsPending, DataRuns, DataSteps, ParamSteps, BootSteps, BootStep
<1>1. CASE BleStarts
  BY <1>1, BleConstants DEF BleStarts
<1>2. CASE BleBootFails
  BY <1>2 DEF BleBootFails
<1>3. CASE StartQueue
  BY <1>3 DEF StartQueue
<1>4. CASE InitItems
  BY <1>4 DEF InitItems
<1>5. CASE ScheduleData
  <2>1. delayed' \in {delayed, delayed \cup {"data"}}
    BY <1>5 DEF ScheduleData
  <2> QED
    BY <1>5, <2>1 DEF ScheduleData, Items
<1> QED
  BY <1>1, <1>2, <1>3, <1>4, <1>5 DEF BleBoot

--------------------------------------------------------------------------------
(* The work queue's thread. *)

(* An item whose delay is over may be queued. *)
LEMMA ExpiresKeeps == ASSUME BleInv, NEW i \in Items, Expires(i) PROVE BleInv'
<1>1. /\ queued' \in {queued, queued \cup {i}} /\ (i = "param" => queued' = queued \cup {i})
      /\ front' \in Items /\ refused' \in BOOLEAN
  BY Submitted DEF BleInv, Expires
<1> QED
  BY <1>1 DEF Expires, BleInv, BleTypeOK, CancelledMeansQuiet, RestartsOnlyWhenDown, ItemsAgree,
              IsPending, DataRuns, DataSteps, ParamSteps, BootSteps, Items, airVars, statusVars

(* The first item of the queue runs. *)
LEMMA TakeKeeps == ASSUME BleInv, NEW i \in Items, TakeWork(i) PROVE BleInv'
<1>1. queued' = queued \ {i} /\ front' \in Items
  BY Dequeued DEF BleInv, TakeWork
<1> QED
  BY <1>1 DEF TakeWork, BleInv, BleTypeOK, CancelledMeansQuiet, RestartsOnlyWhenDown, ItemsAgree,
              IsPending, DataRuns, DataSteps, ParamSteps, BootSteps, Items, airVars, statusVars

(* The steps of the two handlers. *)
LEMMA HandlersKeep ==
  ASSUME BleInv,
         \/ ReadStatus \/ UpdateData \/ RescheduleData \/ DataReturns
         \/ StopAdvertising \/ StartAdvertising
  PROVE  BleInv'
<1> USE BleConstants DEF BleInv, BleTypeOK, CancelledMeansQuiet, RestartsOnlyWhenDown, ItemsAgree,
            IsPending, DataRuns, DataSteps, ParamSteps, BootSteps, Items, DaemonStep, Succeeds, Fails
<1>1. CASE ReadStatus
  BY <1>1, BleCounts DEF ReadStatus
<1>2. CASE UpdateData
  BY <1>2, BleCounts DEF UpdateData
<1>3. CASE RescheduleData
  BY <1>3 DEF RescheduleData
<1>4. CASE DataReturns
  BY <1>4 DEF DataReturns
<1>5. CASE StopAdvertising
  <2>1. errors' \in 0..MAX_ERRORS /\ ~canceling
    BY <1>5, BleCounts DEF StopAdvertising
  <2> QED
    BY <1>5, <2>1 DEF StopAdvertising
<1>6. CASE StartAdvertising
  <2>1. errors' \in 0..MAX_ERRORS /\ ~canceling
    BY <1>6, BleCounts DEF StartAdvertising
  <2> QED
    BY <1>6, <2>1 DEF StartAdvertising
<1> QED
  BY <1>1, <1>2, <1>3, <1>4, <1>5, <1>6

--------------------------------------------------------------------------------
(* Centrals and Wi-Fi. *)

(* A connection ends advertising and cancels the data item. *)
LEMMA ConnectedKeeps == ASSUME BleInv, Connected PROVE BleInv'
<1>1. queued' = queued \ {"data"} /\ front' \in Items
  BY Dequeued DEF BleInv, Connected, CancelData, Items
<1>2. links' \in 0..MAX_LINKS
  BY BleCounts, BleConstants DEF BleInv, BleTypeOK, Connected
<1>3. canceling' \in BOOLEAN /\ (canceling' => DataRuns)
  BY DEF BleInv, BleTypeOK, ItemsAgree, Connected, CancelData
<1> QED
  BY <1>1, <1>2, <1>3 DEF Connected, CancelData, BleInv, BleTypeOK, CancelledMeansQuiet,
              RestartsOnlyWhenDown, ItemsAgree,
              IsPending, DataRuns, DataSteps, ParamSteps, BootSteps, Items, statusVars

(* The end of a connection reschedules both items. *)
LEMMA DisconnectedKeeps == ASSUME BleInv, Disconnected \/ DisconnectedTooEarly PROVE BleInv'
<1>1. CASE Disconnected
  <2>1. queued' \in {queued, queued \cup {"data"}} /\ front' \in Items /\ refused' \in BOOLEAN
    BY <1>1, Submitted DEF BleInv, Disconnected, Reschedule, Items
  <2> QED
    BY <1>1, <2>1 DEF Disconnected, Reschedule, BleInv, BleTypeOK, CancelledMeansQuiet,
              RestartsOnlyWhenDown, ItemsAgree,
              IsPending, DataRuns, DataSteps, ParamSteps, BootSteps, Items, statusVars
<1>2. CASE DisconnectedTooEarly
  BY <1>2 DEF DisconnectedTooEarly, BleInv, BleTypeOK, CancelledMeansQuiet,
              RestartsOnlyWhenDown, ItemsAgree,
              IsPending, DataRuns, DataSteps, ParamSteps, BootSteps, Items, statusVars
<1> QED
  BY <1>1, <1>2

(* The Wi-Fi status touches nothing else. *)
LEMMA WifiKeeps == ASSUME BleInv, WifiChanges PROVE BleInv'
BY BleCounts, BleConstants
   DEF WifiChanges, BleInv, BleTypeOK, CancelledMeansQuiet, RestartsOnlyWhenDown, ItemsAgree,
       IsPending, DataRuns, DataSteps, ParamSteps, BootSteps, Items, workVars, airVars

--------------------------------------------------------------------------------
(* Every step keeps the invariant. *)
LEMMA BleStep == BleInv /\ [BleNext]_bleVars => BleInv'
<1> SUFFICES ASSUME BleInv, [BleNext]_bleVars PROVE BleInv'
  OBVIOUS
<1>1. CASE BleBoot
  BY <1>1, BootKeeps
<1>2. CASE \E i \in Items : Expires(i)
  BY <1>2, ExpiresKeeps
<1>3. CASE \E i \in Items : TakeWork(i)
  BY <1>3, TakeKeeps
<1>4. CASE \/ ReadStatus \/ UpdateData \/ RescheduleData \/ DataReturns
           \/ StopAdvertising \/ StartAdvertising
  BY <1>4, HandlersKeep
<1>5. CASE Connected
  BY <1>5, ConnectedKeeps
<1>6. CASE Disconnected \/ DisconnectedTooEarly
  BY <1>6, DisconnectedKeeps
<1>7. CASE WifiChanges
  BY <1>7, WifiKeeps
<1>8. CASE UNCHANGED bleVars
  BY <1>8 DEF bleVars, workVars, airVars, statusVars, BleInv, BleTypeOK, CancelledMeansQuiet,
              RestartsOnlyWhenDown, ItemsAgree, IsPending, DataRuns
<1> QED
  BY <1>1, <1>2, <1>3, <1>4, <1>5, <1>6, <1>7, <1>8 DEF BleNext, Daemon

(* The invariant from which the two theorems below follow. *)
THEOREM BleInvariant == BleSpec => []BleInv
BY BleBegins, BleStep, PTL DEF BleSpec

(* During a connection the data item is quiet, unless cancelling came too early
   or found its handler running. *)
THEOREM CancelledIsQuiet == BleSpec => []CancelledMeansQuiet
<1>1. BleInv => CancelledMeansQuiet
  BY DEF BleInv
<1> QED
  BY BleInvariant, <1>1, PTL

(* Advertising is never restarted under a connection or a running
   advertisement. *)
THEOREM NoRestartInUse == BleSpec => []RestartsOnlyWhenDown
<1>1. BleInv => RestartsOnlyWhenDown
  BY DEF BleInv
<1> QED
  BY BleInvariant, <1>1, PTL
================================================================================
