----------------------------- MODULE Bme280Proofs ------------------------------
(* Theorems about Bme280, for every finite set of fetchers and any number of
   fetches and failing transfers. *)
EXTENDS Bme280, FiniteSetTheorems, TLAPS

(* One more fetch or error stays within its bound. *)
LEMMA BmeCounts ==
  ASSUME NEW n \in Nat, NEW k \in 0..n, k < n PROVE k + 1 \in 0..n
OBVIOUS

(* The users that are counted, when one is added or removed. *)
LEMMA Users ==
  ASSUME NEW S \in SUBSET Fetchers
  PROVE  /\ Cardinality(S) \in Nat /\ Cardinality({}) = 0
         /\ Cardinality(S) = 0 <=> S = {}
         /\ \A f \in Fetchers \ S : Cardinality(S \cup {f}) = Cardinality(S) + 1
         /\ \A f \in S : Cardinality(S \ {f}) = Cardinality(S) - 1
<1>1. IsFiniteSet(S)
  BY FS_Subset, FetchersFinite
<1> QED
  BY <1>1, FS_CardinalityType, FS_EmptySet, FS_AddElement, FS_RemoveElement

(* Before the device starts nobody uses it. *)
LEMMA BmeBegins == BmeInit => BmeInv
<1> SUFFICES ASSUME BmeInit PROVE BmeInv
  OBVIOUS
<1>1. fetches \in 0..MAX_FETCHES /\ spiErrors \in 0..MAX_SPI_ERRORS
  BY Bme280Bounds DEF BmeInit
<1>2. BmeTypeOK
  <2>1. starter \in Fetchers \cup {"boot", "nobody"} /\ took \subseteq Fetchers
    BY DEF BmeInit
  <2>2. initPc \in DOMAIN AfterInitStep \cup {"done"} /\ sensor \in {"absent", "off", "failed", "ready"}
    BY DEF BmeInit
  <2>3. fetch \in [Fetchers -> {"idle", "get", "wait", "read", "compensate", "put"}]
    BY DEF BmeInit
  <2>4. usage \in Nat /\ power \in {"active", "suspended"}
    BY DEF BmeInit
  <2>5. calibrated \in BOOLEAN /\ runtime \in BOOLEAN /\ kept \in BOOLEAN /\ stray \in BOOLEAN
    BY DEF BmeInit
  <2> QED
    BY <1>1, <2>1, <2>2, <2>3, <2>4, <2>5 DEF BmeTypeOK
<1>3. Cardinality(took) = 0
  BY Users DEF BmeInit
<1> QED
  BY <1>2, <1>3, FetchersNamed DEF BmeInit, BmeInv, PowerBalanced, InitAgrees

--------------------------------------------------------------------------------
(* Initialisation. *)

(* The steps of custom_bme280_init and its beginning at boot. *)
LEMMA InitKeeps ==
  ASSUME BmeInv, DeviceStarts \/ InitStep \/ BootCompletes \/ BootFails
  PROVE  BmeInv'
<1> USE Bme280Bounds, FetchersNamed
    DEF BmeInv, BmeTypeOK, PowerBalanced, InitAgrees, pmVars, InitEnds, AfterInitStep
<1>1. CASE DeviceStarts
  BY <1>1 DEF DeviceStarts
<1>2. CASE InitStep
  <2>1. initPc' \in {"ready", "parameters", "humidity", "measure"} /\ initPc # "done"
    BY <1>2 DEF InitStep, ParametersRead
  <2>2. calibrated' \in BOOLEAN /\ (calibrated => calibrated')
    BY <1>2 DEF InitStep, ParametersRead
  <2>3. initPc' \in {"humidity", "measure"} => calibrated'
    <3>1. initPc' \in {"humidity", "measure"} => initPc \in {"parameters", "humidity"}
      BY <1>2 DEF InitStep, ParametersRead
    <3>2. initPc = "parameters" => calibrated'
      BY <1>2 DEF InitStep, ParametersRead
    <3> QED
      BY <2>2, <3>1, <3>2
  <2>4. UNCHANGED <<sensor, starter, runtime, pmVars, fetch, fetches, spiErrors>>
    BY <1>2 DEF InitStep, ParametersRead
  <2>5. BmeTypeOK'
    BY <2>1, <2>2, <2>4
  <2>6. PowerBalanced'
    BY <2>4
  <2>7. InitAgrees'
    BY <2>1, <2>2, <2>3, <2>4
  <2> QED
    BY <2>5, <2>6, <2>7
<1>3. CASE BootCompletes
  BY <1>3 DEF BootCompletes
<1>4. CASE BootFails
  BY <1>4, BmeCounts DEF BootFails, TransferFails
<1> QED
  BY <1>1, <1>2, <1>3, <1>4

(* A resume that succeeds makes its fetcher the only user. *)
LEMMA ResumedKeeps == ASSUME BmeInv, NEW f \in Fetchers, Resumed(f) PROVE BmeInv'
<1> USE Bme280Bounds, FetchersNamed DEF BmeInv, BmeTypeOK
<1>1. fetch[f] = "get" /\ f \notin took /\ usage = 0 /\ runtime /\ sensor = "ready"
  BY DEF Resumed, PowerBalanced, InitAgrees
<1>2. stray \/ (Cardinality(took) = 0 /\ ~kept)
  BY <1>1, Users DEF PowerBalanced
<1>3. Cardinality(took') = Cardinality(took) + 1
  BY <1>1, Users DEF Resumed
<1>4. \A g \in took' : fetch'[g] \in {"wait", "read", "compensate", "put"}
  BY <1>1 DEF Resumed, PowerBalanced
<1>5. PowerBalanced'
  BY <1>1, <1>2, <1>3, <1>4 DEF Resumed, PowerBalanced
<1>6. BmeTypeOK'
  BY DEF Resumed, InitEnds
<1>7. InitAgrees'
  BY <1>1 DEF Resumed, InitEnds, InitAgrees
<1> QED
  BY <1>5, <1>6, <1>7

(* A resume that fails leaves the count alone. *)
LEMMA ResumeFailsKeeps == ASSUME BmeInv, NEW f \in Fetchers, ResumeFails(f) PROVE BmeInv'
BY BmeCounts, Bme280Bounds, FetchersNamed
   DEF ResumeFails, TransferFails, InitEnds, pmVars, BmeInv, BmeTypeOK, PowerBalanced, InitAgrees
--------------------------------------------------------------------------------
(* Fetching. *)

(* A fetch that begins has taken nothing. *)
LEMMA BeginKeeps == ASSUME BmeInv, NEW f \in Fetchers, FetchBegins(f) PROVE BmeInv'
BY BmeCounts, Bme280Bounds, FetchersNamed
   DEF FetchBegins, FetchStep, initVars, pmVars, BmeInv, BmeTypeOK, PowerBalanced, InitAgrees

(* The first get takes the lock and starts to resume. *)
LEMMA GetResumesKeeps == ASSUME BmeInv, NEW f \in Fetchers, GetResumes(f) PROVE BmeInv'
BY FetchersNamed
   DEF GetResumes, pmVars, AfterInitStep, BmeInv, BmeTypeOK, PowerBalanced, InitAgrees

(* Any other get counts one user more. *)
LEMMA GetKeeps == ASSUME BmeInv, NEW f \in Fetchers, Get(f) PROVE BmeInv'
<1> USE DEF BmeInv, BmeTypeOK
<1>1. fetch[f] = "get" /\ f \notin took /\ sensor = "ready" /\ starter = "nobody"
  BY DEF Get, FetchStep, PowerBalanced, InitAgrees
<1>2. fetch' = [fetch EXCEPT ![f] = "wait"] /\ UNCHANGED <<initVars, power, kept, stray, fetches, spiErrors>>
  BY DEF Get, FetchStep
<1>3. CASE runtime
  <2>1. usage > 0 /\ usage' = usage + 1 /\ took' = took \cup {f}
    BY <1>3 DEF Get
  <2>2. Cardinality(took') = Cardinality(took) + 1 /\ Cardinality(took) \in Nat
    BY <1>1, <2>1, Users
  <2>3. PowerBalanced'
    BY <1>1, <1>2, <2>1, <2>2 DEF PowerBalanced, initVars
  <2> QED
    BY <1>1, <1>2, <1>3, <2>1, <2>3 DEF InitAgrees, initVars
<1>4. CASE ~runtime
  <2>1. usage' = usage /\ took' = took /\ took = {}
    BY <1>4 DEF Get, InitAgrees
  <2>2. PowerBalanced'
    BY <1>2, <1>4, <2>1 DEF PowerBalanced, initVars
  <2> QED
    BY <1>1, <1>2, <1>4, <2>1, <2>2 DEF InitAgrees, initVars
<1> QED
  BY <1>3, <1>4

(* Reading, compensating and failing leave the count alone and lead to the put. *)
LEMMA FetchKeeps ==
  ASSUME BmeInv, NEW f \in Fetchers, WaitUntilReady(f) \/ ReadRegisters(f) \/ Compensate(f)
  PROVE  BmeInv'
<1>1. /\ fetch[f] \in {"wait", "read", "compensate"}
      /\ \E to \in {"read", "compensate", "put"} : fetch' = [fetch EXCEPT ![f] = to]
      /\ spiErrors' \in 0..MAX_SPI_ERRORS
      /\ UNCHANGED <<initVars, pmVars, fetches>>
  BY BmeCounts, Bme280Bounds
     DEF WaitUntilReady, ReadRegisters, Compensate, FetchStep, FetchFails, TransferFails, BmeInv, BmeTypeOK
<1>2. BmeTypeOK'
  BY <1>1 DEF initVars, pmVars, BmeInv, BmeTypeOK
<1>3. PowerBalanced'
  BY <1>1 DEF initVars, pmVars, BmeInv, BmeTypeOK, PowerBalanced
<1>4. sensor = "ready" /\ starter # f /\ sensor' = "ready"
  BY <1>1 DEF initVars, BmeInv, BmeTypeOK, InitAgrees
<1>5. InitAgrees'
  BY <1>1, <1>4, FetchersNamed DEF initVars, pmVars, BmeInv, BmeTypeOK, InitAgrees
<1> QED
  BY <1>2, <1>3, <1>5 DEF BmeInv

(* A put counts one user less, unless there is none, or the last one stays
   because the device cannot be suspended. *)
LEMMA PutKeeps == ASSUME BmeInv, NEW f \in Fetchers, Put(f) PROVE BmeInv'
<1> USE DEF BmeInv, BmeTypeOK
<1>1. /\ fetch[f] = "put" /\ sensor = "ready" /\ starter = "nobody"
      /\ fetch' = [fetch EXCEPT ![f] = "idle"] /\ took' = took \ {f}
      /\ stray' = (stray \/ (usage > 0 /\ f \notin took))
      /\ UNCHANGED <<initVars, fetches>>
  BY DEF Put, FetchStep, InitAgrees
<1>2. \A g \in took' : fetch'[g] \in {"wait", "read", "compensate", "put"}
  BY <1>1 DEF PowerBalanced
<1>3. /\ Cardinality(took) \in Nat /\ (Cardinality(took) = 0 <=> took = {})
      /\ f \in took => Cardinality(took') = Cardinality(took) - 1
      /\ f \notin took => took' = took
  BY <1>1, Users
<1>4. stray' \in BOOLEAN /\ (stray => stray') /\ (usage > 0 /\ ~stray' => f \in took)
  BY <1>1
<1>5. ~stray => usage = Cardinality(took) + IF kept THEN 1 ELSE 0
  BY DEF PowerBalanced
<1>6. CASE usage = 1
  <2>1. CASE usage' = 0 /\ power' = "suspended" /\ UNCHANGED <<kept, spiErrors>>
    <3>1. stray' \/ usage' = Cardinality(took') + IF kept' THEN 1 ELSE 0
      <4> SUFFICES ASSUME ~stray' PROVE usage' = Cardinality(took') + IF kept' THEN 1 ELSE 0
        OBVIOUS
      <4>1. f \in took /\ ~stray
        BY <1>4, <1>6
      <4>2. Cardinality(took) = 1 /\ ~kept
        BY <1>3, <1>5, <1>6, <4>1
      <4> QED
        BY <1>3, <2>1, <4>1, <4>2
    <3>2. PowerBalanced'
      BY <1>1, <1>2, <2>1, <3>1 DEF PowerBalanced, initVars
    <3>3. BmeTypeOK'
      BY <1>1, <1>4, <2>1 DEF initVars
    <3>4. InitAgrees'
      BY <1>1, <1>6, <2>1 DEF InitAgrees, initVars
    <3> QED
      BY <3>2, <3>3, <3>4
  <2>2. CASE TransferFails /\ kept' = TRUE /\ UNCHANGED <<usage, power>>
    <3>1. stray' \/ usage' = Cardinality(took') + IF kept' THEN 1 ELSE 0
      <4> SUFFICES ASSUME ~stray' PROVE usage' = Cardinality(took') + IF kept' THEN 1 ELSE 0
        OBVIOUS
      <4>1. f \in took /\ ~stray
        BY <1>4, <1>6
      <4>2. Cardinality(took) = 1
        BY <1>3, <1>5, <1>6, <4>1
      <4> QED
        BY <1>3, <1>6, <2>2, <4>1, <4>2
    <3>2. spiErrors' \in 0..MAX_SPI_ERRORS
      BY <2>2, BmeCounts, Bme280Bounds DEF TransferFails
    <3>3. PowerBalanced'
      BY <1>1, <1>2, <2>2, <3>1 DEF PowerBalanced, initVars
    <3>4. BmeTypeOK'
      BY <1>1, <1>4, <2>2, <3>2 DEF initVars
    <3>5. InitAgrees'
      BY <1>1, <1>6, <2>2 DEF InitAgrees, initVars
    <3> QED
      BY <3>3, <3>4, <3>5
  <2> QED
    BY <1>6, <2>1, <2>2 DEF Put, Suspend
<1>7. CASE usage # 1
  <2>1. /\ usage' = IF usage = 0 THEN 0 ELSE usage - 1
        /\ UNCHANGED <<power, kept, spiErrors>>
    BY <1>7 DEF Put
  <2>2. stray' \/ usage' = Cardinality(took') + IF kept' THEN 1 ELSE 0
    <3> SUFFICES ASSUME ~stray' PROVE usage' = Cardinality(took') + IF kept' THEN 1 ELSE 0
      OBVIOUS
    <3>1. ~stray /\ kept' = kept
      BY <1>4, <2>1
    <3>2. CASE usage = 0
      <4>1. took = {} /\ ~kept
        BY <1>3, <1>5, <3>1, <3>2
      <4> QED
        BY <1>1, <1>3, <2>1, <3>1, <3>2, <4>1
    <3>3. CASE usage > 0
      <4>1. f \in took
        BY <1>4, <3>3
      <4> QED
        BY <1>3, <1>5, <2>1, <3>1, <3>3, <4>1
    <3> QED
      BY <3>2, <3>3
  <2>3. usage' \in Nat /\ (usage' > 0 <=> usage > 0)
    BY <1>7, <2>1
  <2>4. PowerBalanced'
    BY <1>1, <1>2, <2>1, <2>2, <2>3 DEF PowerBalanced, initVars
  <2>5. BmeTypeOK'
    BY <1>1, <1>4, <2>1, <2>3 DEF initVars
  <2>6. InitAgrees'
    BY <1>1, <2>1 DEF InitAgrees, initVars
  <2> QED
    BY <2>4, <2>5, <2>6
<1> QED
  BY <1>6, <1>7

--------------------------------------------------------------------------------
(* Every step keeps the invariant. *)
LEMMA BmeStep == BmeInv /\ [BmeNext]_bmeVars => BmeInv'
<1> SUFFICES ASSUME BmeInv, [BmeNext]_bmeVars PROVE BmeInv'
  OBVIOUS
<1>1. CASE DeviceStarts \/ InitStep \/ BootCompletes \/ BootFails
  BY <1>1, InitKeeps
<1>2. CASE \E f \in Fetchers : Resumed(f)
  BY <1>2, ResumedKeeps
<1>3. CASE \E f \in Fetchers : ResumeFails(f)
  BY <1>3, ResumeFailsKeeps
<1>4. CASE \E f \in Fetchers : FetchBegins(f)
  BY <1>4, BeginKeeps
<1>5. CASE \E f \in Fetchers : GetResumes(f)
  BY <1>5, GetResumesKeeps
<1>6. CASE \E f \in Fetchers : Get(f)
  BY <1>6, GetKeeps
<1>7. CASE \E f \in Fetchers : WaitUntilReady(f) \/ ReadRegisters(f) \/ Compensate(f)
  BY <1>7, FetchKeeps
<1>8. CASE \E f \in Fetchers : Put(f)
  BY <1>8, PutKeeps
<1>9. CASE UNCHANGED bmeVars
  BY <1>9 DEF bmeVars, initVars, pmVars, BmeInv, BmeTypeOK, PowerBalanced, InitAgrees
<1> QED
  BY <1>1, <1>2, <1>3, <1>4, <1>5, <1>6, <1>7, <1>8, <1>9 DEF BmeNext

(* Every fetch gives back what it took, and the device is active exactly while
   users are counted. *)
THEOREM FetchesAreBalanced == BmeSpec => []PowerBalanced
<1>1. BmeInv => PowerBalanced
  BY DEF BmeInv
<1> QED
  BY BmeBegins, BmeStep, <1>1, PTL DEF BmeSpec
================================================================================
