-------------------------- MODULE HidSystemProofs --------------------------
(***************************************************************************)
(* Proofs about the whole of hid_locker, for every pool and whatever       *)
(* fails.  It is composed of the pipeline's own actions, so what           *)
(* HidLockerProofs and KeyLockProofs prove of them carries over; what is   *)
(* new is the Bluetooth central.                                           *)
(***************************************************************************)
EXTENDS HidSystem, KeyLockProofs

\* A step of the central leaves the pipeline alone, and every other step of the
\* program is one of the pipeline: on_received and the reset included.
LEMMA SystemStep == [SysNext]_sysVars => [Next]_vars
<1> SUFFICES ASSUME [SysNext]_sysVars PROVE [Next]_vars
  OBVIOUS
<1>1. CASE ~fault /\ Ble
  BY <1>1 DEF Ble, BleInit, BleReady, ScanFilterMatch, Connected, DiscoveryDone
<1>2. CASE ~fault /\ LinkLost
  BY <1>2 DEF LinkLost
<1>3. CASE ~fault /\ ThingyButton
  <2>1. PICK v \in BtnVals : OnReceived(1, v)
    BY <1>3 DEF ThingyButton
  <2>2. Running
    BY <2>1 DEF Running
  <2> QED
    BY <1>3, <2>2 DEF Next
<1>4. CASE ~fault /\ Pipeline
  <2>1. Running
    BY <1>4 DEF Pipeline, Running
  <2> QED
    BY <1>4, <2>1 DEF Next
<1>5. CASE SysReset
  BY <1>5 DEF SysReset, Next
<1>6. CASE UNCHANGED sysVars
  BY <1>6 DEF sysVars
<1> QED
  BY <1>1, <1>2, <1>3, <1>4, <1>5, <1>6 DEF SysNext

\* So every behaviour of the program is one of the pipeline (by the way the program
\* is composed: this only carries the results over).
LEMMA PipelineBehaviour == SysSpec => Spec
<1>1. SysInit => Init
  BY DEF SysInit
<1> QED
  BY <1>1, SystemStep, PTL DEF SysSpec, Spec

\* In the whole program too no block of the pool is in two places, and none is
\* lost before an allocation has failed.
THEOREM SystemPoolIsSound == SysSpec => []BlockOwnership
BY PipelineBehaviour, PoolIsSound, PTL

\* In the whole program too the lock keys are never left pressed without a
\* release on its way.
THEOREM SystemKeysNeverStuck == SysSpec => []ReleasePending
BY PipelineBehaviour, KeysNeverStuck, PTL

\* The whole program keeps the promise to its user: a press on the board or on a
\* Thingy becomes one lock, a lock one release, and a lost link, a failed call or a
\* scan does nothing to that.
THEOREM SystemImplementsKeyLock ==
  ASSUME IsFiniteSet(Blocks)
  PROVE  SysSpec => ImplementsKeyLock
BY PipelineBehaviour, PipelineImplementsKeyLock, PTL

-----------------------------------------------------------------------------
(* The Bluetooth central itself. *)

\* Nothing is scanned for or connected before Bluetooth is ready, and the
\* scanner and a connection exclude each other: without this, a match might
\* reset a connection that is discovered or subscribed.
OneConnection ==
  /\ bt # "ready" => ~scanning /\ conn = "none"
  /\ scanning => conn = "none"

CentralInv == BleTypeOK /\ OneConnection

\* A call of the Bluetooth library succeeds or fails.
LEMMA OutcomesBoolean == \A ok \in Outcomes : ok \in BOOLEAN
BY DEF Outcomes

\* ble_init: nothing is scanned for or connected yet.
LEMMA BleInitPreserves == CentralInv /\ BleInit => CentralInv'
<1> SUFFICES ASSUME CentralInv, BleInit PROVE CentralInv'
  OBVIOUS
<1> USE DEF CentralInv, BleTypeOK, OneConnection
<1>1. PICK ok \in Outcomes : bt' = (IF ok THEN "enabling" ELSE "failed") /\ trouble' = ~ok
  BY DEF BleInit
<1>2. trouble' \in BOOLEAN
  BY <1>1, OutcomesBoolean
<1>3. bt = "off" /\ bt' \in {"enabling", "failed"}
  BY <1>1 DEF BleInit
<1> QED
  BY <1>2, <1>3 DEF BleInit

\* ble_ready: the scanner may start, no connection exists.
LEMMA BleReadyPreserves == CentralInv /\ BleReady => CentralInv'
<1> SUFFICES ASSUME CentralInv, BleReady PROVE CentralInv'
  OBVIOUS
<1> USE DEF CentralInv, BleTypeOK, OneConnection
<1>1. scanning' \in BOOLEAN /\ trouble' \in BOOLEAN
  BY OutcomesBoolean DEF BleReady
<1>2. bt = "enabling" /\ bt' = "ready"
  BY DEF BleReady
<1> QED
  BY <1>1, <1>2 DEF BleReady

\* scan_filter_match: a connection is made only once the scanner has stopped.
LEMMA MatchPreserves == CentralInv /\ ScanFilterMatch => CentralInv'
<1> SUFFICES ASSUME CentralInv, ScanFilterMatch PROVE CentralInv'
  OBVIOUS
<1> USE DEF CentralInv, BleTypeOK, OneConnection
<1>1. PICK ok \in Outcomes : conn' = (IF ok THEN "connecting" ELSE "none") /\ trouble' = ~ok
  BY DEF ScanFilterMatch
<1>2. trouble' \in BOOLEAN
  BY <1>1, OutcomesBoolean
<1>3. conn' \in {"connecting", "none"}
  BY <1>1
<1>4. bt = "ready" /\ dm = "idle" /\ subscribed = FALSE
  BY DEF ScanFilterMatch
<1>5. scanning' = FALSE /\ bt' = bt /\ dm' = dm /\ subscribed' = subscribed
  BY DEF ScanFilterMatch
<1> QED
  BY <1>2, <1>3, <1>4, <1>5

\* connected: discovery starts on the new connection.
LEMMA ConnectedPreserves == CentralInv /\ Connected => CentralInv'
<1> SUFFICES ASSUME CentralInv, Connected PROVE CentralInv'
  OBVIOUS
<1> USE DEF CentralInv, BleTypeOK, OneConnection
<1>1. PICK conn_ok \in Outcomes, dm_ok \in Outcomes :
        /\ conn' = IF conn_ok THEN "up" ELSE "none"
        /\ dm' = IF conn_ok /\ dm_ok THEN "discovering" ELSE "idle"
        /\ trouble' = ~(conn_ok /\ dm_ok)
  BY DEF Connected
<1>2. trouble' \in BOOLEAN
  BY <1>1, OutcomesBoolean
<1>3. conn' \in {"up", "none"} /\ dm' \in {"discovering", "idle"}
  BY <1>1
<1>4. dm' = "discovering" => conn' = "up"
  BY <1>1
<1>5. bt = "ready" /\ scanning = FALSE /\ subscribed = FALSE
  BY DEF Connected
<1>6. bt' = bt /\ scanning' = scanning /\ subscribed' = subscribed
  BY DEF Connected
<1> QED
  BY <1>2, <1>3, <1>4, <1>5, <1>6

\* discovery_completed: the subscription is on the connection that was discovered.
LEMMA DiscoveryPreserves == CentralInv /\ DiscoveryDone => CentralInv'
<1> SUFFICES ASSUME CentralInv, DiscoveryDone PROVE CentralInv'
  OBVIOUS
<1> USE DEF CentralInv, BleTypeOK, OneConnection
<1>1. subscribed' \in BOOLEAN /\ trouble' \in BOOLEAN
  BY OutcomesBoolean DEF DiscoveryDone
<1>2. conn = "up" /\ dm' = "idle"
  BY DEF DiscoveryDone
<1> QED
  BY <1>1, <1>2 DEF DiscoveryDone

\* ble.c is well formed through every failure: discovery and subscription
\* never outlive the connection they belong to.
THEOREM CentralIsSound == SysSpec => []BleTypeOK
<1>1. SysInit => CentralInv
  BY DEF SysInit, BleInitState, CentralInv, BleTypeOK, OneConnection
<1>2. CentralInv /\ [SysNext]_sysVars => CentralInv'
  <2> SUFFICES ASSUME CentralInv, [SysNext]_sysVars PROVE CentralInv'
    OBVIOUS
  <2>1. CASE LinkLost
    BY <2>1 DEF LinkLost, CentralInv, BleTypeOK, OneConnection
  <2>2. CASE SysReset
    BY <2>2 DEF SysReset, CentralInv, BleTypeOK, OneConnection
  <2>3. CASE UNCHANGED bleVars
    BY <2>3 DEF bleVars, CentralInv, BleTypeOK, OneConnection
  <2>4. CASE Ble
    BY <2>4, BleInitPreserves, BleReadyPreserves, MatchPreserves,
       ConnectedPreserves, DiscoveryPreserves DEF Ble
  <2> QED
    BY <2>1, <2>2, <2>3, <2>4 DEF SysNext, ThingyButton, Pipeline, sysVars
<1>3. CentralInv => BleTypeOK
  BY DEF CentralInv
<1> QED
  BY <1>1, <1>2, <1>3, PTL DEF SysSpec
=============================================================================
