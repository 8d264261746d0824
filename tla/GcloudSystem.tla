---------------------------- MODULE GcloudSystem ----------------------------
(***************************************************************************)
(* The whole of cellular/nrf_to_gcloud_with_ble, built WITH_BLE: the cloud *)
(* connection of Gcloud, and the rest of src/main.c around it.  Main and   *)
(* the Bluetooth thread wait for each other twice while they boot; then    *)
(* the Bluetooth thread scans, and publishes every device it hears.  A     *)
(* publish that is refused or fails stops the scanner, and nothing starts  *)
(* it again.                                                               *)
(***************************************************************************)
EXTENDS Gcloud

CONSTANT Scanner   \* the publisher that is the Bluetooth thread

ASSUME ScannerAssumption == Scanner \in Publishers

VARIABLES
  boot,                \* where main is, outside gcloud_connect
  bt,                  \* where the Bluetooth thread is, until scan_start
  ble_ready,           \* binary semaphore
  connected_to_cloud,  \* binary semaphore
  scanning

bootVars == <<boot, bt, ble_ready, connected_to_cloud>>
sysVars  == <<vars, bootVars, scanning>>

SysInit ==
  /\ Init
  /\ boot = "bt_enable" /\ bt = "off"
  /\ ble_ready = 0 /\ connected_to_cloud = 0 /\ scanning = FALSE

-----------------------------------------------------------------------------
(* main and bt_ready. *)

\* bt_enable: a failure is logged.
BtEnable ==
  /\ boot = "bt_enable"
  /\ boot' = "wait_ble"
  /\ bt' \in {"enabling", "failed"}
  /\ UNCHANGED <<vars, ble_ready, connected_to_cloud, scanning>>

\* Mutant: main is told after the cloud is there.
MutReadyAfterCloud ==
  /\ bt = "enabling"
  /\ connected_to_cloud = 1
  /\ bt' = "wait_cloud" /\ ble_ready' = 1
  /\ UNCHANGED <<vars, boot, connected_to_cloud, scanning>>

\* Mutant: main is told before the error is looked at.
MutReadyOnError ==
  /\ bt = "enabling"
  /\ bt' \in {"wait_cloud", "failed"} /\ ble_ready' = 1
  /\ UNCHANGED <<vars, boot, connected_to_cloud, scanning>>

\* bt_ready: main is told, but not of an error.
BtReady ==
  /\ bt = "enabling"
  /\ \/ bt' = "wait_cloud" /\ ble_ready' = 1
     \/ bt' = "failed" /\ UNCHANGED ble_ready
  /\ UNCHANGED <<vars, boot, connected_to_cloud, scanning>>

MainBleReady ==
  /\ boot = "wait_ble" /\ ble_ready = 1
  /\ ble_ready' = 0
  /\ boot' = "modem"
  /\ UNCHANGED <<vars, bt, connected_to_cloud, scanning>>

\* modem_configure and the wait for date_time_ok: both end, with whatever
\* result, and main goes on.
MainModem ==
  /\ boot = "modem"
  /\ boot' = "connect"
  /\ UNCHANGED <<vars, bt, ble_ready, connected_to_cloud, scanning>>

\* gcloud_connect has returned: the Bluetooth thread is told.
MainConnected ==
  /\ boot = "connect" /\ app = "up"
  /\ connected_to_cloud' = 1
  /\ boot' = "done"
  /\ UNCHANGED <<vars, bt, ble_ready, scanning>>

\* Mutant: bt_ready does not wait for the cloud connection.
MutScanAtOnce ==
  /\ bt = "wait_cloud"
  /\ bt' = "ready" /\ scanning' = TRUE
  /\ UNCHANGED <<vars, boot, ble_ready, connected_to_cloud>>

\* The rest of bt_ready, and scan_start: whatever fails is logged.
ScanStart ==
  /\ bt = "wait_cloud" /\ connected_to_cloud = 1
  /\ connected_to_cloud' = 0
  /\ bt' = "ready"
  /\ scanning' \in BOOLEAN
  /\ UNCHANGED <<vars, boot, ble_ready>>

-----------------------------------------------------------------------------
(* Scanning. *)

\* scan_filter_match, for any device but one: the address test is inverted, and
\* compares one character more than BT_ADDR has.  A refused publish stops the
\* scanner.
ScanFilterMatch ==
  /\ scanning
  /\ \/ PublishCheck(Scanner) /\ UNCHANGED scanning
     \/ /\ pub[Scanner] = "idle" /\ ~connected
        /\ scanning' = FALSE
        /\ UNCHANGED vars
  /\ UNCHANGED bootVars

\* The put of scan_filter_match's message: it succeeds or blocks.
ScannerPut ==
  /\ PublishPut(Scanner) \/ PublishBlock(Scanner)
  /\ UNCHANGED <<bootVars, scanning>>

\* A blocked put that fails, by its time-out or by the purge, stops the scanner.
StopIfPutFails ==
  /\ scanning' = (scanning /\ ~(pub[Scanner] = "blocked" /\ pub'[Scanner] = "idle"))
  /\ UNCHANGED bootVars

Boot == BtEnable \/ BtReady \/ MainBleReady \/ MainModem \/ MainConnected \/ ScanStart
Connect == boot = "connect" /\ App /\ UNCHANGED <<bootVars, scanning>>
Background ==
  \/ AppDisconnect \/ (boot = "done" /\ App)
  \/ \E p \in Publishers \ {Scanner} : Publish(p)
  \/ ReconnectTimer \/ BrokerAnswer \/ BrokerConfig \/ LinkDrop
  \/ GcThread \/ MqttThread
  \/ PublishTimeout(Scanner)

SysNext ==
  \/ Boot \/ Connect
  \/ ScanFilterMatch \/ ScannerPut
  \/ Background /\ StopIfPutFails

SysSpec == SysInit /\ [][SysNext]_sysVars

\* The threads are not starved and the broker answers.  No more is needed for what
\* is claimed: publishers, the timer and the writers waiting for the queue may be
\* as slow as they like, and devices need not be there to be heard.
SysFairness ==
  /\ WF_sysVars(Boot) /\ WF_sysVars(Connect)
  /\ WF_sysVars(GcThread /\ StopIfPutFails) /\ WF_sysVars(MqttThread /\ StopIfPutFails)
  /\ WF_sysVars(BrokerAnswer /\ StopIfPutFails)

SysFairSpec == SysSpec /\ SysFairness

-----------------------------------------------------------------------------
(* Properties. *)

\* Every variable of the application has its type, and each of the two
\* semaphores is given only on the way to its one k_sem_take.
SysTypeOK ==
  /\ boot \in {"bt_enable", "wait_ble", "modem", "connect", "done"}
  /\ bt \in {"off", "enabling", "failed", "wait_cloud", "ready"}
  /\ ble_ready \in 0 .. 1 /\ connected_to_cloud \in 0 .. 1 /\ scanning \in BOOLEAN
  /\ ble_ready = 1 => boot = "wait_ble" /\ bt = "wait_cloud"
  /\ connected_to_cloud = 1 => boot = "done" /\ bt = "wait_cloud"

\* Main waits for Bluetooth, and Bluetooth for the connection main makes: both get
\* there, unless a call fails (then main may wait for ble_ready for ever), and
\* then the device comes back from every renewal, for ever: although the gc thread
\* waits for itself, publishers, the scanner among them, compete with the timer
\* for the queue, and 100 s may pass in any wait.
RenewsForEver ==
  [](Benign /\ bt # "failed") =>
    []<>(bt = "ready" /\ client = "connected" /\ link = "up")

\* A device that is heard stops the scanner for good if its publish fails:
\* where nothing ever failed or outlasted 100 s, that happens only while a
\* connection is being made, that is in a renewal, or in the moment between the
\* semaphore and the flag of the first CONNACK; never because the cloud had not
\* been waited for.
ScanLostOnlyInRenewal ==
  [][(scanning /\ ~scanning' /\ Benign /\ late' = 0) => connecting']_sysVars
=============================================================================
