----------------------------- MODULE HidSystem -----------------------------
(***************************************************************************)
(* The whole of bluetooth/hid_locker: the event pipeline of HidLocker, and *)
(* the Bluetooth central of src/ble.c that feeds it.  The central scans    *)
(* for a Thingy, connects, looks for its button service and subscribes;    *)
(* from then on notifications arrive in on_received.                       *)
(*                                                                         *)
(* Every callback of ble.c runs to its end before the next one, and is one *)
(* action.  The Bluetooth library is external: it stops scanning before it *)
(* connects, and calls on_received without data when a connection ends.    *)
(***************************************************************************)
EXTENDS HidLocker

CONSTANT BleErrors   \* may the Bluetooth calls fail, and the link be lost?

ASSUME BleErrorsAssumption == BleErrors \in BOOLEAN

VARIABLES
  bt,          \* "off", "enabling", "failed", "ready"
  scanning,    \* is the scanner running, with its filter?
  conn,        \* the connection: "none", "connecting", "up"
  dm,          \* the discovery manager: "idle", "discovering"
  subscribed,  \* does the Thingy send notifications?
  trouble      \* history: a call has failed or the link was lost

bleVars == <<bt, scanning, conn, dm, subscribed, trouble>>
sysVars == <<vars, bleVars>>

BleInitState ==
  /\ bt = "off" /\ scanning = FALSE /\ conn = "none" /\ dm = "idle"
  /\ subscribed = FALSE /\ trouble = FALSE

SysInit == Init /\ BleInitState

\* The outcomes of a call that may fail.
Outcomes == IF BleErrors THEN BOOLEAN ELSE {TRUE}

\* ble_init, the first thing main does: a failed bt_enable is printed.
BleInit ==
  /\ bt = "off" /\ pc["main"] = "boot"
  /\ \E ok \in Outcomes :
       /\ bt' = IF ok THEN "enabling" ELSE "failed"
       /\ trouble' = ~ok
  /\ UNCHANGED <<vars, scanning, conn, dm, subscribed>>

\* ble_ready and scan_start.  The error ble_ready is called with is ignored,
\* and makes the calls that follow fail; without a filter nothing will match.
BleReady ==
  /\ bt = "enabling"
  /\ bt' = "ready"
  /\ \E filter_add, filter_enable, start \in Outcomes :
       /\ scanning' = (filter_add /\ filter_enable /\ start)
       /\ trouble' = ~scanning'
  /\ UNCHANGED <<vars, conn, dm, subscribed>>

\* scan_filter_match and, if the connection cannot be created,
\* scan_connecting_error: both only print.  The library has stopped scanning.
ScanFilterMatch ==
  /\ scanning
  /\ scanning' = FALSE
  /\ \E ok \in Outcomes :
       /\ conn' = IF ok THEN "connecting" ELSE "none"
       /\ trouble' = ~ok
  /\ UNCHANGED <<vars, bt, dm, subscribed>>

\* Mutant: discovery is started without regard to conn_err.
MutDiscoverAnyway ==
  /\ conn = "connecting"
  /\ \E conn_ok \in Outcomes :
       /\ conn' = IF conn_ok THEN "up" ELSE "none"
       /\ dm' = "discovering"
       /\ trouble' = ~conn_ok
  /\ UNCHANGED <<vars, bt, scanning, subscribed>>

\* connected: a failed connection, and a discovery that does not start, are
\* printed.
Connected ==
  /\ conn = "connecting"
  /\ \E conn_ok, dm_ok \in Outcomes :
       /\ conn' = IF conn_ok THEN "up" ELSE "none"
       /\ dm' = IF conn_ok /\ dm_ok THEN "discovering" ELSE "idle"
       /\ trouble' = ~(conn_ok /\ dm_ok)
  /\ UNCHANGED <<vars, bt, scanning, subscribed>>

\* Mutant: discovery_completed returns before it subscribes.
MutNoSubscribe ==
  /\ dm = "discovering"
  /\ dm' = "idle"
  /\ UNCHANGED <<vars, bt, scanning, conn, subscribed, trouble>>

\* discovery_completed, with one of the attributes missing or all there and
\* bt_gatt_subscribe; discovery_service_not_found and discovery_error_found.
\* The discovery data is released on every path.
DiscoveryDone ==
  /\ dm = "discovering"
  /\ dm' = "idle"
  /\ \E ok \in Outcomes : subscribed' = ok /\ trouble' = ~ok
  /\ UNCHANGED <<vars, bt, scanning, conn>>

\* The link is lost.  ble.c registers no callback for it, and the empty
\* notification on_received gets is only printed.
LinkLost ==
  /\ BleErrors /\ conn = "up"
  /\ conn' = "none" /\ dm' = "idle" /\ subscribed' = FALSE
  /\ trouble' = TRUE
  /\ UNCHANGED <<vars, bt, scanning>>

Ble == BleInit \/ BleReady \/ ScanFilterMatch \/ Connected \/ DiscoveryDone

\* A press of the Thingy's button, or its release.
ThingyButton ==
  /\ subscribed
  /\ \E v \in BtnVals : OnReceived(1, v)
  /\ UNCHANGED bleVars

\* The pipeline's other steps.  main initialises Bluetooth before the rest.
Pipeline ==
  /\ \/ \E t \in Threads : Produce(t)
     \/ Btn0 \/ Btn0Exhausted \/ BleEvent \/ InReadyCb
     \/ bt # "off" /\ Main
  /\ UNCHANGED bleVars

SysReset ==
  /\ Reset
  /\ bt' = "off" /\ scanning' = FALSE /\ conn' = "none" /\ dm' = "idle"
  /\ subscribed' = FALSE /\ trouble' = FALSE

SysNext ==
  \/ ~fault /\ (Ble \/ LinkLost \/ ThingyButton \/ Pipeline)
  \/ SysReset

SysSpec == SysInit /\ [][SysNext]_sysVars

\* As in HidLocker, and the Bluetooth library calls back: a Thingy is near.
SysFairness ==
  /\ WF_sysVars(~fault /\ bt # "off" /\ (Main \/ Produce("main")) /\ UNCHANGED bleVars)
  /\ WF_sysVars(~fault /\ (BleEvent \/ Produce("ble")) /\ UNCHANGED bleVars)
  /\ WF_sysVars(~fault /\ InReadyCb /\ UNCHANGED bleVars)
  /\ WF_sysVars(~fault /\ Ble)
  /\ WF_sysVars(SysReset)

SysFairSpec == SysSpec /\ SysFairness

-----------------------------------------------------------------------------
(* Properties. *)

\* Every variable of the central has its type, and discovery and subscription
\* belong to a connection.
BleTypeOK ==
  /\ bt \in {"off", "enabling", "failed", "ready"}
  /\ scanning \in BOOLEAN /\ subscribed \in BOOLEAN /\ trouble \in BOOLEAN
  /\ conn \in {"none", "connecting", "up"} /\ dm \in {"idle", "discovering"}
  /\ (dm = "discovering" \/ subscribed) => conn = "up"

\* The locker finds its Thingy unless a call fails or the link is lost, from
\* which it has no way back (scan_start is called once), and again after
\* every restart.
FindsThingy == (bt = "enabling") ~> (subscribed \/ trouble \/ fault)

\* A press on the Thingy, once notified, locks the host, presses on the board
\* arriving all the while, unless they exhaust the pool or main has ended.
ThingyPressLocks ==
  (\E i \in DOMAIN bleq : Int8(bleq[i]) > 0)
    ~> \/ usb = "lock" \/ fault
       \/ \E t \in Threads : pc[t] \in AllocFailed
       \/ Exited
=============================================================================
