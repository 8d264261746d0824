------------------------- MODULE GcloudSystemProofs -------------------------
(***************************************************************************)
(* Proofs about the application of nrf_to_gcloud_with_ble, with its        *)
(* scanner and its boot, for every queue, every set of publishers and      *)
(* whatever fails.  It is composed of the cloud connection's own actions,  *)
(* so what GcloudProofs proves of them carries over; what is new is the    *)
(* rendezvous of main and bt_ready, and how the scanner can be lost.       *)
(***************************************************************************)
EXTENDS GcloudSystem, GcloudProofs, TLAPS

\* Booting leaves the cloud connection alone; every other step of main.c is one
\* of Gcloud, the scanner's publish one of a publisher.
LEMMA SystemStep == [SysNext]_sysVars => [Next]_vars
<1> SUFFICES ASSUME [SysNext]_sysVars PROVE [Next]_vars
  OBVIOUS
<1>1. CASE Boot
  BY <1>1 DEF Boot, BtEnable, BtReady, MainBleReady, MainModem, MainConnected, ScanStart
<1>2. CASE Connect
  BY <1>2 DEF Connect, Next
<1>3. CASE ScanFilterMatch
  BY <1>3, ScannerAssumption DEF ScanFilterMatch, Publish, Next
<1>4. CASE ScannerPut
  BY <1>4, ScannerAssumption DEF ScannerPut, Publish, Next
<1>5. CASE Background
  BY <1>5, ScannerAssumption DEF Background, Publish, Next
<1>6. CASE UNCHANGED sysVars
  BY <1>6 DEF sysVars
<1> QED
  BY <1>1, <1>2, <1>3, <1>4, <1>5, <1>6 DEF SysNext

\* So every behaviour of the program is one of the cloud connection (by the way the
\* program is composed: this only carries the results over).
LEMMA CloudBehaviour == SysSpec => Spec
<1>1. SysInit => Init
  BY DEF SysInit
<1> QED
  BY <1>1, SystemStep, PTL DEF SysSpec, Spec

\* Where main and bt_ready are relative to each other: main is not past its wait
\* for ble_ready unless bt_ready has given it and waits for the cloud.
Rendezvous ==
  /\ bt = "enabling" => boot = "wait_ble"
  /\ boot \in {"modem", "connect"} => bt = "wait_cloud"

BootInv == SysTypeOK /\ Rendezvous

\* The two semaphores and the scanner change only while they are of their type.
LEMMA BootTypes ==
  SysTypeOK /\ [SysNext]_sysVars =>
    ble_ready' \in 0 .. 1 /\ connected_to_cloud' \in 0 .. 1 /\ scanning' \in BOOLEAN
<1> SUFFICES ASSUME SysTypeOK, [SysNext]_sysVars
             PROVE  ble_ready' \in 0 .. 1 /\ connected_to_cloud' \in 0 .. 1
                    /\ scanning' \in BOOLEAN
  OBVIOUS
<1> USE DEF SysTypeOK
<1>1. CASE Boot
  <2>1. ble_ready' \in {ble_ready, 0, 1} /\ connected_to_cloud' \in {connected_to_cloud, 0, 1}
    BY <1>1 DEF Boot, BtEnable, BtReady, MainBleReady, MainModem, MainConnected, ScanStart
  <2>2. scanning' \in BOOLEAN
    BY <1>1 DEF Boot, BtEnable, BtReady, MainBleReady, MainModem, MainConnected, ScanStart
  <2> QED
    BY <2>1, <2>2
<1>2. CASE UNCHANGED bootVars /\ scanning' \in BOOLEAN
  BY <1>2 DEF bootVars
<1>3. CASE ScanFilterMatch
  BY <1>2, <1>3 DEF ScanFilterMatch
<1>4. CASE Background /\ StopIfPutFails
  BY <1>2, <1>4 DEF StopIfPutFails
<1> QED
  BY <1>1, <1>2, <1>3, <1>4 DEF SysNext, Connect, ScannerPut, sysVars

\* main and bt_ready are well formed: each gives its semaphore only once, and
\* only to the other one's wait, so neither token is ever left over.
THEOREM BootIsSound == SysSpec => []SysTypeOK
<1>1. SysInit => BootInv
  <2> SUFFICES ASSUME SysInit PROVE BootInv
    OBVIOUS
  <2>1. boot = "bt_enable" /\ bt = "off" /\ ble_ready = 0 /\ connected_to_cloud = 0
    BY DEF SysInit
  <2>2. scanning \in BOOLEAN
    BY DEF SysInit
  <2>3. ble_ready \in 0 .. 1 /\ connected_to_cloud \in 0 .. 1
    BY <2>1
  <2>4. ble_ready # 1 /\ connected_to_cloud # 1
    BY <2>1
  <2> QED
    BY <2>1, <2>2, <2>3, <2>4 DEF BootInv, SysTypeOK, Rendezvous
<1>2. BootInv /\ [SysNext]_sysVars => BootInv'
  <2> SUFFICES ASSUME BootInv, [SysNext]_sysVars PROVE BootInv'
    OBVIOUS
  <2>0. ble_ready' \in 0 .. 1 /\ connected_to_cloud' \in 0 .. 1 /\ scanning' \in BOOLEAN
    BY BootTypes DEF BootInv
  <2> USE DEF BootInv, SysTypeOK, Rendezvous
  <2>1. CASE BtEnable
    BY <2>0, <2>1 DEF BtEnable
  <2>2. CASE BtReady
    <3>1. bt = "enabling" /\ bt' \in {"wait_cloud", "failed"} /\ boot' = boot
      BY <2>2 DEF BtReady
    <3>2. ble_ready' = 1 => bt' = "wait_cloud"
      BY <2>2 DEF BtReady
    <3>3. connected_to_cloud' # 1
      BY <2>2 DEF BtReady
    <3> QED
      BY <2>0, <3>1, <3>2, <3>3
  <2>3. CASE MainBleReady
    BY <2>0, <2>3 DEF MainBleReady
  <2>4. CASE MainModem
    BY <2>0, <2>4 DEF MainModem
  <2>5. CASE MainConnected
    BY <2>0, <2>5 DEF MainConnected
  <2>6. CASE ScanStart
    BY <2>0, <2>6 DEF ScanStart
  <2>7. CASE UNCHANGED bootVars
    BY <2>0, <2>7 DEF bootVars
  <2> QED
    BY <2>1, <2>2, <2>3, <2>4, <2>5, <2>6, <2>7
       DEF SysNext, Boot, Connect, ScanFilterMatch, ScannerPut, StopIfPutFails, sysVars
<1>3. BootInv => SysTypeOK
  BY DEF BootInv
<1> QED
  BY <1>1, <1>2, <1>3, PTL DEF SysSpec

-----------------------------------------------------------------------------
(* The cloud connection inside the program.                                  *)

\* Every invariant and action property of the cloud connection is one of the
\* program, whose main thread, scanner and boot are its environment.
THEOREM CloudInSystem ==
  SysSpec => /\ []TypeOK /\ []RenewalArmed /\ []ReceiverRuns /\ []SubscriptionNotLost
             /\ OneMqttThread
BY CloudBehaviour, TypeCorrect, RenewalIsArmed, ReceiverIsRunning, SubscriptionIsKept,
   OneMqttThreadAtATime, PTL

\* So is the room for the CONNECT of a renewal, the scanner being a publisher.
THEOREM RoomInSystem ==
  ASSUME IsFiniteSet(Publishers), Cardinality(Publishers) < N_MESSAGES
  PROVE  SysSpec => []RenewalHasRoom
BY CloudBehaviour, RenewalCommandHasRoom, PTL

-----------------------------------------------------------------------------
(* How the scanner is lost.                                                  *)

\* The scanner runs only after the rendezvous with main, which has then seen
\* gcloud_connect return; the application stays up until it disconnects.
ScannerInv ==
  /\ boot = "bt_enable" => bt = "off"
  /\ scanning => bt = "ready"
  /\ (scanning \/ boot = "done") /\ disconnects = 0 => app = "up"

\* The application, once connected, stays so until it disconnects.
LEMMA StaysUp ==
  ASSUME CountsOK, [Next]_vars, disconnects' = 0
  PROVE  disconnects = 0 /\ (app = "up" => app' = "up")
<1>1. disconnects = 0 /\ ~AppDisconnect
  BY DisconnectsCount
<1>2. CASE App
  BY <1>1, <1>2
     DEF App, AppConnect, AppConnected, AppConnectTimeout, AppPut, AppPutTimeout, Waiting
<1>3. CASE MqttConnack
  BY <1>1, <1>3 DEF MqttConnack, Waiting
<1>4. ASSUME NEW by, NEW wanted, DisconnectEvent(by, wanted)
      PROVE  app = "up" => app' = "up"
  BY <1>4 DEF DisconnectEvent, Purge, AppPutFailed
<1>5. CASE GcSendFails \/ GcDisconnect \/ MqttClosed
  BY <1>1, <1>4, <1>5 DEF GcSendFails, GcDisconnect, MqttClosed
<1>6. CASE app' = app
  BY <1>1, <1>6
<1> QED
  BY <1>1, <1>2, <1>3, <1>5, <1>6
     DEF Next, Publish, PublishCheck, PublishPut, PublishBlock, PublishTimeout,
         ReconnectTimer, GcThread, GcGet, GcConnect, GcSend, GcDisconnectIgnored,
         GcPutConnect, GcWaitSem, MqttThread, MqttConnected, MqttSubscribe,
         MqttSubscribeTimeout, MqttRefused, MqttConfig, MqttBusy, MqttExit,
         BrokerAnswer, BrokerConfig, LinkDrop, vars

\* The scanner is started by bt_ready alone, after main has given
\* connected_to_cloud, and nothing but a disconnection takes the application down.
LEMMA NextScannerInv ==
  CountsOK /\ SysTypeOK /\ ScannerInv /\ [SysNext]_sysVars => ScannerInv'
<1> SUFFICES ASSUME CountsOK, SysTypeOK, ScannerInv, [SysNext]_sysVars
             PROVE  ScannerInv'
  OBVIOUS
<1>1. disconnects' = 0 => disconnects = 0 /\ (app = "up" => app' = "up")
  BY SystemStep, StaysUp
<1> USE DEF ScannerInv
<1>2. CASE BtEnable \/ BtReady \/ MainBleReady \/ MainModem
  BY <1>1, <1>2 DEF BtEnable, BtReady, MainBleReady, MainModem
<1>3. CASE MainConnected
  BY <1>1, <1>3 DEF MainConnected
<1>4. CASE ScanStart
  <2>1. boot = "done" /\ bt' = "ready" /\ boot' = boot
    BY <1>4 DEF ScanStart, SysTypeOK
  <2> QED
    BY <1>1, <2>1
<1>5. CASE UNCHANGED bootVars /\ (scanning' => scanning)
  BY <1>1, <1>5 DEF bootVars
<1>6. CASE ScanFilterMatch
  BY <1>5, <1>6 DEF ScanFilterMatch
<1>7. CASE Connect \/ ScannerPut \/ UNCHANGED sysVars
  BY <1>5, <1>7 DEF Connect, ScannerPut, sysVars
<1>8. CASE Background /\ StopIfPutFails
  BY <1>5, <1>8 DEF StopIfPutFails
<1> QED
  BY <1>2, <1>3, <1>4, <1>6, <1>7, <1>8 DEF SysNext, Boot

\* While all is calm, the steps in which a blocked put fails: the purge of a renewal,
\* or the time-out while the gc thread waits in one.
LEMMA PutFailsInRenewal ==
  ASSUME ConnectInv, Background, Calm, late' = 0,
         pub[Scanner] = "blocked", pub'[Scanner] = "idle"
  PROVE  connecting'
<1>0. /\ QueueOK /\ PubOK /\ CountsOK
      /\ link = "up" /\ gc # "DISCONNECT"
      /\ gc = "wait_sem" => connecting
  BY TypeParts DEF ConnectInv, ThreadInv, FirstConnection, OneConnect, Calm, Benign
<1>1. CASE PublishTimeout(Scanner)
  <2>1. gc = "wait_sem" /\ connecting' = connecting
    BY <1>0, <1>1, LateCounts DEF PublishTimeout, PutLasts, flags
  <2> QED
    BY <1>0, <2>1
<1>2. CASE GcDisconnect
  BY <1>0, <1>2 DEF GcDisconnect
<1>3. ~MqttClosed /\ ~GcSendFails
  BY <1>0 DEF MqttClosed, GcSendFails
<1>4. ASSUME NEW p \in Publishers \ {Scanner}, Publish(p) PROVE FALSE
  <2>1. pub'[Scanner] = pub[Scanner]
    BY <1>0, <1>4, ScannerAssumption
       DEF Publish, PublishCheck, PublishPut, PublishBlock, PublishTimeout, PubOK
  <2> QED
    BY <2>1
<1>5. pub' # pub
  OBVIOUS
<1> QED
  BY <1>1, <1>2, <1>3, <1>4, <1>5
     DEF Background, App, AppConnect, AppConnected, AppConnectTimeout, AppPut,
         AppPutTimeout, AppDisconnect, ReconnectTimer, GcThread, GcGet, GcConnect,
         GcSend, GcDisconnectIgnored, GcPutConnect, GcWaitSem, MqttThread, MqttConnack,
         MqttConnected, MqttSubscribe, MqttSubscribeTimeout, MqttRefused, MqttConfig,
         MqttBusy, MqttExit, BrokerAnswer, BrokerConfig, LinkDrop

\* Where nothing ever failed or took too long, the scan stops only while the device
\* is connecting:
\* bt_ready has waited for the cloud, so a refused publish means a renewal (or
\* the moment between the semaphore and the flag of the first CONNACK).
THEOREM ScanLostInRenewal == SysSpec => ScanLostOnlyInRenewal
<1>1. SysInit => ScannerInv
  BY DEF SysInit, Init, ScannerInv
<1>2. SysSpec => []ConnectInv
  BY CloudBehaviour, ConnectInvariant, PTL
<1>3. ConnectInv => CountsOK
  BY TypeParts DEF ConnectInv, ThreadInv
<1>4. SysSpec => []ScannerInv
  BY <1>1, <1>2, <1>3, NextScannerInv, BootIsSound, PTL DEF SysSpec
<1>5. ConnectInv /\ ScannerInv /\ [SysNext]_sysVars =>
        [(scanning /\ ~scanning' /\ Benign /\ late' = 0) => connecting']_sysVars
  <2> SUFFICES ASSUME ConnectInv, ScannerInv, SysNext,
                      scanning, ~scanning', Benign, late' = 0
               PROVE  connecting'
    BY DEF sysVars
  <2>0. Calm
    BY <1>3, SystemStep, LateBefore DEF Calm
  <2>1. app = "up" /\ bt = "ready" /\ (connected \/ connecting)
    BY <2>0 DEF ScannerInv, ConnectInv, FirstConnection, Calm, Benign
  <2>2. ~Boot
    <3>1. ~BtEnable
      BY <2>1 DEF ScannerInv, BtEnable
    <3> QED
      BY <2>1, <3>1 DEF Boot, BtReady, MainBleReady, MainModem, MainConnected, ScanStart
  <2>3. CASE ScanFilterMatch
    <3>1. ~connected /\ connecting' = connecting
      BY <2>3 DEF ScanFilterMatch, vars
    <3> QED
      BY <2>1, <3>1
  <2>4. CASE Background /\ StopIfPutFails
    <3>1. pub[Scanner] = "blocked" /\ pub'[Scanner] = "idle"
      BY <2>4 DEF StopIfPutFails
    <3> QED
      BY <2>0, <2>4, <3>1, PutFailsInRenewal
  <2> QED
    BY <2>2, <2>3, <2>4 DEF SysNext, Connect, ScannerPut
<1> QED
  BY <1>2, <1>4, <1>5, PTL DEF SysSpec, ScanLostOnlyInRenewal
=============================================================================
