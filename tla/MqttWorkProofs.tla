--------------------------- MODULE MqttWorkProofs ---------------------------
(***************************************************************************)
(* Proofs about MqttWork.  However slow the answers, however often the     *)
(* network drops, whatever the modem refuses: type correctness, and that   *)
(* the unprotected flag app_connected agrees with the worker's session.    *)
(* With answers in time: what holds of the sessions however often the      *)
(* network drops, and, when it does not, all that is promised of them, up  *)
(* to the refinement of Uplink.                                            *)
(***************************************************************************)
EXTENDS MqttWork, QueueLemmas, TLAPS

(* The work queue as a set of items. *)

\* Submitting an item that is not queued (k_work_submit_to_queue) keeps the
\* queue free of duplicates.
LEMMA SubmitType ==
  ASSUME workq \in Seq(Items), IsInjective(workq), NEW item \in Items, Submit(item)
  PROVE  workq' \in Seq(Items) /\ IsInjective(workq')
BY AppendRange DEF Submit

-----------------------------------------------------------------------------
(* Type correctness, in three parts: the work queue, the socket, the rest. *)

QueueOK == workq \in Seq(Items) /\ IsInjective(workq)
WireOK  == wire \in Seq(Packets)
FieldsOK ==
  /\ main \in {"boot", "date_time", "timer", "work", "offline", "sleep", "poll", "done"}
  /\ worker \in InSession \cup {"idle", "lte", "connect", "connect_failed", "go_offline"}
  /\ cur \in Items
  /\ minutes \in 0 .. TransmissionInterval - 1
  /\ app_connected \in BOOLEAN /\ delivered \in BOOLEAN
  /\ mqtt_connect_ok \in 0 .. 1 /\ mqtt_puback_ok \in 0 .. 1
  /\ modem \in {"online", "offline"} /\ client \in {"idle", "tcp", "connected"}
  /\ requests \subseteq {"connect", "publish"}
  /\ drops \in 0 .. MaxDrops /\ stale_poll \in BOOLEAN /\ heap \in 0 .. Memory

\* The three parts are the type invariant.
LEMMA TypeParts == TypeOK <=> QueueOK /\ WireOK /\ FieldsOK
BY DEF TypeOK, QueueOK, WireOK, FieldsOK

\* At power-up the state is well formed.
LEMMA InitType == Init => TypeOK
<1> SUFFICES ASSUME Init PROVE TypeOK
  OBVIOUS
<1>1. QueueOK
  <2>1. workq = <<>>
    BY DEF Init
  <2>2. IsInjective(<<>>)
    BY DEF IsInjective
  <2> QED
    BY <2>1, <2>2 DEF QueueOK
<1>2. WireOK
  BY DEF Init, WireOK
<1>3. FieldsOK
  <2>1. /\ minutes \in 0 .. TransmissionInterval - 1 /\ drops \in 0 .. MaxDrops
        /\ heap \in 0 .. Memory
    BY IntervalAssumption, EnvAssumption DEF Init
  <2>2. requests \subseteq {"connect", "publish"}
    BY DEF Init
  <2>3. /\ main \in {"boot", "date_time", "timer", "work", "offline", "sleep", "poll", "done"}
        /\ worker \in InSession \cup {"idle", "lte", "connect", "connect_failed", "go_offline"}
        /\ cur \in Items
        /\ modem \in {"online", "offline"} /\ client \in {"idle", "tcp", "connected"}
    BY DEF Init, Items, InSession
  <2>4. app_connected \in BOOLEAN /\ delivered \in BOOLEAN /\ stale_poll \in BOOLEAN
    BY DEF Init
  <2>5. mqtt_connect_ok \in 0 .. 1 /\ mqtt_puback_ok \in 0 .. 1
    BY DEF Init
  <2> QED
    BY <2>1, <2>2, <2>3, <2>4, <2>5 DEF FieldsOK
<1> QED
  BY <1>1, <1>2, <1>3, TypeParts

\* The button and the timer submit, the worker starts an item, and nothing
\* else touches the work queue: no item is ever queued twice.
LEMMA NextQueue == QueueOK /\ [Next]_vars => QueueOK'
<1> SUFFICES ASSUME QueueOK, [Next]_vars PROVE QueueOK'
  OBVIOUS
<1>1. CASE ButtonHandler
  BY <1>1, SubmitType DEF ButtonHandler, Items, QueueOK
<1>2. CASE AppTimerHandler
  <2>1. CASE minutes' = 0
    BY <1>2, <2>1, SubmitType DEF AppTimerHandler, Items, QueueOK
  <2>2. CASE minutes' # 0
    BY <1>2, <2>2 DEF AppTimerHandler, QueueOK
  <2> QED
    BY <2>1, <2>2
<1>3. CASE WorkStart
  BY <1>3, TailRange DEF WorkStart, QueueOK
<1>4. CASE workq' = workq
  BY <1>4 DEF QueueOK
<1>5. CASE OutOfMemory
  <2>1. workq' = <<>>
    BY <1>5 DEF OutOfMemory
  <2>2. IsInjective(<<>>)
    BY DEF IsInjective
  <2> QED
    BY <2>1, <2>2 DEF QueueOK
<1> QED
  BY <1>1, <1>2, <1>3, <1>4, <1>5
     DEF Next, Boot, MainLoop, Work, vars, ConnackTimeout, PubackTimeout,
         BrokerConnack, BrokerPuback, NetworkDrop, MainModemConfigure, MainInit,
         MainOffline, MainSleep, MainPollStale, MainPollTimeout, MainInput,
         MainSpin, MainBreak, LteConnect, LteConnectFails, MqttConnect,
         MqttConnectFails, TakeConnectOk, ConnectTimedOut, Publish, TakePubackOk,
         AppAbort, AppDisconnect, AppOffline

\* The socket only ever carries the packets main.c knows of.
LEMMA NextWire == WireOK /\ [Next]_vars => WireOK'
<1> SUFFICES ASSUME WireOK, [Next]_vars PROVE WireOK'
  OBVIOUS
<1>1. CASE BrokerConnack
  BY <1>1 DEF BrokerConnack, WireOK, Packets
<1>2. CASE BrokerPuback
  BY <1>2 DEF BrokerPuback, WireOK, Packets
<1>3. CASE \E how \in {"closed", "error"} : NetworkDrop(how)
  BY <1>3 DEF NetworkDrop, WireOK, Packets
<1>4. CASE MainInput
  BY <1>4 DEF MainInput, WireOK
<1>5. CASE wire' = wire
  BY <1>5 DEF WireOK
<1>6. CASE wire' = <<>>
  <2>1. <<>> \in Seq(Packets)
    OBVIOUS
  <2> QED
    BY <1>6, <2>1 DEF WireOK
<1> QED
  BY <1>1, <1>2, <1>3, <1>4, <1>5, <1>6
     DEF Next, Boot, MainLoop, Work, vars, session, ButtonHandler, AppTimerHandler,
         ConnackTimeout, PubackTimeout, MainModemConfigure, MainInit,
         MainOffline, MainSleep, MainPollStale, MainPollTimeout,
         MainSpin, MainBreak, WorkStart, LteConnect, LteConnectFails, MqttConnect,
         MqttConnectFails, TakeConnectOk, ConnectTimedOut, Publish, OutOfMemory,
         TakePubackOk, AppAbort, AppDisconnect, AppOffline, CloseSession

\* Every other variable keeps its type.
LEMMA NextFields == QueueOK /\ FieldsOK /\ [Next]_vars => FieldsOK'
<1> SUFFICES ASSUME QueueOK, FieldsOK, [Next]_vars PROVE FieldsOK'
  OBVIOUS
<1> USE DEF FieldsOK, InSession, sems, session, net
<1>1. CASE ButtonHandler
  BY <1>1 DEF ButtonHandler
<1>2. CASE AppTimerHandler
  BY <1>2, IntervalAssumption DEF AppTimerHandler
<1>3. CASE ConnackTimeout \/ PubackTimeout
  <2>1. CASE ConnackTimeout
    BY <2>1 DEF ConnackTimeout
  <2>2. CASE PubackTimeout
    BY <2>2 DEF PubackTimeout
  <2> QED
    BY <1>3, <2>1, <2>2
<1>4. CASE BrokerConnack \/ BrokerPuback
  <2>1. requests' \subseteq {"connect", "publish"}
    BY <1>4 DEF BrokerConnack, BrokerPuback
  <2>2. delivered' \in BOOLEAN
    BY <1>4 DEF BrokerConnack, BrokerPuback
  <2>3. UNCHANGED <<main, worker, cur, minutes, app_connected, mqtt_connect_ok,
                    mqtt_puback_ok, modem, client, drops, stale_poll, heap>>
    BY <1>4 DEF BrokerConnack, BrokerPuback
  <2> QED
    BY <2>1, <2>2, <2>3
<1>5. CASE \E how \in {"closed", "error"} : NetworkDrop(how)
  BY <1>5, EnvAssumption DEF NetworkDrop
<1>6. CASE Boot
  <2>1. CASE MainModemConfigure
    BY <2>1 DEF MainModemConfigure
  <2>2. CASE MainInit
    BY <2>2 DEF MainInit
  <2>3. CASE MainOffline
    BY <2>3 DEF MainOffline, Loop
  <2> QED
    BY <1>6, <2>1, <2>2, <2>3 DEF Boot
<1>7. CASE MainLoop
  <2>1. CASE MainSleep
    BY <2>1 DEF MainSleep, Loop
  <2>2. CASE MainPollStale
    BY <2>2 DEF MainPollStale, Loop
  <2>3. CASE MainPollTimeout
    BY <2>3 DEF MainPollTimeout, Loop
  <2>4. CASE MainInput
    <3>1. /\ client' \in {"idle", "tcp", "connected"}
          /\ mqtt_connect_ok' \in 0 .. 1 /\ mqtt_puback_ok' \in 0 .. 1
      BY <2>4 DEF MainInput
    <3> QED
      BY <2>4, <3>1 DEF MainInput
  <2> QED
    BY <1>7, <2>1, <2>2, <2>3, <2>4 DEF MainLoop
<1>8. CASE MainSpin \/ MainBreak
  <2>1. CASE MainSpin
    BY <2>1 DEF MainSpin, vars
  <2>2. CASE MainBreak
    BY <2>2 DEF MainBreak
  <2> QED
    BY <1>8, <2>1, <2>2
<1>9. CASE WorkStart
  BY <1>9, TailRange DEF WorkStart, QueueOK
<1>10. CASE LteConnect \/ LteConnectFails
  <2>1. CASE LteConnect
    BY <2>1 DEF LteConnect
  <2>2. CASE LteConnectFails
    BY <2>2 DEF LteConnectFails, vars
  <2> QED
    BY <1>10, <2>1, <2>2
<1>11. CASE MqttConnect \/ MqttConnectFails
  <2>1. CASE MqttConnect
    BY <2>1 DEF MqttConnect
  <2>2. CASE MqttConnectFails
    BY <2>2 DEF MqttConnectFails
  <2> QED
    BY <1>11, <2>1, <2>2
<1>12. CASE TakeConnectOk \/ ConnectTimedOut \/ TakePubackOk
  <2>1. CASE TakeConnectOk
    BY <2>1 DEF TakeConnectOk
  <2>2. CASE ConnectTimedOut
    BY <2>2 DEF ConnectTimedOut
  <2>3. CASE TakePubackOk
    BY <2>3 DEF TakePubackOk
  <2> QED
    BY <1>12, <2>1, <2>2, <2>3
<1>13. CASE Publish \/ OutOfMemory
  <2>1. CASE Publish
    <3>1. heap' \in 0 .. Memory
      BY <2>1, EnvAssumption DEF Publish
    <3>2. /\ worker' = "wait_puback"
          /\ client' \in {"idle", "tcp", "connected"} /\ requests' \subseteq {"connect", "publish"}
      BY <2>1 DEF Publish, CloseSession
    <3>3. UNCHANGED <<main, cur, minutes, app_connected, mqtt_connect_ok, mqtt_puback_ok,
                      modem, drops, stale_poll, delivered>>
      BY <2>1 DEF Publish
    <3> QED
      BY <3>1, <3>2, <3>3
  <2>2. CASE OutOfMemory
    <3>1. minutes' \in 0 .. TransmissionInterval - 1 /\ heap' \in 0 .. Memory
      BY <2>2, IntervalAssumption, EnvAssumption DEF OutOfMemory
    <3>2. cur' \in Items
      BY <2>2 DEF OutOfMemory, Items
    <3>3. app_connected' \in BOOLEAN /\ stale_poll' \in BOOLEAN /\ delivered' \in BOOLEAN
      BY <2>2 DEF OutOfMemory
    <3>4. /\ mqtt_connect_ok' \in 0 .. 1 /\ mqtt_puback_ok' \in 0 .. 1
          /\ main' = "boot" /\ worker' = "idle" /\ modem' = "offline" /\ client' = "idle"
          /\ requests' = {} /\ drops' = drops
      BY <2>2 DEF OutOfMemory
    <3> QED
      BY <3>1, <3>2, <3>3, <3>4
  <2> QED
    BY <1>13, <2>1, <2>2
<1>14. CASE AppAbort \/ AppDisconnect \/ AppOffline
  <2>1. CASE AppAbort
    BY <2>1 DEF AppAbort, CloseSession
  <2>2. CASE AppDisconnect
    BY <2>2 DEF AppDisconnect, CloseSession
  <2>3. CASE AppOffline
    BY <2>3 DEF AppOffline
  <2> QED
    BY <1>14, <2>1, <2>2, <2>3
<1>15. CASE UNCHANGED vars
  BY <1>15 DEF vars
<1> QED
  BY <1>1, <1>2, <1>3, <1>4, <1>5, <1>6, <1>7, <1>8, <1>9, <1>10, <1>11, <1>12,
     <1>13, <1>14, <1>15 DEF Next, Work

\* Type correctness of main.c's threads, work queue and session, for every
\* transmission interval and every number of dropped connections.
THEOREM TypeCorrect == Spec => []TypeOK
<1>1. TypeOK /\ [Next]_vars => TypeOK'
  BY NextQueue, NextWire, NextFields, TypeParts DEF TypeOK, QueueOK, WireOK, FieldsOK
<1> QED
  BY <1>1, InitType, PTL DEF Spec

-----------------------------------------------------------------------------
(* The flag and the session. *)

\* app_connected is written by the worker alone, with each entry to and each
\* exit from a session, and read by main without a lock: whatever the timing
\* of answers, time-outs, drops and main's loop, it says whether the worker is
\* in a session (app_connect and app_disconnect of main.c).
THEOREM FlagIsTrue == Spec => []FlagMatchesSession
<1>1. Init => FlagMatchesSession
  BY DEF Init, FlagMatchesSession, InSession
<1>2. FieldsOK /\ FlagMatchesSession /\ [Next]_vars => FlagMatchesSession'
  <2> SUFFICES ASSUME FieldsOK, FlagMatchesSession, [Next]_vars
               PROVE  FlagMatchesSession'
    OBVIOUS
  <2> USE DEF FlagMatchesSession, InSession
  <2>1. CASE MqttConnect
    BY <2>1 DEF MqttConnect
  <2>2. CASE AppDisconnect
    BY <2>2 DEF AppDisconnect
  <2>3. CASE ConnectTimedOut
    BY <2>3 DEF ConnectTimedOut
  <2>4. CASE ConnackTimeout \/ PubackTimeout
    BY <2>4 DEF ConnackTimeout, PubackTimeout
  <2>5. CASE WorkStart \/ LteConnect \/ MqttConnectFails
    BY <2>5 DEF WorkStart, LteConnect, MqttConnectFails
  <2>6. CASE TakeConnectOk \/ Publish \/ TakePubackOk \/ AppAbort \/ AppOffline
    BY <2>6 DEF TakeConnectOk, Publish, TakePubackOk, AppAbort, AppOffline
  <2>7. CASE UNCHANGED <<worker, app_connected>>
    BY <2>7
  <2>8. CASE OutOfMemory
    BY <2>8 DEF OutOfMemory
  <2> QED
    BY <2>1, <2>2, <2>3, <2>4, <2>5, <2>6, <2>7, <2>8
       DEF Next, Boot, MainLoop, Work, vars, ButtonHandler, AppTimerHandler,
           BrokerConnack, BrokerPuback, NetworkDrop, MainModemConfigure, MainInit,
           MainOffline, MainSleep, MainPollStale, MainPollTimeout, MainInput,
           MainSpin, MainBreak, LteConnectFails
<1>3. Spec => []FieldsOK
  BY TypeCorrect, TypeParts, PTL
<1> QED
  BY <1>1, <1>2, <1>3, PTL DEF Spec

-----------------------------------------------------------------------------
(* The sessions of the worker, while the broker answers in time and the      *)
(* network does not break a connection.  (With either, main.c does not keep  *)
(* what follows: a token or an answer of one session reaches the next one.)  *)

Quiet    == requests = {} /\ wire = <<>>
NoTokens == mqtt_connect_ok = 0 /\ mqtt_puback_ok = 0

\* Where the exchange with the broker is while the worker waits for CONNACK...
Connecting ==
  /\ mqtt_puback_ok = 0
  /\ \/ /\ client = "tcp" /\ mqtt_connect_ok = 0
        /\ \/ requests = {"connect"} /\ wire = <<>>
           \/ requests = {} /\ wire \in {<<"connack">>, <<"refused">>, <<>>}
     \/ client = "connected" /\ mqtt_connect_ok = 1 /\ Quiet

\* ... and while it waits for PUBACK.
Awaiting ==
  /\ client = "connected" /\ mqtt_connect_ok = 0
  /\ \/ requests = {"publish"} /\ wire = <<>> /\ mqtt_puback_ok = 0 /\ delivered = FALSE
     \/ requests = {} /\ wire = <<"puback">> /\ mqtt_puback_ok = 0 /\ delivered = TRUE
     \/ requests = {} /\ wire = <<>> /\ mqtt_puback_ok = 1 /\ delivered = TRUE

\* Each place of the worker has its state of the session: no packet and no token
\* of one session is left to another one.
SessionInv ==
  /\ worker \in {"idle", "lte", "connect", "go_offline"} =>
       client = "idle" /\ Quiet /\ NoTokens
  /\ worker = "wait_connack" => Connecting /\ delivered = FALSE
  /\ worker = "connack_timeout" => client = "tcp" /\ Quiet /\ NoTokens
  /\ worker = "connect_failed" => client # "connected" /\ Quiet /\ NoTokens
  /\ worker = "publish" =>
       client = "connected" /\ Quiet /\ NoTokens /\ delivered = FALSE
  /\ worker = "wait_puback" => Awaiting
  /\ worker = "acked" => client = "connected" /\ Quiet /\ NoTokens /\ delivered = TRUE
  /\ worker # "puback_timeout"

\* Main's loop has not been left.
MainRuns == main # "done"

\* What MqttWork makes of a socket with one packet.
LEMMA OnePacket ==
  \A p : /\ Append(<<>>, p) = <<p>> /\ <<p>> # <<>>
         /\ Head(<<p>>) = p /\ Tail(<<p>>) = <<>>
OBVIOUS

\* While no connection breaks, main finds neither an error nor a dead client to
\* end its loop for.
LEMMA NextMainRuns ==
  FieldsOK /\ FlagMatchesSession /\ SessionInv /\ MainRuns /\ [Next]_vars => MainRuns'
<1> SUFFICES ASSUME FieldsOK, FlagMatchesSession, SessionInv, MainRuns, [Next]_vars
             PROVE  MainRuns'
  OBVIOUS
<1>1. ~MainBreak
  <2>1. ASSUME app_connected PROVE client # "idle"
    BY <2>1 DEF FlagMatchesSession, SessionInv, Connecting, Awaiting, InSession
  <2>2. wire # <<>> => wire \in {<<"connack">>, <<"refused">>, <<"puback">>}
    BY DEF FieldsOK, SessionInv, Connecting, Awaiting, Quiet, InSession
  <2>3. wire # <<>> => Head(wire) # "error"
    BY <2>2, OnePacket
  <2> QED
    BY <2>1, <2>3 DEF MainBreak
<1> QED
  BY <1>1 DEF MainRuns, Next, Boot, MainLoop, Work, vars, ButtonHandler,
              AppTimerHandler, ConnackTimeout, PubackTimeout, BrokerConnack, BrokerPuback,
              NetworkDrop, MainModemConfigure, MainInit, MainOffline, MainSleep,
              MainPollStale, MainPollTimeout, MainInput, MainSpin, Loop, WorkStart,
              LteConnect, LteConnectFails, MqttConnect, MqttConnectFails, TakeConnectOk,
              ConnectTimedOut, Publish, OutOfMemory, TakePubackOk, AppAbort,
              AppDisconnect, AppOffline

\* The only packets are those of the exchange that is under way, and while none
\* is main finds nothing to do: no step but the worker's opens or closes a session.
LEMMA NextSession ==
  ASSUME SlowAnswers = FALSE, MaxDrops = 0
  PROVE  FieldsOK /\ FlagMatchesSession /\ SessionInv /\ MainRuns /\ [Next]_vars
           => SessionInv'
<1> SUFFICES ASSUME FieldsOK, FlagMatchesSession, SessionInv, MainRuns, [Next]_vars
             PROVE  SessionInv'
  OBVIOUS
<1>0. worker \in InSession \cup {"idle", "lte", "connect", "connect_failed", "go_offline"}
  BY DEF FieldsOK
<1>a. wire # <<>> => \/ worker = "wait_connack" /\ wire \in {<<"connack">>, <<"refused">>}
                     \/ worker = "wait_puback" /\ wire = <<"puback">>
  BY <1>0 DEF SessionInv, Connecting, Awaiting, Quiet, InSession
<1>1. CASE ConnackTimeout
  <2>1. /\ worker = "wait_connack" /\ worker' = "connack_timeout" /\ mqtt_connect_ok = 0
        /\ "connect" \notin requests /\ wire = <<>>
        /\ UNCHANGED <<client, requests, wire, mqtt_connect_ok, mqtt_puback_ok>>
    BY <1>1 DEF ConnackTimeout, AnswerLate, MainRuns, sems, session
  <2>2. client = "tcp" /\ requests = {} /\ mqtt_puback_ok = 0
    BY <2>1 DEF SessionInv, Connecting, Quiet
  <2> QED
    BY <2>1, <2>2 DEF SessionInv, Quiet, NoTokens
<1>2. ~PubackTimeout
  BY DEF PubackTimeout, AnswerLate, MainRuns, SessionInv, Awaiting
<1>3. CASE BrokerConnack
  <2>1. /\ worker = "wait_connack" /\ requests = {"connect"} /\ wire = <<>>
        /\ client = "tcp" /\ NoTokens /\ delivered = FALSE
    BY <1>0, <1>3 DEF BrokerConnack, SessionInv, Connecting, Awaiting, Quiet, NoTokens,
                      InSession
  <2>2. wire' \in {<<"connack">>, <<"refused">>} /\ requests' = {}
    BY <1>3, <2>1, OnePacket DEF BrokerConnack
  <2>3. UNCHANGED <<worker, client, mqtt_connect_ok, mqtt_puback_ok, delivered>>
    BY <1>3 DEF BrokerConnack, sems
  <2> QED
    BY <2>1, <2>2, <2>3 DEF SessionInv, Connecting, NoTokens
<1>4. CASE BrokerPuback
  <2>1. /\ worker = "wait_puback" /\ requests = {"publish"} /\ wire = <<>>
        /\ client = "connected" /\ NoTokens
    BY <1>0, <1>4 DEF BrokerPuback, SessionInv, Connecting, Awaiting, Quiet, NoTokens,
                      InSession
  <2>2. wire' = <<"puback">> /\ requests' = {} /\ delivered' = TRUE
    BY <1>4, <2>1, OnePacket DEF BrokerPuback
  <2>3. UNCHANGED <<worker, client, mqtt_connect_ok, mqtt_puback_ok>>
    BY <1>4 DEF BrokerPuback, sems
  <2> QED
    BY <2>1, <2>2, <2>3 DEF SessionInv, Awaiting, NoTokens
<1>5. ASSUME NEW how PROVE ~NetworkDrop(how)
  BY DEF NetworkDrop, FieldsOK
<1>6. CASE MainInput
  <2>0. wire # <<>> /\ UNCHANGED <<worker, requests, delivered>>
    BY <1>6 DEF MainInput
  <2>1. CASE worker = "wait_connack" /\ wire = <<"connack">>
    <3>1. /\ client' = "connected" /\ wire' = <<>> /\ mqtt_connect_ok' = 1
          /\ mqtt_puback_ok' = mqtt_puback_ok
      BY <1>6, <2>1, OnePacket DEF MainInput
    <3>2. requests = {} /\ mqtt_puback_ok = 0 /\ delivered = FALSE
      BY <2>0, <2>1 DEF SessionInv, Connecting, Quiet
    <3> QED
      BY <2>0, <2>1, <3>1, <3>2 DEF SessionInv, Connecting, Quiet
  <2>2. CASE worker = "wait_connack" /\ wire = <<"refused">>
    <3>1. wire' = <<>> /\ UNCHANGED <<client, mqtt_connect_ok, mqtt_puback_ok>>
      BY <1>6, <2>2, OnePacket DEF MainInput
    <3>2. /\ requests = {} /\ mqtt_puback_ok = 0 /\ mqtt_connect_ok = 0
          /\ client = "tcp" /\ delivered = FALSE
      BY <2>0, <2>2 DEF SessionInv, Connecting, Quiet
    <3> QED
      BY <2>0, <2>2, <3>1, <3>2 DEF SessionInv, Connecting
  <2>3. CASE worker = "wait_puback" /\ wire = <<"puback">>
    <3>1. wire' = <<>> /\ mqtt_puback_ok' = 1 /\ UNCHANGED <<client, mqtt_connect_ok>>
      BY <1>6, <2>3, OnePacket DEF MainInput
    <3>2. requests = {} /\ mqtt_connect_ok = 0 /\ client = "connected" /\ delivered = TRUE
      BY <2>0, <2>3 DEF SessionInv, Awaiting
    <3> QED
      BY <2>0, <2>3, <3>1, <3>2 DEF SessionInv, Awaiting
  <2> QED
    BY <1>a, <2>0, <2>1, <2>2, <2>3
<1>7. ~MainBreak
  BY NextMainRuns DEF MainBreak, MainRuns
<1>8. CASE MqttConnect \/ MqttConnectFails
  <2>1. NoTokens /\ NoTokens'
    BY <1>8 DEF MqttConnect, MqttConnectFails, SessionInv, NoTokens, sems
  <2>2. CASE MqttConnect
    BY <2>1, <2>2 DEF MqttConnect, SessionInv, Connecting, NoTokens
  <2>3. CASE MqttConnectFails
    BY <2>1, <2>3 DEF MqttConnectFails, SessionInv, Quiet
  <2> QED
    BY <1>8, <2>2, <2>3
<1>9. CASE TakeConnectOk
  <2>1. client = "connected" /\ Quiet /\ mqtt_puback_ok = 0 /\ delivered = FALSE
    BY <1>9 DEF TakeConnectOk, SessionInv, Connecting
  <2>2. /\ worker' = "publish" /\ mqtt_connect_ok' = 0
        /\ UNCHANGED <<client, requests, wire, mqtt_puback_ok, delivered>>
    BY <1>9 DEF TakeConnectOk, session
  <2> QED
    BY <2>1, <2>2 DEF SessionInv, Quiet, NoTokens
<1>10. CASE Publish
  <2>1. client = "connected" /\ Quiet /\ NoTokens /\ delivered = FALSE
    BY <1>10 DEF Publish, SessionInv
  <2>2. ~Broken
    BY <2>1 DEF Broken, Quiet, Range
  <2>3. /\ worker' = "wait_puback" /\ requests' = {"publish"} /\ UNCHANGED <<client, wire>>
    BY <1>10, <2>1, <2>2 DEF Publish, Quiet
  <2>4. UNCHANGED <<mqtt_connect_ok, mqtt_puback_ok, delivered>>
    BY <1>10 DEF Publish, sems
  <2> QED
    BY <2>1, <2>3, <2>4 DEF SessionInv, Awaiting, Quiet, NoTokens
<1>11. CASE TakePubackOk
  <2>1. client = "connected" /\ Quiet /\ mqtt_connect_ok = 0 /\ delivered = TRUE
    BY <1>11 DEF TakePubackOk, SessionInv, Awaiting, Quiet
  <2>2. /\ worker' = "acked" /\ mqtt_puback_ok' = 0
        /\ UNCHANGED <<client, requests, wire, mqtt_connect_ok, delivered>>
    BY <1>11 DEF TakePubackOk, session
  <2> QED
    BY <2>1, <2>2 DEF SessionInv, Quiet, NoTokens
<1>12. CASE AppAbort \/ AppDisconnect
  <2>1. CloseSession /\ worker' = "go_offline"
    <3>1. CASE AppAbort
      BY <3>1 DEF AppAbort
    <3>2. CASE AppDisconnect
      <4>1. worker = "acked" /\ client = "connected" /\ wire = <<>>
        BY <3>2 DEF AppDisconnect, SessionInv, Quiet
      <4>2. ~Broken
        BY <4>1 DEF Broken, Range
      <4> QED
        BY <3>2, <4>1, <4>2 DEF AppDisconnect
    <3> QED
      BY <1>12, <3>1, <3>2
  <2>2. NoTokens /\ UNCHANGED <<mqtt_connect_ok, mqtt_puback_ok>>
    BY <1>12 DEF AppAbort, AppDisconnect, SessionInv, sems
  <2> QED
    BY <2>1, <2>2 DEF SessionInv, CloseSession, Quiet, NoTokens
<1>13. CASE OutOfMemory
  BY <1>13 DEF OutOfMemory, SessionInv, Quiet, NoTokens
<1>14. ASSUME UNCHANGED <<client, requests, wire, delivered, mqtt_connect_ok,
                          mqtt_puback_ok>>
       PROVE  /\ Quiet <=> Quiet'
              /\ NoTokens <=> NoTokens'
              /\ Connecting <=> Connecting'
              /\ Awaiting <=> Awaiting'
  BY <1>14 DEF Quiet, NoTokens, Connecting, Awaiting
<1>15. CASE ConnectTimedOut
  BY <1>14, <1>15 DEF ConnectTimedOut, SessionInv, sems, session
<1>16. CASE WorkStart \/ LteConnect \/ AppOffline
  BY <1>14, <1>16 DEF WorkStart, LteConnect, AppOffline, SessionInv, sems, session
<1>17. CASE UNCHANGED <<worker, client, requests, wire, delivered, mqtt_connect_ok,
                        mqtt_puback_ok>>
  BY <1>14, <1>17 DEF SessionInv
<1> QED
  BY <1>1, <1>2, <1>3, <1>4, <1>5, <1>6, <1>7, <1>8, <1>9, <1>10, <1>11, <1>12,
     <1>13, <1>15, <1>16, <1>17
     DEF Next, Boot, MainLoop, Work, vars, ButtonHandler, AppTimerHandler,
         MainModemConfigure, MainInit, MainOffline, MainSleep, MainPollStale,
         MainPollTimeout, MainSpin, LteConnectFails, sems, session

\* The invariant of the sessions; main's loop does not end.
LEMMA SessionInvariant ==
  ASSUME SlowAnswers = FALSE, MaxDrops = 0
  PROVE  Spec => [](SessionInv /\ MainRuns)
<1>1. Init => SessionInv /\ MainRuns
  BY DEF Init, SessionInv, Quiet, NoTokens, MainRuns
<1>2. FieldsOK /\ FlagMatchesSession /\ SessionInv /\ MainRuns /\ [Next]_vars
        => SessionInv' /\ MainRuns'
  BY NextSession, NextMainRuns
<1>3. Spec => []FieldsOK
  BY TypeCorrect, TypeParts, PTL
<1> QED
  BY <1>1, <1>2, <1>3, FlagIsTrue, PTL DEF Spec

\* No session leaves a socket open, and what the two k_sem_take are taken for is
\* true, however main's loop, the button and the timer interleave with the worker
\* and whether or not a connection is refused: while answers are in time and no
\* connection breaks.
THEOREM SessionsAreSound ==
  ASSUME SlowAnswers = FALSE, MaxDrops = 0
  PROVE  Spec => [](NoSocketLeft /\ ConnectMeansConnected /\ AckMeansDelivered)
<1>1. SessionInv => NoSocketLeft /\ ConnectMeansConnected /\ AckMeansDelivered
  BY DEF SessionInv, NoSocketLeft, ConnectMeansConnected, AckMeansDelivered
<1> QED
  BY <1>1, SessionInvariant, PTL

-----------------------------------------------------------------------------
(* The sessions of the worker, while the broker answers in time and the      *)
(* network breaks connections as it likes.  A broken connection may end the  *)
(* loop of main, or have it spin; the worker then waits in vain, but what it *)
(* takes for done is still done.                                             *)

Breaks == {"closed", "error"}

\* No answer is on the way that could give a token.
NoAnswer == requests = {} /\ (wire = <<>> \/ Head(wire) \in Breaks)

\* What the socket may hold and the broker still owe, wherever the worker is: one
\* answer at most, and after it nothing but the marks of a broken connection.
SocketInv ==
  /\ client = "idle" => requests = {} /\ wire = <<>>
  /\ wire # <<>> => requests = {}
  /\ \A i \in 2 .. Len(wire) : wire[i] \in Breaks

\* Each place of the worker has its answers: a token or an answer that is there
\* belongs to the exchange the worker is in, unless main does not read any more.
ExchangeInv ==
  /\ worker \in {"idle", "lte", "connect", "go_offline"} => client = "idle" /\ NoTokens
  /\ worker = "wait_connack" =>
       /\ mqtt_puback_ok = 0 /\ delivered = FALSE /\ requests \subseteq {"connect"}
       /\ wire = <<>> \/ Head(wire) \in Breaks \cup {"connack", "refused"}
       /\ mqtt_connect_ok = 1 => NoAnswer /\ client # "tcp"
       /\ mqtt_connect_ok = 0 => client # "connected"
  /\ worker = "connack_timeout" =>
       NoTokens /\ requests \subseteq {"connect"} /\ (MainRuns => NoAnswer)
  /\ worker = "connect_failed" => NoTokens /\ requests \subseteq {"connect"}
  /\ worker = "publish" => NoTokens /\ NoAnswer /\ client # "tcp" /\ delivered = FALSE
  /\ worker = "wait_puback" =>
       /\ mqtt_connect_ok = 0 /\ client # "tcp" /\ requests \subseteq {"publish"}
       /\ wire = <<>> \/ Head(wire) \in Breaks \cup {"puback"}
       /\ (wire # <<>> /\ Head(wire) = "puback") => delivered
       /\ mqtt_puback_ok = 1 => NoAnswer /\ delivered
  /\ worker = "puback_timeout" =>
       /\ NoTokens /\ client # "tcp" /\ requests \subseteq {"publish"}
       /\ MainRuns => NoAnswer
  /\ worker = "acked" => NoTokens /\ NoAnswer /\ client # "tcp" /\ delivered

\* A socket as it comes to hold a packet more...
LEMMA PacketArrives ==
  ASSUME NEW w \in Seq(Packets), NEW p
  PROVE  /\ Append(w, p) # <<>>
         /\ Head(Append(w, p)) = IF w = <<>> THEN p ELSE Head(w)
         /\ (p \in Breaks /\ \A i \in 2 .. Len(w) : w[i] \in Breaks)
              => \A i \in 2 .. Len(Append(w, p)) : Append(w, p)[i] \in Breaks
         /\ w = <<>> => \A i \in 2 .. Len(Append(w, p)) : Append(w, p)[i] \in Breaks
<1>1. /\ Len(Append(w, p)) = Len(w) + 1 /\ Len(w) \in Nat
      /\ \A i \in 1 .. Len(w) : Append(w, p)[i] = w[i]
      /\ Append(w, p)[Len(w) + 1] = p
  OBVIOUS
<1>2. w # <<>> => Len(w) > 0
  OBVIOUS
<1>3. Append(w, p) # <<>> /\ Head(Append(w, p)) = Append(w, p)[1]
  OBVIOUS
<1>4. Head(Append(w, p)) = IF w = <<>> THEN p ELSE Head(w)
  BY <1>1, <1>2, <1>3
<1>5. ASSUME p \in Breaks, \A i \in 2 .. Len(w) : w[i] \in Breaks,
             NEW i \in 2 .. Len(Append(w, p))
      PROVE  Append(w, p)[i] \in Breaks
  BY <1>1, <1>5
<1>6. w = <<>> => \A i \in 2 .. Len(Append(w, p)) : Append(w, p)[i] \in Breaks
  BY <1>1
<1> QED
  BY <1>3, <1>4, <1>5, <1>6

\* ... and as main reads one.
LEMMA PacketIsRead ==
  ASSUME NEW w \in Seq(Packets), w # <<>>, \A i \in 2 .. Len(w) : w[i] \in Breaks
  PROVE  /\ \A i \in 2 .. Len(Tail(w)) : Tail(w)[i] \in Breaks
         /\ Tail(w) = <<>> \/ Head(Tail(w)) \in Breaks
<1>1. /\ Len(Tail(w)) = Len(w) - 1 /\ Len(w) \in Nat
      /\ \A i \in 1 .. Len(Tail(w)) : Tail(w)[i] = w[i + 1]
  OBVIOUS
<1>2. \A i \in 1 .. Len(Tail(w)) : Tail(w)[i] \in Breaks
  BY <1>1
<1>3. Tail(w) # <<>> => Len(Tail(w)) > 0 /\ Head(Tail(w)) = Tail(w)[1]
  OBVIOUS
<1> QED
  BY <1>1, <1>2, <1>3

\* A session is closed, or opened, with an empty socket.
LEMMA EmptySocket ==
  ASSUME wire' = <<>>
  PROVE  \A i \in 2 .. Len(wire') : wire'[i] \in Breaks
BY DEF Breaks

\* What the steps of the program and of the network do to the socket.
LEMMA NextSocket ==
  FieldsOK /\ WireOK /\ SocketInv /\ ExchangeInv /\ [Next]_vars => SocketInv'
<1> SUFFICES ASSUME FieldsOK, WireOK, SocketInv, ExchangeInv, [Next]_vars
             PROVE  SocketInv'
  OBVIOUS
<1>0. wire \in Seq(Packets)
  BY DEF WireOK
<1>1. CASE BrokerConnack
  <2>1. wire = <<>> /\ client # "idle" /\ client' = client
    BY <1>1 DEF BrokerConnack, SocketInv
  <2>2. worker \in {"wait_connack", "connack_timeout", "connect_failed"}
    BY <1>1 DEF BrokerConnack, ExchangeInv, SocketInv, NoAnswer, FieldsOK, InSession
  <2>3. requests' = {}
    BY <1>1, <2>2 DEF BrokerConnack, ExchangeInv
  <2>4. \A i \in 2 .. Len(wire') : wire'[i] \in Breaks
    BY <1>0, <1>1, <2>1, PacketArrives DEF BrokerConnack
  <2> QED
    BY <2>1, <2>3, <2>4 DEF SocketInv
<1>2. CASE BrokerPuback
  <2>1. wire = <<>> /\ client # "idle" /\ client' = client
    BY <1>2 DEF BrokerPuback, SocketInv
  <2>2. worker \in {"wait_puback", "puback_timeout"}
    BY <1>2 DEF BrokerPuback, ExchangeInv, SocketInv, NoAnswer, FieldsOK, InSession
  <2>3. requests' = {}
    BY <1>2, <2>2 DEF BrokerPuback, ExchangeInv
  <2>4. \A i \in 2 .. Len(wire') : wire'[i] \in Breaks
    BY <1>0, <1>2, <2>1, PacketArrives DEF BrokerPuback
  <2> QED
    BY <2>1, <2>3, <2>4 DEF SocketInv
<1>3. ASSUME NEW how \in {"closed", "error"}, NetworkDrop(how) PROVE SocketInv'
  <2>1. client # "idle" /\ client' = client /\ requests' = {} /\ wire' = Append(wire, how)
    BY <1>3 DEF NetworkDrop
  <2>2. \A i \in 2 .. Len(wire') : wire'[i] \in Breaks
    BY <1>0, <1>3, <2>1, PacketArrives DEF SocketInv, Breaks
  <2> QED
    BY <2>1, <2>2 DEF SocketInv
<1>4. CASE MainInput
  <2>1. wire # <<>> /\ requests = {} /\ requests' = {}
    BY <1>4 DEF MainInput, SocketInv
  <2>2. CASE wire' = <<>>
    BY <2>1, <2>2, EmptySocket DEF SocketInv
  <2>3. CASE wire' # <<>>
    <3>1. wire' = Tail(wire) /\ (client' = client \/ client' = "connected")
      BY <1>4, <2>3 DEF MainInput
    <3>2. client # "idle"
      BY <2>1 DEF SocketInv
    <3>3. \A i \in 2 .. Len(wire') : wire'[i] \in Breaks
      BY <1>0, <2>1, <3>1, PacketIsRead DEF SocketInv
    <3> QED
      BY <2>1, <3>1, <3>2, <3>3 DEF SocketInv
  <2> QED
    BY <2>2, <2>3
<1>5. CASE MqttConnect \/ MqttConnectFails
  <2>1. wire' = <<>> /\ (client' = "idle" => requests' = {})
    BY <1>5 DEF MqttConnect, MqttConnectFails
  <2> QED
    BY <2>1, EmptySocket DEF SocketInv
<1>6. ASSUME CloseSession PROVE SocketInv'
  BY <1>6, EmptySocket DEF CloseSession, SocketInv
<1>7. ASSUME UNCHANGED <<client, requests, wire>> PROVE SocketInv'
  BY <1>7 DEF SocketInv
<1>8. CASE Publish
  <2>1. CASE client = "connected" /\ ~Broken /\ requests' = requests \cup {"publish"}
             /\ UNCHANGED <<client, wire>>
    <3>1. wire = <<>>
      <4> SUFFICES ASSUME wire # <<>> PROVE FALSE
        OBVIOUS
      <4>1. Head(wire) \in Breaks /\ Head(wire) \in Range(wire)
        <5>1. Head(wire) \in Breaks
          BY <1>8 DEF Publish, ExchangeInv, NoAnswer
        <5>2. 1 \in DOMAIN wire /\ Head(wire) = wire[1]
          BY <1>0
        <5> QED
          BY <5>1, <5>2 DEF Range
      <4> QED
        BY <2>1, <4>1 DEF Broken, Breaks
    <3> QED
      BY <2>1, <3>1, EmptySocket DEF SocketInv
  <2> QED
    BY <1>6, <1>7, <1>8, <2>1 DEF Publish
<1>9. CASE AppAbort \/ AppDisconnect
  BY <1>6, <1>7, <1>9 DEF AppAbort, AppDisconnect
<1>10. CASE MainBreak
  <2>1. CASE client = "connected"
    BY <1>6, <1>10, <2>1 DEF MainBreak, CloseSession
  <2> QED
    BY <1>7, <1>10, <2>1 DEF MainBreak
<1>11. CASE OutOfMemory
  BY <1>6, <1>11 DEF OutOfMemory, CloseSession
<1> QED
  BY <1>1, <1>2, <1>3, <1>4, <1>5, <1>7, <1>8, <1>9, <1>10, <1>11
     DEF Next, Boot, MainLoop, Work, vars, ButtonHandler, AppTimerHandler,
         ConnackTimeout, PubackTimeout, MainModemConfigure, MainInit, MainOffline,
         MainSleep, MainPollStale, MainPollTimeout, MainSpin, WorkStart, LteConnect,
         LteConnectFails, TakeConnectOk, ConnectTimedOut, TakePubackOk, AppOffline,
         session

\* What the steps of the program and of the network do to the exchange with the
\* broker.  Only time-outs of answers that cannot come are left here.
LEMMA NextExchange ==
  ASSUME SlowAnswers = FALSE
  PROVE  FieldsOK /\ WireOK /\ FlagMatchesSession /\ SocketInv /\ ExchangeInv /\ [Next]_vars
           => ExchangeInv'
<1> SUFFICES ASSUME FieldsOK, WireOK, FlagMatchesSession, SocketInv, ExchangeInv,
                    [Next]_vars
             PROVE  ExchangeInv'
  OBVIOUS
<1>0. /\ worker \in InSession \cup {"idle", "lte", "connect", "connect_failed", "go_offline"}
      /\ requests \subseteq {"connect", "publish"} /\ wire \in Seq(Packets)
      /\ mqtt_connect_ok \in 0 .. 1 /\ mqtt_puback_ok \in 0 .. 1
  BY DEF FieldsOK, WireOK
<1>a. ASSUME UNCHANGED <<requests, wire>> PROVE NoAnswer <=> NoAnswer'
  BY <1>a DEF NoAnswer
<1>b. ASSUME UNCHANGED <<mqtt_connect_ok, mqtt_puback_ok>> PROVE NoTokens <=> NoTokens'
  BY <1>b DEF NoTokens
<1>c. ASSUME requests' = {}, wire' = <<>> PROVE NoAnswer'
  BY <1>c DEF NoAnswer
<1>1. CASE ConnackTimeout
  <2>1. /\ worker = "wait_connack" /\ worker' = "connack_timeout" /\ mqtt_connect_ok = 0
        /\ MainRuns => "connect" \notin requests /\ wire = <<>>
        /\ UNCHANGED <<main, requests, wire, mqtt_connect_ok, mqtt_puback_ok>>
    BY <1>1 DEF ConnackTimeout, AnswerLate, MainRuns, sems, session
  <2>2. mqtt_puback_ok = 0 /\ requests \subseteq {"connect"}
    BY <2>1 DEF ExchangeInv
  <2>3. MainRuns' => NoAnswer'
    BY <2>1, <2>2, <1>a DEF NoAnswer, MainRuns
  <2> QED
    BY <2>1, <2>2, <2>3 DEF ExchangeInv, NoTokens
<1>2. CASE PubackTimeout
  <2>1. /\ worker = "wait_puback" /\ worker' = "puback_timeout" /\ mqtt_puback_ok = 0
        /\ MainRuns => "publish" \notin requests /\ wire = <<>>
        /\ UNCHANGED <<main, client, requests, wire, mqtt_connect_ok, mqtt_puback_ok>>
    BY <1>2 DEF PubackTimeout, AnswerLate, MainRuns, sems, session
  <2>2. mqtt_connect_ok = 0 /\ requests \subseteq {"publish"} /\ client # "tcp"
    BY <2>1 DEF ExchangeInv
  <2>3. MainRuns' => NoAnswer'
    BY <2>1, <2>2, <1>a DEF NoAnswer, MainRuns
  <2> QED
    BY <2>1, <2>2, <2>3 DEF ExchangeInv, NoTokens
<1>3. CASE BrokerConnack
  <2>1. /\ "connect" \in requests /\ requests' = requests \ {"connect"} /\ wire = <<>>
        /\ wire' = Append(wire, "connack") \/ wire' = Append(wire, "refused")
        /\ UNCHANGED <<main, worker, client, mqtt_connect_ok, mqtt_puback_ok, delivered>>
    BY <1>3 DEF BrokerConnack, SocketInv, sems, net
  <2>2. worker \in {"wait_connack", "connack_timeout", "connect_failed"}
    BY <1>0, <2>1 DEF ExchangeInv, SocketInv, NoAnswer, InSession
  <2>3. Head(wire') \in {"connack", "refused"} /\ requests' = {}
    <3>1. requests \subseteq {"connect"}
      BY <2>2 DEF ExchangeInv
    <3> QED
      BY <2>1, <3>1, OnePacket
  <2>4. CASE worker = "wait_connack"
    <3>1. mqtt_connect_ok = 0
      BY <1>0, <2>1, <2>4 DEF ExchangeInv, NoAnswer
    <3>2. mqtt_puback_ok = 0 /\ delivered = FALSE /\ client # "connected"
      BY <2>4, <3>1 DEF ExchangeInv
    <3> QED
      BY <2>1, <2>3, <2>4, <3>1, <3>2 DEF ExchangeInv
  <2>5. CASE worker = "connack_timeout"
    <3>1. NoTokens /\ ~MainRuns
      BY <2>1, <2>5 DEF ExchangeInv, NoAnswer
    <3>2. NoTokens' /\ ~MainRuns'
      BY <1>b, <2>1, <3>1 DEF MainRuns
    <3> QED
      BY <2>1, <2>3, <2>5, <3>2 DEF ExchangeInv
  <2>6. CASE worker = "connect_failed"
    BY <1>b, <2>1, <2>3, <2>6 DEF ExchangeInv
  <2> QED
    BY <2>2, <2>4, <2>5, <2>6
<1>4. CASE BrokerPuback
  <2>1. /\ "publish" \in requests /\ requests' = requests \ {"publish"} /\ wire = <<>>
        /\ wire' = Append(wire, "puback") /\ delivered' = TRUE
        /\ UNCHANGED <<main, worker, client, mqtt_connect_ok, mqtt_puback_ok>>
    BY <1>4 DEF BrokerPuback, SocketInv, sems, net
  <2>2. worker \in {"wait_puback", "puback_timeout"}
    BY <1>0, <2>1 DEF ExchangeInv, SocketInv, NoAnswer, InSession
  <2>3. Head(wire') = "puback" /\ requests' = {}
    <3>1. requests \subseteq {"publish"}
      BY <2>2 DEF ExchangeInv
    <3> QED
      BY <2>1, <3>1, OnePacket
  <2>4. CASE worker = "wait_puback"
    <3>1. mqtt_puback_ok = 0
      BY <1>0, <2>1, <2>4 DEF ExchangeInv, NoAnswer
    <3>2. mqtt_connect_ok = 0 /\ client # "tcp"
      BY <2>4 DEF ExchangeInv
    <3> QED
      BY <2>1, <2>3, <2>4, <3>1, <3>2 DEF ExchangeInv
  <2>5. CASE worker = "puback_timeout"
    <3>1. NoTokens /\ ~MainRuns /\ client # "tcp"
      BY <2>1, <2>5 DEF ExchangeInv, NoAnswer
    <3>2. NoTokens' /\ ~MainRuns'
      BY <1>b, <2>1, <3>1 DEF MainRuns
    <3> QED
      BY <2>1, <2>3, <2>5, <3>1, <3>2 DEF ExchangeInv
  <2> QED
    BY <2>2, <2>4, <2>5
<1>5. ASSUME NEW how \in {"closed", "error"}, NetworkDrop(how) PROVE ExchangeInv'
  <2>1. /\ client # "idle" /\ requests' = {} /\ wire' = Append(wire, how)
        /\ UNCHANGED <<main, worker, client, mqtt_connect_ok, mqtt_puback_ok, delivered>>
    BY <1>5 DEF NetworkDrop, sems
  <2>2. wire' # <<>> /\ Head(wire') = IF wire = <<>> THEN how ELSE Head(wire)
    BY <1>0, <2>1, PacketArrives
  <2>3. how \in Breaks
    BY <1>5 DEF Breaks
  <2>4. NoAnswer => NoAnswer'
    BY <2>1, <2>2, <2>3 DEF NoAnswer
  <2>5. (NoTokens <=> NoTokens') /\ (MainRuns <=> MainRuns')
    BY <1>b, <2>1 DEF MainRuns
  <2>6. how # "puback"
    BY <1>5
  <2>7. CASE worker = "wait_connack"
    BY <2>1, <2>2, <2>3, <2>4, <2>7 DEF ExchangeInv
  <2>8. CASE worker = "wait_puback"
    BY <2>1, <2>2, <2>3, <2>4, <2>6, <2>8 DEF ExchangeInv
  <2>9. CASE worker \notin {"wait_connack", "wait_puback"}
    BY <2>1, <2>4, <2>5, <2>9 DEF ExchangeInv
  <2> QED
    BY <2>7, <2>8, <2>9
<1>6. CASE MainInput
  <2>1. /\ wire # <<>> /\ Head(wire) # "error" /\ requests = {} /\ MainRuns
        /\ worker \in InSession /\ UNCHANGED <<main, worker, requests, delivered>>
    BY <1>6 DEF MainInput, PollReturns, MainRuns, SocketInv, FlagMatchesSession
  <2>2. ASSUME Head(wire) = "closed"
        PROVE  /\ client' = "idle" /\ wire' = <<>> /\ NoAnswer'
               /\ UNCHANGED <<mqtt_connect_ok, mqtt_puback_ok>>
    BY <1>6, <2>1, <2>2 DEF MainInput, NoAnswer
  <2>3. ASSUME Head(wire) # "closed"
        PROVE  wire' = Tail(wire) /\ NoAnswer'
    <3>1. wire' = Tail(wire)
      BY <1>6, <2>3 DEF MainInput
    <3>2. wire' = <<>> \/ Head(wire') \in Breaks
      BY <1>0, <2>1, <3>1, PacketIsRead DEF SocketInv
    <3> QED
      BY <2>1, <3>1, <3>2 DEF NoAnswer
  <2>4. ASSUME NoAnswer PROVE Head(wire) = "closed"
    BY <2>1, <2>4 DEF NoAnswer, Breaks
  <2>5. CASE worker = "wait_connack"
    <3>1. /\ mqtt_puback_ok = 0 /\ delivered = FALSE
          /\ Head(wire) \in {"closed", "connack", "refused"}
          /\ mqtt_connect_ok = 1 => Head(wire) = "closed"
          /\ mqtt_connect_ok = 0 => client # "connected"
      BY <2>1, <2>4, <2>5 DEF ExchangeInv, Breaks
    <3>2. NoAnswer' /\ requests' = {} /\ (wire' = <<>> \/ Head(wire') \in Breaks)
      BY <2>2, <2>3 DEF NoAnswer
    <3>3. CASE Head(wire) = "closed"
      BY <2>1, <2>2, <2>5, <3>1, <3>2, <3>3 DEF ExchangeInv
    <3>4. CASE Head(wire) = "connack"
      <4>1. client' = "connected" /\ mqtt_connect_ok' = 1 /\ mqtt_puback_ok' = mqtt_puback_ok
        BY <1>6, <3>4 DEF MainInput
      <4> QED
        BY <2>1, <2>5, <3>1, <3>2, <4>1 DEF ExchangeInv
    <3>5. CASE Head(wire) = "refused"
      <4>1. UNCHANGED <<client, mqtt_connect_ok, mqtt_puback_ok>>
        BY <1>6, <3>5 DEF MainInput
      <4>2. mqtt_connect_ok = 0
        BY <1>0, <3>1, <3>5
      <4> QED
        BY <2>1, <2>5, <3>1, <3>2, <4>1, <4>2 DEF ExchangeInv
    <3> QED
      BY <3>1, <3>3, <3>4, <3>5
  <2>6. CASE worker = "wait_puback"
    <3>1. /\ mqtt_connect_ok = 0 /\ client # "tcp"
          /\ Head(wire) \in {"closed", "puback"}
          /\ mqtt_puback_ok = 1 => delivered
          /\ Head(wire) = "puback" => delivered
      BY <2>1, <2>4, <2>6 DEF ExchangeInv, Breaks
    <3>2. NoAnswer' /\ requests' = {} /\ (wire' = <<>> \/ Head(wire') \in Breaks)
      BY <2>2, <2>3 DEF NoAnswer
    <3>3. wire' # <<>> => Head(wire') # "puback"
      BY <3>2 DEF Breaks
    <3>4. CASE Head(wire) = "closed"
      BY <2>1, <2>2, <2>6, <3>1, <3>2, <3>3, <3>4 DEF ExchangeInv
    <3>5. CASE Head(wire) = "puback"
      <4>1. mqtt_puback_ok' = 1 /\ UNCHANGED <<client, mqtt_connect_ok>>
        BY <1>6, <3>5 DEF MainInput
      <4> QED
        BY <2>1, <2>6, <3>1, <3>2, <3>3, <3>5, <4>1 DEF ExchangeInv
    <3> QED
      BY <3>1, <3>4, <3>5
  <2>7. CASE worker \notin {"wait_connack", "wait_puback"}
    <3>1. NoTokens /\ NoAnswer
      BY <2>1, <2>7 DEF ExchangeInv, InSession
    <3>2. client' = "idle" /\ wire' = <<>> /\ NoAnswer' /\ NoTokens'
      BY <1>b, <2>2, <2>4, <3>1
    <3> QED
      BY <2>1, <2>7, <3>1, <3>2 DEF ExchangeInv, InSession
  <2> QED
    BY <2>5, <2>6, <2>7
<1>7. CASE MainBreak
  <2>1. /\ ~MainRuns' /\ worker \in InSession
        /\ UNCHANGED <<worker, mqtt_connect_ok, mqtt_puback_ok, delivered>>
        /\ \/ client' = "idle" /\ wire' = <<>> /\ requests' = {}
           \/ client # "connected" /\ UNCHANGED <<client, wire, requests>>
    BY <1>7 DEF MainBreak, MainRuns, FlagMatchesSession, sems
  <2>2. NoTokens <=> NoTokens'
    BY <1>b, <2>1
  <2>3. CASE client' = "idle" /\ wire' = <<>> /\ requests' = {}
    BY <1>c, <2>1, <2>2, <2>3 DEF ExchangeInv, InSession
  <2>4. CASE UNCHANGED <<client, wire, requests>>
    BY <1>a, <2>1, <2>2, <2>4 DEF ExchangeInv, InSession
  <2> QED
    BY <2>1, <2>3, <2>4
<1>8. CASE MqttConnect \/ MqttConnectFails
  <2>1. NoTokens /\ UNCHANGED <<mqtt_connect_ok, mqtt_puback_ok>> /\ delivered' = FALSE
    BY <1>8 DEF MqttConnect, MqttConnectFails, ExchangeInv, sems
  <2>2. mqtt_connect_ok' = 0 /\ mqtt_puback_ok' = 0 /\ NoTokens'
    BY <2>1 DEF NoTokens
  <2>3. CASE MqttConnect
    BY <2>1, <2>2, <2>3 DEF MqttConnect, ExchangeInv
  <2>4. CASE MqttConnectFails
    BY <2>2, <2>4 DEF MqttConnectFails, ExchangeInv
  <2> QED
    BY <1>8, <2>3, <2>4
<1>9. CASE TakeConnectOk
  <2>1. /\ worker' = "publish" /\ mqtt_connect_ok' = 0
        /\ UNCHANGED <<client, requests, wire, mqtt_puback_ok, delivered>>
    BY <1>9 DEF TakeConnectOk, session
  <2>2. mqtt_puback_ok = 0 /\ NoAnswer /\ client # "tcp" /\ delivered = FALSE
    BY <1>9 DEF TakeConnectOk, ExchangeInv
  <2> QED
    BY <1>a, <2>1, <2>2 DEF ExchangeInv, NoTokens
<1>10. CASE ConnectTimedOut
  <2>1. /\ worker = "connack_timeout" /\ worker' = "connect_failed"
        /\ UNCHANGED <<requests, mqtt_connect_ok, mqtt_puback_ok>>
    BY <1>10 DEF ConnectTimedOut, sems, session
  <2> QED
    BY <1>b, <2>1 DEF ExchangeInv
<1>11. CASE Publish
  <2>1. NoTokens /\ NoAnswer /\ client # "tcp" /\ worker' = "wait_puback"
    BY <1>11 DEF Publish, ExchangeInv
  <2>2. mqtt_connect_ok' = 0 /\ mqtt_puback_ok' = 0
    BY <1>11, <2>1 DEF Publish, NoTokens, sems
  <2>3. /\ client' # "tcp" /\ requests' \subseteq {"publish"}
        /\ wire' = <<>> \/ wire' = wire
    BY <1>11, <2>1 DEF Publish, CloseSession, NoAnswer
  <2>4. wire' = <<>> \/ Head(wire') \in Breaks
    BY <2>1, <2>3 DEF NoAnswer
  <2>5. wire' # <<>> => Head(wire') # "puback"
    BY <2>4 DEF Breaks
  <2> QED
    BY <2>1, <2>2, <2>3, <2>4, <2>5 DEF ExchangeInv
<1>12. CASE TakePubackOk
  <2>1. /\ worker' = "acked" /\ mqtt_puback_ok' = 0
        /\ UNCHANGED <<client, requests, wire, mqtt_connect_ok, delivered>>
    BY <1>12 DEF TakePubackOk, session
  <2>2. mqtt_connect_ok = 0 /\ NoAnswer /\ client # "tcp" /\ delivered
    BY <1>12 DEF TakePubackOk, ExchangeInv
  <2> QED
    BY <1>a, <2>1, <2>2 DEF ExchangeInv, NoTokens
<1>13. CASE AppAbort
  <2>1. client' = "idle" /\ worker' = "go_offline" /\ NoTokens /\ NoTokens'
    BY <1>b, <1>13 DEF AppAbort, CloseSession, ExchangeInv, sems
  <2> QED
    BY <2>1 DEF ExchangeInv
<1>14. CASE AppDisconnect
  <2>1. NoTokens /\ NoTokens' /\ client # "tcp" /\ worker' \in {"go_offline", "idle"}
    BY <1>b, <1>14 DEF AppDisconnect, ExchangeInv, sems
  <2>2. client' = "idle"
    BY <1>14, <2>1 DEF AppDisconnect, CloseSession, FieldsOK
  <2> QED
    BY <2>1, <2>2 DEF ExchangeInv
<1>15. CASE OutOfMemory
  BY <1>15 DEF OutOfMemory, ExchangeInv, NoTokens
<1>16. CASE WorkStart \/ LteConnect \/ AppOffline
  <2>1. /\ worker \in {"idle", "lte", "go_offline"} /\ worker' \in {"idle", "lte", "connect"}
        /\ UNCHANGED <<client, mqtt_connect_ok, mqtt_puback_ok>>
    BY <1>16 DEF WorkStart, LteConnect, AppOffline, sems, session
  <2> QED
    BY <1>b, <2>1 DEF ExchangeInv
<1>17. ASSUME UNCHANGED <<worker, client, requests, wire, delivered, mqtt_connect_ok,
                          mqtt_puback_ok>>,
              MainRuns' => MainRuns
       PROVE  ExchangeInv'
  BY <1>a, <1>b, <1>17 DEF ExchangeInv
<1>18. CASE UNCHANGED main /\ UNCHANGED <<worker, client, requests, wire, delivered,
                                          mqtt_connect_ok, mqtt_puback_ok>>
  BY <1>17, <1>18 DEF MainRuns
<1>19. CASE Boot \/ MainSleep \/ MainPollStale \/ MainPollTimeout
  <2>1. MainRuns
    BY <1>19 DEF Boot, MainModemConfigure, MainInit, MainOffline, MainSleep,
                 MainPollStale, MainPollTimeout, PollReturns, MainRuns
  <2> QED
    BY <1>17, <1>19, <2>1 DEF Boot, MainModemConfigure, MainInit, MainOffline, MainSleep,
                 MainPollStale, MainPollTimeout, sems, session
<1> QED
  BY <1>1, <1>2, <1>3, <1>4, <1>5, <1>6, <1>7, <1>8, <1>9, <1>10, <1>11, <1>12, <1>13,
     <1>14, <1>15, <1>16, <1>18, <1>19
     DEF Next, MainLoop, Work, vars, ButtonHandler, AppTimerHandler, MainSpin,
         LteConnectFails, sems, session

\* However many connections break, and whatever main makes of it (its loop may end,
\* or spin on the dead socket), no session leaves a socket open, and a message taken
\* for acknowledged has reached the broker: no semaphore and no packet of one
\* session is taken for the next one's, as long as the broker answers in time.
THEOREM SessionsSurviveDrops ==
  ASSUME SlowAnswers = FALSE
  PROVE  Spec => [](NoSocketLeft /\ AckMeansDelivered)
<1>1. Init => SocketInv /\ ExchangeInv
  BY DEF Init, SocketInv, ExchangeInv, NoTokens
<1>2. FieldsOK /\ WireOK /\ FlagMatchesSession /\ SocketInv /\ ExchangeInv /\ [Next]_vars
        => SocketInv' /\ ExchangeInv'
  BY NextSocket, NextExchange
<1>3. Spec => [](FieldsOK /\ WireOK)
  BY TypeCorrect, TypeParts, PTL
<1>4. ExchangeInv => NoSocketLeft /\ AckMeansDelivered
  BY DEF ExchangeInv, NoSocketLeft, AckMeansDelivered
<1> QED
  BY <1>1, <1>2, <1>3, <1>4, FlagIsTrue, PTL DEF Spec

-----------------------------------------------------------------------------
(* Flight mode.                                                              *)

\* Past boot, the modem of an idle worker is off, be anything queued or not.
OfflineInv == (worker = "idle" /\ main \in {"sleep", "poll", "done"}) => modem = "offline"

\* Each exit from a session leads through lte_lc_offline, and main switches the
\* modem on only before the worker may start.
LEMMA NextOffline ==
  ASSUME OfflineMayFail = FALSE
  PROVE  FieldsOK /\ SessionInv /\ OfflineInv /\ [Next]_vars => OfflineInv'
<1> SUFFICES ASSUME FieldsOK, SessionInv, OfflineInv, [Next]_vars PROVE OfflineInv'
  OBVIOUS
<1> USE DEF OfflineInv
<1>1. CASE MainModemConfigure \/ MainInit
  BY <1>1 DEF MainModemConfigure, MainInit
<1>2. CASE MainOffline
  BY <1>2 DEF MainOffline
<1>3. CASE MainSleep \/ MainPollStale \/ MainPollTimeout \/ MainBreak
  BY <1>3 DEF MainSleep, MainPollStale, MainPollTimeout, MainBreak, PollReturns
<1>4. CASE AppDisconnect
  <2>1. client = "connected" /\ wire = <<>>
    BY <1>4 DEF AppDisconnect, SessionInv, Quiet
  <2>2. ~Broken
    BY <2>1 DEF Broken, Range
  <2>3. worker' = "go_offline"
    BY <1>4, <2>1, <2>2 DEF AppDisconnect
  <2> QED
    BY <2>3
<1>5. CASE AppOffline
  BY <1>5 DEF AppOffline
<1>6. CASE OutOfMemory
  BY <1>6 DEF OutOfMemory
<1>7. CASE worker' # "idle"
  BY <1>7
<1>8. CASE UNCHANGED <<main, worker, modem>>
  BY <1>8
<1> QED
  BY <1>1, <1>2, <1>3, <1>4, <1>5, <1>6, <1>7, <1>8
     DEF Next, Boot, MainLoop, Work, vars, ButtonHandler, AppTimerHandler, ConnackTimeout,
         PubackTimeout, BrokerConnack, BrokerPuback, NetworkDrop, MainInput, MainSpin,
         WorkStart, LteConnect, LteConnectFails, MqttConnect, MqttConnectFails,
         TakeConnectOk, ConnectTimedOut, Publish, TakePubackOk, AppAbort

\* Between uploads the modem is in flight mode, through every refused connection
\* and every order of main's boot and the worker's first item, while answers are
\* in time, no connection breaks and the modem obeys.
THEOREM FlightMode ==
  ASSUME SlowAnswers = FALSE, MaxDrops = 0, OfflineMayFail = FALSE
  PROVE  Spec => []FlightModeBetweenUploads
<1>1. Init => OfflineInv
  BY DEF Init, OfflineInv
<1>2. FieldsOK /\ SessionInv /\ OfflineInv /\ [Next]_vars => OfflineInv'
  BY NextOffline
<1>3. Spec => []FieldsOK
  BY TypeCorrect, TypeParts, PTL
<1>4. Spec => [](SessionInv /\ MainRuns)
  BY SessionInvariant
<1>5. OfflineInv => FlightModeBetweenUploads
  BY DEF OfflineInv, FlightModeBetweenUploads
<1> QED
  BY <1>1, <1>2, <1>3, <1>4, <1>5, PTL DEF Spec

-----------------------------------------------------------------------------
(* The two threads implement Uplink.                                         *)

\* The stage of the upload, the item it serves, and the queue.
LEMMA StageOf ==
  /\ worker \in {"idle", "go_offline"} => UplinkStage = "none"
  /\ worker = "publish" => UplinkStage = "connected"
  /\ worker \in {"wait_puback", "acked"} =>
       UplinkStage = IF delivered THEN "delivered" ELSE "sending"
  /\ worker \in {"lte", "connect", "wait_connack", "connack_timeout", "connect_failed"} =>
       UplinkStage = "connecting"
  /\ UplinkStage \in {"none", "connecting", "connected", "sending", "delivered"}
BY DEF UplinkStage

\* The same after a step.
LEMMA StageAfter ==
  /\ worker' \in {"idle", "go_offline"} => UplinkStage' = "none"
  /\ worker' = "publish" => UplinkStage' = "connected"
  /\ worker' \in {"wait_puback", "acked"} =>
       UplinkStage' = IF delivered' THEN "delivered" ELSE "sending"
  /\ worker' \in {"lte", "connect", "wait_connack", "connack_timeout", "connect_failed"} =>
       UplinkStage' = "connecting"
BY DEF UplinkStage

\* Every step of main.c is one of Uplink, or none.
LEMMA UplinkStep ==
  ASSUME SlowAnswers = FALSE, MaxDrops = 0
  PROVE  FieldsOK /\ FlagMatchesSession /\ SessionInv /\ MainRuns /\ [Next]_vars
           => [UL!Next]_(UL!vars)
<1> SUFFICES ASSUME FieldsOK, FlagMatchesSession, SessionInv, MainRuns, [Next]_vars
             PROVE  [UL!Next]_(UL!vars)
  OBVIOUS
<1>0. SessionInv'
  BY NextSession
<1>1. ASSUME UNCHANGED <<workq, cur, heap>>, UplinkStage' = UplinkStage
      PROVE  UNCHANGED UL!vars
  BY <1>1 DEF UL!vars
<1>2. ASSUME UNCHANGED <<worker, delivered, workq, cur, heap>>
      PROVE  UNCHANGED UL!vars
  <2>1. UplinkStage' = UplinkStage
    BY <1>2 DEF UplinkStage
  <2> QED
    BY <1>1, <1>2, <2>1
<1>3. ASSUME NEW item \in Items, Submit(item),
             UNCHANGED <<worker, delivered, cur, heap>>
      PROVE  [UL!Next]_(UL!vars)
  <2>1. CASE item \in Range(workq) \/ ~WorkQStarted
    BY <1>2, <1>3, <2>1 DEF Submit
  <2>2. CASE item \notin Range(workq) /\ WorkQStarted
    <3>1. UplinkStage' = UplinkStage
      BY <1>3 DEF UplinkStage
    <3>2. UL!Request(item)
      BY <1>3, <2>2, <3>1 DEF Submit, UL!Request, Range, UL!Range
    <3> QED
      BY <3>2 DEF UL!Next
  <2> QED
    BY <2>1, <2>2
<1>4. CASE ButtonHandler \/ AppTimerHandler
  BY <1>2, <1>3, <1>4 DEF ButtonHandler, AppTimerHandler, Items, session, net
<1>5. CASE WorkStart
  <2>1. /\ worker = "idle" /\ workq # <<>> /\ worker' = "lte"
        /\ cur' = Head(workq) /\ workq' = Tail(workq) /\ heap' = heap
    BY <1>5 DEF WorkStart, net
  <2>2. UplinkStage = "none" /\ UplinkStage' = "connecting"
    BY <2>1, StageOf, StageAfter
  <2>3. UL!Begin
    BY <2>1, <2>2 DEF UL!Begin
  <2> QED
    BY <2>3 DEF UL!Next
<1>6. CASE LteConnect \/ MqttConnect \/ MqttConnectFails \/ ConnackTimeout \/ ConnectTimedOut
  <2>1. /\ worker \in {"lte", "connect", "wait_connack", "connack_timeout"}
        /\ worker' \in {"connect", "wait_connack", "connack_timeout", "connect_failed"}
        /\ UNCHANGED <<workq, cur, heap>>
    BY <1>6 DEF LteConnect, MqttConnect, MqttConnectFails, ConnackTimeout,
                ConnectTimedOut, net
  <2> QED
    BY <1>1, <2>1, StageOf, StageAfter
<1>7. CASE TakeConnectOk
  <2>1. /\ worker = "wait_connack" /\ worker' = "publish"
        /\ UNCHANGED <<workq, cur, heap>>
    BY <1>7 DEF TakeConnectOk, net
  <2>2. UplinkStage = "connecting" /\ UplinkStage' = "connected"
    BY <2>1, StageOf, StageAfter
  <2>3. UL!Advance("connecting", "connected")
    BY <2>1, <2>2 DEF UL!Advance
  <2> QED
    BY <2>3 DEF UL!Next
<1>8. CASE Publish
  <2>1. /\ worker = "publish" /\ worker' = "wait_puback" /\ heap > 0 /\ heap' = heap - 1
        /\ UNCHANGED <<workq, cur, delivered>>
    BY <1>8 DEF Publish
  <2>2. delivered' = FALSE
    BY <2>1 DEF SessionInv
  <2>3. UplinkStage = "connected" /\ UplinkStage' = "sending"
    BY <2>1, <2>2, StageOf, StageAfter
  <2>4. UL!Send
    BY <2>1, <2>3 DEF UL!Send
  <2> QED
    BY <2>4 DEF UL!Next
<1>9. CASE BrokerPuback
  <2>1. /\ worker = "wait_puback" /\ delivered = FALSE
    BY <1>9 DEF BrokerPuback, SessionInv, Connecting, Awaiting, Quiet, FieldsOK, InSession
  <2>2. /\ worker' = "wait_puback" /\ delivered' = TRUE
        /\ UNCHANGED <<workq, cur, heap>>
    BY <1>9, <2>1 DEF BrokerPuback, net
  <2>3. UplinkStage = "sending" /\ UplinkStage' = "delivered"
    BY <2>1, <2>2, StageOf, StageAfter
  <2>4. UL!Advance("sending", "delivered")
    BY <2>2, <2>3 DEF UL!Advance
  <2> QED
    BY <2>4 DEF UL!Next
<1>10. CASE TakePubackOk
  <2>1. /\ worker = "wait_puback" /\ worker' = "acked" /\ delivered' = delivered
        /\ UNCHANGED <<workq, cur, heap>>
    BY <1>10 DEF TakePubackOk, net, session
  <2>2. UplinkStage' = UplinkStage
    BY <2>1, StageOf, StageAfter
  <2> QED
    BY <1>1, <2>1, <2>2
<1>11. CASE AppAbort
  <2>1. /\ worker = "connect_failed" /\ worker' = "go_offline"
        /\ UNCHANGED <<workq, cur, heap>>
    BY <1>11 DEF AppAbort, net
  <2>2. UplinkStage = "connecting" /\ UplinkStage' = "none"
    BY <2>1, StageOf, StageAfter
  <2>3. UL!End("connecting")
    BY <2>1, <2>2 DEF UL!End
  <2> QED
    BY <2>3 DEF UL!Next
<1>12. CASE AppDisconnect
  <2>1. /\ worker = "acked" /\ delivered = TRUE /\ worker' \in {"go_offline", "idle"}
        /\ UNCHANGED <<workq, cur, heap>>
    BY <1>12 DEF AppDisconnect, SessionInv, net
  <2>2. UplinkStage = "delivered" /\ UplinkStage' = "none"
    BY <2>1, StageOf, StageAfter
  <2>3. UL!End("delivered")
    BY <2>1, <2>2 DEF UL!End
  <2> QED
    BY <2>3 DEF UL!Next
<1>13. CASE AppOffline
  <2>1. /\ worker = "go_offline" /\ worker' = "idle" /\ UNCHANGED <<workq, cur, heap>>
    BY <1>13 DEF AppOffline, net
  <2> QED
    BY <1>1, <2>1, StageOf, StageAfter
<1>14. CASE OutOfMemory
  <2>1. /\ worker = "publish" /\ heap = 0 /\ worker' = "idle"
        /\ workq' = <<>> /\ heap' = Memory
    BY <1>14 DEF OutOfMemory
  <2>2. UplinkStage = "connected" /\ UplinkStage' = "none"
    BY <2>1, StageOf, StageAfter
  <2>3. UL!Restart
    BY <2>1, <2>2 DEF UL!Restart, UL!Init
  <2> QED
    BY <2>3 DEF UL!Next
<1>15. ASSUME NEW how PROVE ~NetworkDrop(how)
  BY DEF NetworkDrop, FieldsOK
<1>16. ~PubackTimeout
  BY DEF PubackTimeout, SessionInv, AnswerLate, MainRuns, Awaiting
<1> QED
  BY <1>2, <1>4, <1>5, <1>6, <1>7, <1>8, <1>9, <1>10, <1>11, <1>12, <1>13, <1>14, <1>15,
     <1>16
     DEF Next, Boot, MainLoop, Work, vars, BrokerConnack, MainModemConfigure, MainInit,
         MainOffline, MainSleep, MainPollStale, MainPollTimeout, MainInput, MainSpin,
         MainBreak, LteConnectFails, session, net

\* Requests are served one by one and in order, each with one message that has
\* reached the broker before the request is done with, for every interval of the
\* timer and every amount of memory: while answers are in time and no connection
\* breaks.
THEOREM MqttWorkImplementsUplink ==
  ASSUME SlowAnswers = FALSE, MaxDrops = 0
  PROVE  Spec => ImplementsUplink
<1>1. Init => UL!Init
  BY StageOf DEF Init, UL!Init
<1>2. FieldsOK /\ FlagMatchesSession /\ SessionInv /\ MainRuns /\ [Next]_vars
        => [UL!Next]_(UL!vars)
  BY UplinkStep
<1>3. Spec => []FieldsOK
  BY TypeCorrect, TypeParts, PTL
<1>4. Spec => [](SessionInv /\ MainRuns)
  BY SessionInvariant
<1> QED
  BY <1>1, <1>2, <1>3, <1>4, FlagIsTrue, PTL DEF Spec, ImplementsUplink, UL!Spec
=============================================================================
