--------------------------- MODULE HidLockerProofs ---------------------------
(***************************************************************************)
(* Proofs about HidLocker for every pool, every set of button values and   *)
(* every bound on the event manager's queue.                               *)
(***************************************************************************)
EXTENDS HidLocker, QueueLemmas, TLAPS

-----------------------------------------------------------------------------
\* Type correctness of the pipeline: every reachable state of main.c's
\* queues, semaphores and threads is well formed.
LEMMA InitType == Init => TypeOK
<1> SUFFICES ASSUME Init PROVE TypeOK
  OBVIOUS
<1>1. pc["main"] = "boot" /\ pc["ble"] = "idle"
  BY DEF Init, Threads
<1>2. /\ pc \in [Threads -> Locations]
      /\ pc["ble"] \in Producing \cup {"idle"} /\ pc["main"] # "idle"
  BY <1>1 DEF Init, Threads, Locations
<1>3. /\ ev # NoBlock <=> pc["main"] \in Producing \cup {"take", "write", "free"}
      /\ \A t \in Threads : new[t] # NoBlock <=> pc[t] \in {"put", "flush_free"}
  BY <1>1 DEF Init, Threads, Producing, AllocFailed
<1>4. evt_fifo \in Seq(Blocks) /\ bleq \in Seq(BtnVals) /\ Len(bleq) <= MaxBleEvents
  BY BoundsAssumption DEF Init
<1>5. gpio_cb \in BOOLEAN /\ fault \in BOOLEAN
  BY DEF Init
<1>6. event_type \in [Blocks -> EvtT] /\ new \in [Threads -> Blocks \cup {NoBlock}]
  BY DEF Init, EvtT
<1>7. /\ evt_sem \in 0 .. 1 /\ usb_sem \in 0 .. 1
      /\ usb \in {"none", "lock", "clear"} /\ keys \in {"up", "down"}
      /\ free \subseteq Blocks /\ ev \in Blocks \cup {NoBlock}
  BY DEF Init
<1> QED
  BY <1>2, <1>3, <1>4, <1>5, <1>6, <1>7 DEF TypeOK

\* Every step of the interrupt, of a thread and of the devices keeps the state
\* well formed.
LEMMA NextType == TypeOK /\ [Next]_vars => TypeOK'
<1> SUFFICES ASSUME TypeOK, [Next]_vars PROVE TypeOK'
  OBVIOUS
<1> USE NoBlockAssumption, BoundsAssumption
    DEF TypeOK, Threads, EvtT, Locations, Producing, AllocFailed, Goto, queues, devices
<1>1. ASSUME NEW t \in Threads, Produce(t) PROVE TypeOK'
  <2>1. CASE Alloc(t)
    <3>1. CASE free = {} /\ Goto(t, "flush") /\ UNCHANGED <<free, new>>
      BY <2>1, <3>1 DEF Alloc
    <3>2. ASSUME NEW b \in free, free' = free \ {b}, new' = [new EXCEPT ![t] = b],
                 Goto(t, "put")
          PROVE TypeOK'
      BY <2>1, <3>2 DEF Alloc
    <3> QED
      BY <2>1, <3>1, <3>2, Zenon DEF Alloc
  <2>2. CASE FlushGet(t)
    <3>1. CASE evt_fifo = <<>>
      BY <2>2, <3>1 DEF FlushGet
    <3>2. CASE evt_fifo # <<>>
      <4> DEFINE first == Head(evt_fifo)
                 rest == Tail(evt_fifo)
      <4>1. first \in Blocks /\ rest \in Seq(Blocks)
        BY <3>2
      <4>2. /\ pc[t] = "flush" /\ new' = [new EXCEPT ![t] = first] /\ evt_fifo' = rest
            /\ Goto(t, "flush_free")
            /\ UNCHANGED <<free, event_type, evt_sem, ev, bleq, gpio_cb, devices, fault>>
        BY <2>2, <3>2, Zenon DEF FlushGet
      <4> HIDE DEF first, rest
      <4> QED
        BY <4>1, <4>2
    <3> QED
      BY <3>1, <3>2
  <2>3. CASE FlushFree(t)
    BY <2>3 DEF FlushFree
  <2>4. CASE Retry(t)
    BY <2>4 DEF Retry
  <2>5. CASE NullDeref(t)
    BY <2>5 DEF NullDeref
  <2>6. CASE Put(t)
    BY <2>6 DEF Put
  <2>7. CASE Give(t)
    BY <2>7 DEF Give
  <2> QED
    BY <1>1, <2>1, <2>2, <2>3, <2>4, <2>5, <2>6, <2>7 DEF Produce
<1>2. CASE Btn0
  BY <1>2 DEF Btn0
<1>3. CASE Btn0Exhausted
  <2>1. Queued \subseteq Blocks
    BY RangeType DEF Queued
  <2> QED
    BY <1>3, <2>1 DEF Btn0Exhausted
<1>4. ASSUME NEW length \in 0 .. 1, NEW v \in BtnVals, OnReceived(length, v)
      PROVE TypeOK'
  BY <1>4 DEF OnReceived
<1>5. CASE BleEvent
  BY <1>5 DEF BleEvent
<1>6. CASE Main
  <2>1. CASE BootHid
    BY <2>1 DEF BootHid
  <2>2. CASE BootCallbacks
    BY <2>2 DEF BootCallbacks
  <2>3. CASE BootUsb
    BY <2>3 DEF BootUsb
  <2>4. CASE MainWait
    BY <2>4 DEF MainWait
  <2>5. CASE MainGet
    <3>1. CASE evt_fifo = <<>>
      BY <2>5, <3>1 DEF MainGet
    <3>2. CASE evt_fifo # <<>>
      <4> DEFINE first == Head(evt_fifo)
                 rest == Tail(evt_fifo)
      <4>1. first \in Blocks /\ rest \in Seq(Blocks)
        BY <3>2
      <4>2. /\ pc["main"] = "get" /\ ev' = first /\ evt_fifo' = rest
            /\ Goto("main", "take")
            /\ UNCHANGED <<free, event_type, evt_sem, new, bleq, gpio_cb, devices, fault>>
        BY <2>5, <3>2, Zenon DEF MainGet
      <4> HIDE DEF first, rest
      <4> QED
        BY <4>1, <4>2
    <3> QED
      BY <3>1, <3>2
  <2>6. CASE MainTakeUsb
    BY <2>6 DEF MainTakeUsb
  <2>7. CASE MainWrite
    BY <2>7 DEF MainWrite
  <2>8. CASE MainFree
    BY <2>8 DEF MainFree
  <2> QED
    BY <1>6, <2>1, <2>2, <2>3, <2>4, <2>5, <2>6, <2>7, <2>8 DEF Main
<1>7. CASE InReadyCb
  BY <1>7 DEF InReadyCb
<1>8. CASE Reset
  <2>1. Init'
    BY <1>8 DEF Reset, Init
  <2> QED
    BY <2>1, InitType, PTL
<1>9. CASE UNCHANGED vars
  BY <1>9 DEF vars
<1> QED
  BY <1>1, <1>2, <1>3, <1>4, <1>5, <1>6, <1>7, <1>8, <1>9 DEF Next, Running

\* Type correctness of the pipeline of main.c, for every pool size.
THEOREM TypeCorrect == Spec => []TypeOK
BY InitType, NextType, PTL DEF Spec

-----------------------------------------------------------------------------
(* The pool: each block is in one place. *)

\* At power-up the pool holds every block (K_MEM_POOL_DEFINE, K_FIFO_DEFINE).
LEMMA InitOwnership == Init => BlockOwnership
BY RangeType DEF Init, BlockOwnership, Queued, Held, Doomed, Threads

\* Every step moves a block from one place to one other: allocation, flush, put,
\* get and free never duplicate or drop one, but for the retry that fails.
LEMMA NextOwnership == TypeOK /\ BlockOwnership /\ [Next]_vars => BlockOwnership'
<1> SUFFICES ASSUME TypeOK, BlockOwnership, [Next]_vars PROVE BlockOwnership'
  OBVIOUS
<1>queued. evt_fifo \in Seq(Blocks) /\ Queued \subseteq Blocks
  BY RangeType, Zenon DEF TypeOK, Queued
<1>type. /\ free \subseteq Blocks /\ pc \in [Threads -> Locations]
         /\ new \in [Threads -> Blocks \cup {NoBlock}]
         /\ ev \in Blocks \cup {NoBlock}
         /\ ev # NoBlock <=> pc["main"] \in Producing \cup {"take", "write", "free"}
         /\ \A t \in Threads : new[t] # NoBlock <=> pc[t] \in {"put", "flush_free"}
  BY Zenon DEF TypeOK
<1> USE NoBlockAssumption, <1>queued, <1>type
    DEF BlockOwnership, Held, Doomed, Threads, Goto, queues, devices
<1>1. ASSUME NEW t \in Threads, Alloc(t) PROVE BlockOwnership'
  <2>1. CASE free = {}
    BY <1>1, <2>1 DEF Alloc, Queued
  <2>2. ASSUME NEW b \in free, free' = free \ {b}, new' = [new EXCEPT ![t] = b],
               pc' = [pc EXCEPT ![t] = "put"]
        PROVE BlockOwnership'
    <3>1. Queued' = Queued /\ IsInjective(evt_fifo') /\ UNCHANGED <<ev, fault>>
      BY <1>1 DEF Alloc, Queued
    <3>2. pc[t] = "alloc" /\ new[t] = NoBlock /\ b \notin Held /\ b \notin Queued /\ b # NoBlock
      BY <1>1, <2>2 DEF Alloc
    <3>3. CASE t = "main"
      BY <2>2, <3>1, <3>2, <3>3
    <3>4. CASE t = "ble"
      BY <2>2, <3>1, <3>2, <3>4
    <3> QED
      BY <3>3, <3>4
  <2> QED
    BY <1>1, <2>1, <2>2, Zenon DEF Alloc
<1>2. ASSUME NEW t \in Threads, FlushGet(t) PROVE BlockOwnership'
  <2>1. CASE evt_fifo = <<>>
    BY <1>2, <2>1 DEF FlushGet, Queued
  <2>2. CASE evt_fifo # <<>>
    <3> DEFINE first == Head(evt_fifo)
    <3>1. /\ first \in Blocks /\ first \in Queued /\ IsInjective(evt_fifo')
          /\ Queued' = Queued \ {first}
      <4>1. evt_fifo' = Tail(evt_fifo) /\ IsInjective(evt_fifo)
        BY <1>2, <2>2, Zenon DEF FlushGet
      <4> QED
        BY <2>2, <4>1, TailRange, Zenon DEF Queued
    <3>2. /\ pc[t] = "flush" /\ new' = [new EXCEPT ![t] = first]
          /\ pc' = [pc EXCEPT ![t] = "flush_free"]
          /\ UNCHANGED <<free, ev, fault>>
      BY <1>2, <2>2, Zenon DEF FlushGet
    <3>3. new[t] = NoBlock /\ first \notin Held /\ first \notin free /\ first # NoBlock
      BY <3>1, <3>2
    <3> HIDE DEF first
    <3>4. CASE t = "main"
      BY <3>1, <3>2, <3>3, <3>4
    <3>5. CASE t = "ble"
      BY <3>1, <3>2, <3>3, <3>5
    <3> QED
      BY <3>4, <3>5
  <2> QED
    BY <2>1, <2>2
<1>3. ASSUME NEW t \in Threads, FlushFree(t) PROVE BlockOwnership'
  BY <1>3 DEF FlushFree, Queued
<1>4. ASSUME NEW t \in Threads, Retry(t) PROVE BlockOwnership'
  BY <1>4 DEF Retry, Queued
<1>5. ASSUME NEW t \in Threads, NullDeref(t) PROVE BlockOwnership'
  BY <1>5 DEF NullDeref, Queued
<1>6. ASSUME NEW t \in Threads, Put(t) PROVE BlockOwnership'
  <2>1. new[t] \in Blocks /\ new[t] \notin Queued
    BY <1>6 DEF Put
  <2>2. IsInjective(evt_fifo') /\ Queued' = Queued \cup {new[t]}
    BY <1>6, <2>1, AppendRange DEF Put, Queued
  <2> QED
    BY <1>6, <2>1, <2>2 DEF Put
<1>7. ASSUME NEW t \in Threads, Give(t) PROVE BlockOwnership'
  BY <1>7 DEF Give, Queued
<1>8. CASE Btn0
  <2>1. PICK b \in free : free' = free \ {b} /\ evt_fifo' = Append(evt_fifo, b)
    BY <1>8 DEF Btn0
  <2>2. b \in Blocks /\ b \notin Queued
    BY <2>1
  <2>3. IsInjective(evt_fifo') /\ Queued' = Queued \cup {b}
    BY <2>1, <2>2, AppendRange DEF Queued
  <2> QED
    BY <1>8, <2>1, <2>2, <2>3 DEF Btn0
<1>9. CASE Btn0Exhausted
  <2>1. IsInjective(evt_fifo') /\ Queued' = {} /\ free' \subseteq Queued
    BY <1>9, RangeType DEF Btn0Exhausted, Queued
  <2> QED
    BY <1>9, <2>1 DEF Btn0Exhausted
<1>10. CASE MainGet
  <2>1. CASE evt_fifo = <<>>
    BY <1>10, <2>1 DEF MainGet, Queued
  <2>2. CASE evt_fifo # <<>>
    <3> DEFINE first == Head(evt_fifo)
    <3>1. /\ first \in Blocks /\ first \in Queued /\ IsInjective(evt_fifo')
          /\ Queued' = Queued \ {first}
      <4>1. evt_fifo' = Tail(evt_fifo) /\ IsInjective(evt_fifo)
        BY <1>10, <2>2, Zenon DEF MainGet
      <4> QED
        BY <2>2, <4>1, TailRange, Zenon DEF Queued
    <3>2. /\ pc["main"] = "get" /\ ev' = first /\ pc' = [pc EXCEPT !["main"] = "take"]
          /\ UNCHANGED <<free, new, fault>>
      BY <1>10, <2>2, Zenon DEF MainGet
    <3>3. ev = NoBlock /\ first \notin Held /\ first \notin free /\ first # NoBlock
      BY <3>1, <3>2 DEF Producing, AllocFailed
    <3> HIDE DEF first
    <3> QED
      BY <3>1, <3>2, <3>3
  <2> QED
    BY <2>1, <2>2
<1>11. CASE MainFree
  BY <1>11 DEF MainFree, Queued
<1>12. CASE Reset
  <2>1. Init'
    BY <1>12 DEF Reset, Init
  <2> QED
    BY <2>1, InitOwnership, PTL
<1>13. ASSUME NEW length \in 0 .. 1, NEW v \in BtnVals, OnReceived(length, v)
       PROVE BlockOwnership'
  BY <1>13 DEF OnReceived, Queued
<1>14. CASE BleEvent
  BY <1>14 DEF BleEvent, Queued
<1>15. CASE BootHid \/ BootCallbacks \/ BootUsb
  BY <1>15 DEF BootHid, BootCallbacks, BootUsb, Queued
<1>16. CASE MainWait \/ MainTakeUsb \/ MainWrite
  BY <1>16 DEF MainWait, MainTakeUsb, MainWrite, Queued
<1>17. CASE InReadyCb
  BY <1>17 DEF InReadyCb, Queued
<1>18. CASE UNCHANGED vars
  BY <1>18 DEF vars, Queued
<1> QED
  BY <1>1, <1>2, <1>3, <1>4, <1>5, <1>6, <1>7, <1>8, <1>9, <1>10, <1>11, <1>12,
     <1>13, <1>14, <1>15, <1>16, <1>17, <1>18
     DEF Next, Running, Produce, Main

-----------------------------------------------------------------------------
(* Wake-ups.  NoLostWakeup is not inductive: main enters the wait from its  *)
(* boot code, when events may already be queued.                            *)

WakeInv ==
  (pc["main"] \in {"boot", "callbacks", "usb", "wait"} /\ evt_fifo # <<>> /\ ~fault)
    => (evt_sem = 1 \/ pc["ble"] = "give")

\* Every step keeps the wake-up of a queued event: whoever puts one gives
\* evt_sem after it, and main goes to sleep only on an empty queue.
LEMMA NextWake == TypeOK /\ WakeInv /\ [Next]_vars => WakeInv'
<1> SUFFICES ASSUME TypeOK, WakeInv, [Next]_vars PROVE WakeInv'
  OBVIOUS
<1>type. pc \in [Threads -> Locations] /\ pc["ble"] \in Producing \cup {"idle"}
  BY Zenon DEF TypeOK
<1> USE <1>type DEF WakeInv, Threads, Producing, AllocFailed, Goto, queues, devices
<1>1. ASSUME NEW t \in Threads, Alloc(t) PROVE WakeInv'
  BY <1>1 DEF Alloc
<1>2. ASSUME NEW t \in Threads, FlushGet(t) PROVE WakeInv'
  <2>1. CASE evt_fifo = <<>>
    BY <1>2, <2>1 DEF FlushGet
  <2>2. CASE evt_fifo # <<>>
    <3>1. /\ pc[t] = "flush" /\ pc' = [pc EXCEPT ![t] = "flush_free"]
          /\ UNCHANGED <<evt_sem, fault>>
      BY <1>2, <2>2, Zenon DEF FlushGet
    <3> QED
      BY <2>2, <3>1
  <2> QED
    BY <2>1, <2>2
<1>3. ASSUME NEW t \in Threads, FlushFree(t) PROVE WakeInv'
  BY <1>3 DEF FlushFree
<1>4. ASSUME NEW t \in Threads, Retry(t) PROVE WakeInv'
  BY <1>4 DEF Retry
<1>5. ASSUME NEW t \in Threads, NullDeref(t) PROVE WakeInv'
  BY <1>5 DEF NullDeref
<1>6. ASSUME NEW t \in Threads, Put(t) PROVE WakeInv'
  BY <1>6 DEF Put
<1>7. ASSUME NEW t \in Threads, Give(t) PROVE WakeInv'
  BY <1>7 DEF Give
<1>8. CASE Btn0 \/ Btn0Exhausted
  BY <1>8 DEF Btn0, Btn0Exhausted
<1>9. ASSUME NEW length \in 0 .. 1, NEW v \in BtnVals, OnReceived(length, v)
      PROVE WakeInv'
  BY <1>9 DEF OnReceived
<1>10. CASE BleEvent
  BY <1>10 DEF BleEvent
<1>11. CASE BootHid \/ BootCallbacks \/ BootUsb
  BY <1>11 DEF BootHid, BootCallbacks, BootUsb
<1>12. CASE MainWait
  BY <1>12 DEF MainWait
<1>13. CASE MainGet
  BY <1>13 DEF MainGet
<1>14. CASE MainTakeUsb \/ MainWrite \/ MainFree
  BY <1>14 DEF MainTakeUsb, MainWrite, MainFree
<1>15. CASE InReadyCb
  BY <1>15 DEF InReadyCb
<1>16. CASE Reset
  BY <1>16 DEF Reset
<1>17. CASE UNCHANGED vars
  BY <1>17 DEF vars
<1> QED
  BY <1>1, <1>2, <1>3, <1>4, <1>5, <1>6, <1>7, <1>8, <1>9, <1>10, <1>11, <1>12,
     <1>13, <1>14, <1>15, <1>16, <1>17
     DEF Next, Running, Produce, Main

-----------------------------------------------------------------------------
(* The endpoint token. *)

\* Every step keeps the endpoint's token in one place: usb_sem, main's write,
\* or the report in flight.
LEMMA NextToken == TypeOK /\ UsbToken /\ [Next]_vars => UsbToken'
<1> SUFFICES ASSUME TypeOK, UsbToken, [Next]_vars PROVE UsbToken'
  OBVIOUS
<1>type. pc \in [Threads -> Locations] /\ usb_sem \in 0 .. 1 /\ WriteMayFail \in BOOLEAN
  BY BoundsAssumption, Zenon DEF TypeOK
<1> USE <1>type DEF UsbToken, Threads, Goto, devices
<1>1. CASE MainTakeUsb
  BY <1>1 DEF MainTakeUsb
<1>2. CASE MainWrite
  BY <1>2 DEF MainWrite
<1>3. CASE InReadyCb
  BY <1>3 DEF InReadyCb
<1>4. CASE Reset
  BY <1>4 DEF Reset
<1>5. ASSUME NEW t \in Threads, Produce(t) PROVE UsbToken'
  <2>1. UNCHANGED <<usb_sem, usb>> /\ (pc["main"] = "write" <=> pc'["main"] = "write")
    BY <1>5 DEF Produce, Alloc, FlushGet, FlushFree, Retry, NullDeref, Put, Give
  <2> QED
    BY <2>1
<1>6. CASE Btn0 \/ Btn0Exhausted
  BY <1>6 DEF Btn0, Btn0Exhausted
<1>7. ASSUME NEW length \in 0 .. 1, NEW v \in BtnVals, OnReceived(length, v)
      PROVE UsbToken'
  BY <1>7 DEF OnReceived
<1>8. CASE BleEvent
  BY <1>8 DEF BleEvent
<1>9. CASE BootHid \/ BootCallbacks \/ BootUsb \/ MainWait \/ MainGet \/ MainFree
  BY <1>9 DEF BootHid, BootCallbacks, BootUsb, MainWait, MainGet, MainFree
<1>10. CASE UNCHANGED vars
  BY <1>10 DEF vars
<1> QED
  BY <1>1, <1>2, <1>3, <1>4, <1>5, <1>6, <1>7, <1>8, <1>9, <1>10
     DEF Next, Running, Main

-----------------------------------------------------------------------------
(* Releasing the keys.  The argument needs the ownership of blocks: writing *)
(* the type of a new event must not turn a queued clear into a lock.        *)

\* Every step keeps the release of a shown lock report on its way.
LEMMA NextRelease ==
  TypeOK /\ BlockOwnership /\ UsbToken /\ ReleasePending /\ [Next]_vars => ReleasePending'
<1> SUFFICES ASSUME TypeOK, BlockOwnership, UsbToken, ReleasePending, [Next]_vars
             PROVE  ReleasePending'
  OBVIOUS
<1>type. /\ pc \in [Threads -> Locations] /\ event_type \in [Blocks -> EvtT]
         /\ new \in [Threads -> Blocks \cup {NoBlock}]
         /\ ev \in Blocks \cup {NoBlock}
         /\ ev # NoBlock <=> pc["main"] \in Producing \cup {"take", "write", "free"}
         /\ \A t \in Threads : new[t] # NoBlock <=> pc[t] \in {"put", "flush_free"}
         /\ evt_fifo \in Seq(Blocks)
         /\ usb_sem \in 0 .. 1
  BY Zenon DEF TypeOK
<1>queued. Queued \subseteq Blocks
  BY <1>type, RangeType, Zenon DEF Queued
<1>own. /\ IsInjective(evt_fifo) /\ free \cap Queued = {} /\ free \cap Held = {}
        /\ Queued \cap Held = {} /\ (ev # NoBlock => \A t \in Threads : new[t] # ev)
  BY Zenon DEF BlockOwnership
<1>token. pc["main"] = "write" => usb = "none"
  BY <1>type DEF UsbToken
<1> USE NoBlockAssumption, <1>type, <1>queued
    DEF ReleasePending, LockShown, Jammed, ClearInHand, IsClear, Threads, Producing,
        AllocFailed, Goto, devices, queues
<1>1. ASSUME NEW t \in Threads, Alloc(t) PROVE ReleasePending'
  BY <1>1 DEF Alloc, Queued
<1>2. ASSUME NEW t \in Threads, FlushGet(t) \/ FlushFree(t) \/ Retry(t)
      PROVE ReleasePending'
  <2>1. pc'[t] \in AllocFailed
    BY <1>2 DEF FlushGet, FlushFree, Retry
  <2> QED
    BY <2>1
<1>3. ASSUME NEW t \in Threads, NullDeref(t) PROVE ReleasePending'
  BY <1>3 DEF NullDeref
<1>4. ASSUME NEW t \in Threads, Put(t) PROVE ReleasePending'
  <2>1. new[t] \in Blocks /\ new[t] \notin Queued /\ new[t] # ev
    BY <1>4, <1>own DEF Put, Held
  <2>2. Queued' = Queued \cup {new[t]}
    BY <1>4, <1>own, <2>1, AppendRange DEF Put, Queued
  <2>3. \A b \in Blocks : b # new[t] => event_type'[b] = event_type[b]
    BY <1>4 DEF Put
  <2>4. CASE t = "main"
    <3>1. event_type'[new["main"]] = "HID_KBD_CLEAR"
      BY <1>4, <2>1, <2>4 DEF Put
    <3> QED
      BY <2>2, <2>4, <3>1
  <2>5. CASE t = "ble"
    <3>1. /\ pc'["main"] = pc["main"] /\ pc["ble"] = "put" /\ pc'["ble"] = "give"
          /\ UNCHANGED <<ev, usb_sem, usb, keys, fault>>
      BY <1>4, <2>5 DEF Put
    <3> QED
      BY <2>1, <2>2, <2>3, <2>5, <3>1
  <2> QED
    BY <2>4, <2>5
<1>5. ASSUME NEW t \in Threads, Give(t) PROVE ReleasePending'
  BY <1>5 DEF Give, Queued
<1>6. CASE Btn0
  <2>1. PICK b \in free : /\ evt_fifo' = Append(evt_fifo, b)
                          /\ event_type' = [event_type EXCEPT ![b] = "GPIO_BUTTON_0"]
    BY <1>6 DEF Btn0
  <2>2. b \notin Queued /\ b # ev /\ b \in Blocks
    BY <1>own DEF Held, TypeOK
  <2>3. Queued' = Queued \cup {b}
    BY <1>own, <2>1, <2>2, AppendRange DEF Queued
  <2>4. \A c \in Blocks : c # b => event_type'[c] = event_type[c]
    BY <2>1
  <2> QED
    BY <1>6, <2>2, <2>3, <2>4 DEF Btn0
<1>7. CASE Btn0Exhausted
  BY <1>7 DEF Btn0Exhausted
<1>8. ASSUME NEW length \in 0 .. 1, NEW v \in BtnVals, OnReceived(length, v)
      PROVE ReleasePending'
  BY <1>8 DEF OnReceived, Queued
<1>9. CASE BleEvent
  BY <1>9 DEF BleEvent, Queued
<1>10. CASE BootHid \/ BootCallbacks \/ BootUsb \/ MainWait
  BY <1>10 DEF BootHid, BootCallbacks, BootUsb, MainWait, Queued
<1>11. CASE MainGet
  <2>1. CASE evt_fifo = <<>>
    BY <1>11, <2>1 DEF MainGet, Queued
  <2>2. CASE evt_fifo # <<>>
    <3> DEFINE first == Head(evt_fifo)
    <3>1. /\ pc["main"] = "get" /\ ev' = first /\ pc' = [pc EXCEPT !["main"] = "take"]
          /\ evt_fifo' = Tail(evt_fifo)
          /\ UNCHANGED <<event_type, usb_sem, usb, keys, fault>>
      BY <1>11, <2>2, Zenon DEF MainGet, devices
    <3>2. Queued' = Queued \ {first}
      BY <1>own, <2>2, <3>1, TailRange, Zenon DEF Queued
    <3> HIDE DEF first
    <3> QED
      BY <3>1, <3>2
  <2> QED
    BY <2>1, <2>2
<1>12. CASE MainTakeUsb
  BY <1>12 DEF MainTakeUsb, Queued
<1>13. CASE MainWrite
  <2>1. CASE IsClear(ev)
    BY <1>13, <2>1, <1>token DEF MainWrite, UsbToken
  <2>2. CASE ~IsClear(ev)
    BY <1>13, <2>2 DEF MainWrite
  <2> QED
    BY <2>1, <2>2
<1>14. CASE MainFree
  BY <1>14 DEF MainFree, Queued
<1>15. CASE InReadyCb
  BY <1>15 DEF InReadyCb, Queued
<1>16. CASE Reset
  BY <1>16 DEF Reset
<1>17. CASE UNCHANGED vars
  BY <1>17 DEF vars, Queued
<1> QED
  BY <1>1, <1>2, <1>3, <1>4, <1>5, <1>6, <1>7, <1>8, <1>9, <1>10, <1>11, <1>12,
     <1>13, <1>14, <1>15, <1>16, <1>17
     DEF Next, Running, Produce, Main

-----------------------------------------------------------------------------
(* The theorems. *)

\* The inductive invariant of the pipeline.
PipelineInv == TypeOK /\ BlockOwnership /\ WakeInv /\ UsbToken /\ ReleasePending

\* The inductive invariant holds in every reachable state.
LEMMA PipelineInvariant == Spec => []PipelineInv
<1>1. Init => PipelineInv
  <2>1. Init => UsbToken /\ WakeInv /\ ReleasePending
    BY DEF Init, UsbToken, WakeInv, ReleasePending, LockShown, Threads
  <2> QED
    BY <2>1, InitType, InitOwnership DEF PipelineInv
<1>2. PipelineInv /\ [Next]_vars => PipelineInv'
  BY NextType, NextOwnership, NextWake, NextToken, NextRelease DEF PipelineInv
<1> QED
  BY <1>1, <1>2, PTL DEF Spec

\* No event block is ever in two places, freed twice or lost before an
\* allocation has failed for good (app_evt_alloc, app_evt_put, app_evt_get
\* and app_evt_free of main.c, from an interrupt and two threads).
THEOREM PoolIsSound == Spec => []BlockOwnership
BY PipelineInvariant, PTL DEF PipelineInv

\* The binary semaphore evt_sem never leaves main asleep over a queued event.
THEOREM WakeupsAreKept == Spec => []NoLostWakeup
<1>1. PipelineInv => NoLostWakeup
  BY DEF PipelineInv, WakeInv, NoLostWakeup
<1> QED
  BY <1>1, PipelineInvariant, PTL

\* usb_sem admits one report at a time to the IN endpoint.
THEOREM OneReportInFlight == Spec => []UsbToken
BY PipelineInvariant, PTL DEF PipelineInv

\* A lock report shown to the host always has its clear report on the way.
THEOREM KeysNeverStuck == Spec => []ReleasePending
BY PipelineInvariant, PTL DEF PipelineInv
=============================================================================
