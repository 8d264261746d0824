----------------------------- MODULE HidLocker -----------------------------
(***************************************************************************)
(* The event pipeline of bluetooth/hid_locker (src/main.c, and on_received *)
(* of src/ble.c).  A button, on the board or on a Thingy over Bluetooth,   *)
(* becomes an event block taken from a memory pool and put on evt_fifo;    *)
(* the main thread turns it into a "lock" keyboard report and queues       *)
(* itself a HID_KBD_CLEAR event that releases the keys again.              *)
(*                                                                         *)
(* Three contexts run concurrently: the GPIO interrupt (btn0), which no    *)
(* thread can interrupt and is therefore one action, the system workqueue  *)
(* thread "ble" that runs ble_event_handler, and the thread "main".  The   *)
(* two threads interleave at every access to shared state; nothing here    *)
(* relies on their priorities.                                             *)
(***************************************************************************)
EXTENDS Integers, Sequences, FiniteSets, Functions

CONSTANTS
  Blocks,         \* the blocks of event_elem_pool (FIFO_ELEM_COUNT of them)
  NoBlock,        \* a null struct app_evt_t pointer
  BtnVals,        \* first byte of a Thingy notification
  MaxBleEvents,   \* bound on events submitted and not yet handled
  WriteMayFail    \* may hid_int_ep_write return an error?

ASSUME NoBlockAssumption == NoBlock \notin Blocks
ASSUME BtnValsAssumption == BtnVals \subseteq 0 .. 255
ASSUME BoundsAssumption == MaxBleEvents \in Nat /\ WriteMayFail \in BOOLEAN

VARIABLES
  free,        \* blocks the pool can still hand out
  evt_fifo,    \* the queue of event blocks
  event_type,  \* the event_type field of each block
  evt_sem,     \* binary semaphore: "there may be events"
  usb_sem,     \* binary semaphore: "the IN endpoint is idle"
  pc,          \* where each thread is
  ev,          \* the event main is handling
  new,         \* the block a thread has in hand while producing or flushing
  bleq,        \* event manager queue: submitted button values
  gpio_cb,     \* is btn0 installed?
  usb,         \* the report in flight to the host
  keys,        \* the keys as the host sees them
  fault        \* a null pointer was dereferenced

vars == <<free, evt_fifo, event_type, evt_sem, usb_sem, pc, ev, new,
          bleq, gpio_cb, usb, keys, fault>>

queues  == <<free, evt_fifo, event_type, new>>
devices == <<usb_sem, usb, keys>>

Threads == {"main", "ble"}
EvtT    == {"GPIO_BUTTON_0", "BLE_BTN", "HID_KBD_CLEAR"}

\* Inside app_evt_alloc after the first k_mem_pool_alloc has failed.
AllocFailed == {"flush", "flush_free", "retry", "null"}
\* Producing an event: from the call of app_evt_alloc to k_sem_give.
Producing == {"alloc", "put", "give"} \cup AllocFailed

Locations == Producing \cup {"idle", "boot", "callbacks", "usb", "exited",
                             "wait", "get", "take", "write", "free"}

Queued == Range(evt_fifo)
Held   == {ev, new["main"], new["ble"]} \ {NoBlock}

Init ==
  /\ free = Blocks /\ evt_fifo = <<>>
  /\ event_type = [b \in Blocks |-> "GPIO_BUTTON_0"]
  /\ evt_sem = 0 /\ usb_sem = 1
  /\ pc = [t \in Threads |-> IF t = "main" THEN "boot" ELSE "idle"]
  /\ ev = NoBlock /\ new = [t \in Threads |-> NoBlock]
  /\ bleq = <<>> /\ gpio_cb = FALSE
  /\ usb = "none" /\ keys = "up" /\ fault = FALSE

Goto(t, l) == pc' = [pc EXCEPT ![t] = l]

-----------------------------------------------------------------------------
(* Producing an event from thread context: app_evt_alloc, app_evt_put and   *)
(* k_sem_give, as called by clear_kbd_report and ble_event_handler.          *)

\* Mutant: the queue is flushed while there are still blocks to be had.
MutEarlyFlush(t) ==
  /\ pc[t] = "alloc"
  /\ \/ /\ Cardinality(free) < 3
        /\ Goto(t, "flush")
        /\ UNCHANGED <<free, new>>
     \/ \E b \in free : /\ free' = free \ {b}
                        /\ new' = [new EXCEPT ![t] = b]
                        /\ Goto(t, "put")
  /\ UNCHANGED <<evt_fifo, event_type, evt_sem, ev, bleq, gpio_cb, devices, fault>>

\* The first k_mem_pool_alloc.
Alloc(t) ==
  /\ pc[t] = "alloc"
  /\ \/ /\ free = {}
        /\ Goto(t, "flush")
        /\ UNCHANGED <<free, new>>
     \/ \E b \in free : /\ free' = free \ {b}
                        /\ new' = [new EXCEPT ![t] = b]
                        /\ Goto(t, "put")
  /\ UNCHANGED <<evt_fifo, event_type, evt_sem, ev, bleq, gpio_cb, devices, fault>>

\* app_evt_flush: take the next event; stop when there is none.
FlushGet(t) ==
  /\ pc[t] = "flush"
  /\ \/ /\ evt_fifo = <<>>
        /\ Goto(t, "retry")
        /\ UNCHANGED <<evt_fifo, new>>
     \/ /\ evt_fifo # <<>>
        /\ new' = [new EXCEPT ![t] = Head(evt_fifo)]
        /\ evt_fifo' = Tail(evt_fifo)
        /\ Goto(t, "flush_free")
  /\ UNCHANGED <<free, event_type, evt_sem, ev, bleq, gpio_cb, devices, fault>>

FlushFree(t) ==
  /\ pc[t] = "flush_free"
  /\ free' = free \cup {new[t]}
  /\ new' = [new EXCEPT ![t] = NoBlock]
  /\ Goto(t, "flush")
  /\ UNCHANGED <<evt_fifo, event_type, evt_sem, ev, bleq, gpio_cb, devices, fault>>

\* The second k_mem_pool_alloc.  NULL is returned whether it fails or not, so
\* a block it did get is lost (__ASSERT_NO_MSG is empty in this build).
Retry(t) ==
  /\ pc[t] = "retry"
  /\ \/ free = {} /\ UNCHANGED free
     \/ \E b \in free : free' = free \ {b}
  /\ Goto(t, "null")
  /\ UNCHANGED <<evt_fifo, event_type, evt_sem, ev, new, bleq, gpio_cb, devices, fault>>

\* The caller writes through the null pointer: a CPU fault.
NullDeref(t) ==
  /\ pc[t] = "null"
  /\ fault' = TRUE
  /\ UNCHANGED <<queues, evt_sem, pc, ev, bleq, gpio_cb, devices>>

\* Fill in the event type (main produces clears, ble lock requests) and put.
Put(t) ==
  /\ pc[t] = "put"
  /\ event_type' = [event_type EXCEPT ![new[t]] =
                      IF t = "main" THEN "HID_KBD_CLEAR" ELSE "BLE_BTN"]
  /\ evt_fifo' = Append(evt_fifo, new[t])
  /\ new' = [new EXCEPT ![t] = NoBlock]
  /\ Goto(t, "give")
  /\ UNCHANGED <<free, evt_sem, ev, bleq, gpio_cb, devices, fault>>

\* Mutant: evt_sem declared without its limit of 1.
MutCountingGive(t) ==
  /\ pc[t] = "give"
  /\ evt_sem' = evt_sem + 1
  /\ Goto(t, IF t = "main" THEN "free" ELSE "idle")
  /\ UNCHANGED <<queues, ev, bleq, gpio_cb, devices, fault>>

Give(t) ==
  /\ pc[t] = "give"
  /\ evt_sem' = 1
  /\ Goto(t, IF t = "main" THEN "free" ELSE "idle")
  /\ UNCHANGED <<queues, ev, bleq, gpio_cb, devices, fault>>

Produce(t) == \/ Alloc(t) \/ FlushGet(t) \/ FlushFree(t) \/ Retry(t)
              \/ NullDeref(t) \/ Put(t) \/ Give(t)

-----------------------------------------------------------------------------
(* The GPIO interrupt. *)

\* btn0 with a block left: alloc, put and give.
Btn0 ==
  /\ gpio_cb
  /\ \E b \in free :
       /\ free' = free \ {b}
       /\ event_type' = [event_type EXCEPT ![b] = "GPIO_BUTTON_0"]
       /\ evt_fifo' = Append(evt_fifo, b)
  /\ evt_sem' = 1
  /\ UNCHANGED <<pc, ev, new, bleq, gpio_cb, devices, fault>>

\* btn0 with the pool empty: the flush frees every queued event, the retry
\* takes one of them if there was any, and the null pointer is written to.
Btn0Exhausted ==
  /\ gpio_cb /\ free = {}
  /\ evt_fifo' = <<>>
  /\ \/ Queued = {} /\ free' = {}
     \/ \E b \in Queued : free' = Queued \ {b}
  /\ fault' = TRUE
  /\ UNCHANGED <<event_type, evt_sem, pc, ev, new, bleq, gpio_cb, devices>>

-----------------------------------------------------------------------------
(* Bluetooth: the notification callback and the event listener. *)

\* on_received: a notification with no data submits nothing.
OnReceived(length, v) ==
  /\ length > 0
  /\ Len(bleq) < MaxBleEvents
  /\ bleq' = Append(bleq, v)
  /\ UNCHANGED <<queues, evt_sem, pc, ev, gpio_cb, devices, fault>>

\* int8_t v1 = event->btn_val
Int8(v) == IF v < 128 THEN v ELSE v - 256

\* Mutant: the lock is asked for when the button is released.
MutLockOnRelease ==
  /\ pc["ble"] = "idle" /\ bleq # <<>>
  /\ bleq' = Tail(bleq)
  /\ IF Head(bleq) = 0 THEN Goto("ble", "alloc") ELSE UNCHANGED pc
  /\ UNCHANGED <<queues, evt_sem, ev, gpio_cb, devices, fault>>

\* ble_event_handler: only a positive value asks for a lock.
BleEvent ==
  /\ pc["ble"] = "idle" /\ bleq # <<>>
  /\ bleq' = Tail(bleq)
  /\ IF Int8(Head(bleq)) > 0 THEN Goto("ble", "alloc") ELSE UNCHANGED pc
  /\ UNCHANGED <<queues, evt_sem, ev, gpio_cb, devices, fault>>

-----------------------------------------------------------------------------
(* The main thread. *)

Exited == pc["main"] = "exited"

\* device_get_binding("HID_0")
BootHid ==
  /\ pc["main"] = "boot"
  /\ \E found \in BOOLEAN : Goto("main", IF found THEN "callbacks" ELSE "exited")
  /\ UNCHANGED <<queues, evt_sem, ev, bleq, gpio_cb, devices, fault>>

\* callbacks_configure: from here on btn0 may run.
BootCallbacks ==
  /\ pc["main"] = "callbacks"
  /\ \E port \in BOOLEAN :
       /\ gpio_cb' = port
       /\ Goto("main", IF port THEN "usb" ELSE "exited")
  /\ UNCHANGED <<queues, evt_sem, ev, bleq, devices, fault>>

\* usb_enable; a failure ends main with the button interrupt still armed.
BootUsb ==
  /\ pc["main"] = "usb"
  /\ \E ok \in BOOLEAN : Goto("main", IF ok THEN "wait" ELSE "exited")
  /\ UNCHANGED <<queues, evt_sem, ev, bleq, gpio_cb, devices, fault>>

\* k_sem_take(&evt_sem, K_FOREVER)
MainWait ==
  /\ pc["main"] = "wait" /\ evt_sem = 1
  /\ evt_sem' = 0
  /\ Goto("main", "get")
  /\ UNCHANGED <<queues, ev, bleq, gpio_cb, devices, fault>>

\* while ((ev = app_evt_get()) != NULL)
MainGet ==
  /\ pc["main"] = "get"
  /\ \/ /\ evt_fifo = <<>>
        /\ Goto("main", "wait")
        /\ UNCHANGED <<evt_fifo, ev>>
     \/ /\ evt_fifo # <<>>
        /\ ev' = Head(evt_fifo)
        /\ evt_fifo' = Tail(evt_fifo)
        /\ Goto("main", "take")
  /\ UNCHANGED <<free, event_type, evt_sem, new, bleq, gpio_cb, devices, fault>>

\* Mutant: the report is written without waiting for the endpoint.
MutNoUsbWait ==
  /\ pc["main"] = "take"
  /\ Goto("main", "write")
  /\ UNCHANGED <<queues, evt_sem, usb_sem, ev, bleq, gpio_cb, usb, keys, fault>>

\* k_sem_take(&usb_sem, K_FOREVER)
MainTakeUsb ==
  /\ pc["main"] = "take" /\ usb_sem = 1
  /\ usb_sem' = 0
  /\ Goto("main", "write")
  /\ UNCHANGED <<queues, evt_sem, ev, bleq, gpio_cb, usb, keys, fault>>

IsClear(b) == event_type[b] = "HID_KBD_CLEAR"

\* Mutant: clear_kbd_report is not called.
MutNoClear ==
  /\ pc["main"] = "write"
  /\ usb' = IF IsClear(ev) THEN "clear" ELSE "lock"
  /\ Goto("main", "free")
  /\ UNCHANGED <<queues, evt_sem, usb_sem, ev, bleq, gpio_cb, keys, fault>>

\* hid_int_ep_write, its result ignored; a lock report is followed by
\* clear_kbd_report whether or not it was written.
MainWrite ==
  /\ pc["main"] = "write"
  /\ \/ usb' = IF IsClear(ev) THEN "clear" ELSE "lock"
     \/ WriteMayFail /\ UNCHANGED usb
  /\ Goto("main", IF IsClear(ev) THEN "free" ELSE "alloc")
  /\ UNCHANGED <<queues, evt_sem, usb_sem, ev, bleq, gpio_cb, keys, fault>>

\* Mutant: one event per wake-up (if in place of while).
MutOnePerWakeup ==
  /\ pc["main"] = "free"
  /\ free' = free \cup {ev}
  /\ ev' = NoBlock
  /\ Goto("main", "wait")
  /\ UNCHANGED <<evt_fifo, event_type, new, evt_sem, bleq, gpio_cb, devices, fault>>

\* Mutant: app_evt_free is forgotten.
MutNoFree ==
  /\ pc["main"] = "free"
  /\ ev' = NoBlock
  /\ Goto("main", "get")
  /\ UNCHANGED <<queues, evt_sem, bleq, gpio_cb, devices, fault>>

\* app_evt_free(ev)
MainFree ==
  /\ pc["main"] = "free"
  /\ free' = free \cup {ev}
  /\ ev' = NoBlock
  /\ Goto("main", "get")
  /\ UNCHANGED <<evt_fifo, event_type, new, evt_sem, bleq, gpio_cb, devices, fault>>

Main == \/ BootHid \/ BootCallbacks \/ BootUsb \/ MainWait \/ MainGet
        \/ MainTakeUsb \/ MainWrite \/ MainFree

-----------------------------------------------------------------------------
(* The host and the chip. *)

\* Mutant: in_ready_cb does not give the semaphore back.
MutInReadyNoGive ==
  /\ usb # "none"
  /\ keys' = IF usb = "lock" THEN "down" ELSE "up"
  /\ usb' = "none"
  /\ UNCHANGED <<queues, evt_sem, usb_sem, pc, ev, bleq, gpio_cb, fault>>

\* The host polls the IN endpoint; the stack then calls in_ready_cb.
InReadyCb ==
  /\ usb # "none"
  /\ keys' = IF usb = "lock" THEN "down" ELSE "up"
  /\ usb' = "none"
  /\ usb_sem' = 1
  /\ UNCHANGED <<queues, evt_sem, pc, ev, bleq, gpio_cb, fault>>

\* The fatal error handler reboots; the host drops the device, and its keys.
Reset ==
  /\ fault
  /\ free' = Blocks /\ evt_fifo' = <<>>
  /\ event_type' = [b \in Blocks |-> "GPIO_BUTTON_0"]
  /\ evt_sem' = 0 /\ usb_sem' = 1
  /\ pc' = [t \in Threads |-> IF t = "main" THEN "boot" ELSE "idle"]
  /\ ev' = NoBlock /\ new' = [t \in Threads |-> NoBlock]
  /\ bleq' = <<>> /\ gpio_cb' = FALSE
  /\ usb' = "none" /\ keys' = "up" /\ fault' = FALSE

Running ==
  \/ \E t \in Threads : Produce(t)
  \/ Btn0 \/ Btn0Exhausted
  \/ \E length \in 0 .. 1, v \in BtnVals : OnReceived(length, v)
  \/ BleEvent
  \/ Main
  \/ InReadyCb

Next == (~fault /\ Running) \/ Reset

Spec == Init /\ [][Next]_vars

\* No thread is starved, the host keeps polling, a faulted chip resets.
Fairness ==
  /\ WF_vars(~fault /\ (Main \/ Produce("main")))
  /\ WF_vars(~fault /\ (BleEvent \/ Produce("ble")))
  /\ WF_vars(~fault /\ InReadyCb)
  /\ WF_vars(Reset)

FairSpec == Spec /\ Fairness

-----------------------------------------------------------------------------
(* Properties. *)

\* Every variable has its type, and a thread has a block in hand exactly at
\* the steps of main.c that use one.
TypeOK ==
  /\ free \subseteq Blocks
  /\ evt_fifo \in Seq(Blocks)
  /\ event_type \in [Blocks -> EvtT]
  /\ evt_sem \in 0 .. 1 /\ usb_sem \in 0 .. 1
  /\ pc \in [Threads -> Locations]
  /\ pc["ble"] \in Producing \cup {"idle"} /\ pc["main"] # "idle"
  /\ ev \in Blocks \cup {NoBlock}
  /\ ev # NoBlock <=> pc["main"] \in Producing \cup {"take", "write", "free"}
  /\ new \in [Threads -> Blocks \cup {NoBlock}]
  /\ \A t \in Threads : new[t] # NoBlock <=> pc[t] \in {"put", "flush_free"}
  /\ bleq \in Seq(BtnVals) /\ Len(bleq) <= MaxBleEvents
  /\ gpio_cb \in BOOLEAN /\ fault \in BOOLEAN
  /\ usb \in {"none", "lock", "clear"} /\ keys \in {"up", "down"}

\* A thread has lost a block to the NULL return of app_evt_alloc's retry.
Doomed == fault \/ \E t \in Threads : pc[t] = "null"

\* Each pool block is in one place at a time: free, queued once, or in the
\* hands of one context; so no event is freed twice, or overwritten while it
\* waits.  And no block is lost before an allocation has failed for good.
BlockOwnership ==
  /\ IsInjective(evt_fifo)
  /\ free \cap Queued = {} /\ free \cap Held = {} /\ Queued \cap Held = {}
  /\ ev # NoBlock => \A t \in Threads : new[t] # ev
  /\ new["main"] = new["ble"] => new["main"] = NoBlock
  /\ ~Doomed => Blocks = free \cup Queued \cup Held

\* Main never sleeps on evt_sem over a queued event that nobody is about to
\* announce, although the binary semaphore merges wake-ups and is taken once
\* for a whole burst.
NoLostWakeup ==
  (pc["main"] = "wait" /\ evt_fifo # <<>> /\ ~fault)
    => (evt_sem = 1 \/ pc["ble"] = "give")

\* usb_sem counts the idle endpoint: at any time the token is in the
\* semaphore, or with main about to write, or with the one report in flight;
\* a write that failed has lost it for good.
UsbToken ==
  LET tokens == usb_sem + (IF pc["main"] = "write" THEN 1 ELSE 0)
                        + (IF usb # "none" THEN 1 ELSE 0)
  IN  tokens <= 1 /\ (~WriteMayFail => tokens = 1)

\* The last report that reached, or is reaching, the host is a lock report.
LockShown == usb = "lock" \/ (usb = "none" /\ keys = "down")
\* hid_int_ep_write failed: no callback will give usb_sem again.
Jammed == usb_sem = 0 /\ usb = "none" /\ pc["main"] # "write"
\* main has a clear in hand: being produced, or fetched and not yet written.
ClearInHand ==
  \/ pc["main"] \in {"alloc", "put"}
  \/ pc["main"] \in {"take", "write"} /\ IsClear(ev)

\* The lock keys are never left pressed with no release on its way: a clear
\* is in main's hands or queued, whatever presses were queued in between.
\* Excused are an endpoint lost to a failed write and a failed allocation.
ReleasePending ==
  LockShown => \/ ClearInHand
               \/ \E b \in Queued : IsClear(b)
               \/ Jammed \/ fault
               \/ \E t \in Threads : pc[t] \in AllocFailed

\* Keys that went down come up again, presses arriving all the while, unless
\* the presses exhaust the pool (run without endpoint errors).  The excuse is
\* needed: presses faster than app_evt_flush keep its loop going for ever.
KeysReleased ==
  keys = "down" ~> (keys = "up" \/ \E t \in Threads : pc[t] \in AllocFailed)

\* With main in its loop, every queued event is taken off the queue again.
EventServed ==
  \A b \in Blocks :
    (b \in Queued /\ pc["main"] \notin {"boot", "callbacks", "usb", "exited"})
      ~> (b \notin Queued)

-----------------------------------------------------------------------------
(* The abstract specification, and the state of HidLocker seen as its.       *)

One(cond) == IF cond THEN 1 ELSE 0

KeyLockPresses ==
  Cardinality({b \in Queued : ~IsClear(b)})
    + One(pc["main"] \in {"take", "write"} /\ ~IsClear(ev))
    + One(pc["ble"] \in {"alloc", "put"} \cup AllocFailed)

KeyLockOwed ==
  Cardinality({b \in Queued : IsClear(b)})
    + One(ClearInHand \/ pc["main"] \in AllocFailed)

KeyLockKeys ==
  IF usb = "none" THEN keys ELSE IF usb = "lock" THEN "down" ELSE "up"

KL == INSTANCE KeyLock WITH
        Capacity <- Cardinality(Blocks),
        presses  <- KeyLockPresses,
        owed     <- KeyLockOwed,
        keys     <- KeyLockKeys,
        overload <- (fault \/ \E t \in Threads : pc[t] \in AllocFailed)

\* The pipeline implements what the user is promised: whatever the interrupt,
\* the listener and main do to each other, a press is turned into one lock
\* report, each lock report into one release, none of them twice, and nothing
\* is dropped before all the blocks of the pool are in use.
ImplementsKeyLock == KL!Spec

\* app_evt_alloc gives up only on "memory corrupted" (main.c:109-113), that
\* is when the allocation after the flush fails too.
NullOnlyWhenCorrupted ==
  [][\A t \in Threads : (pc[t] = "retry" /\ pc'[t] = "null") => free = {}]_vars
=============================================================================
