---------------------------- MODULE KeyLockProofs ----------------------------
(***************************************************************************)
(* HidLocker implements KeyLock, for every finite pool: a press becomes    *)
(* one lock and a lock one release, and nothing is dropped before the pool *)
(* is used up.  The proof counts the blocks of the queue by what they ask  *)
(* for.                                                                    *)
(***************************************************************************)
EXTENDS HidLockerProofs, FiniteSetTheorems

LocksQueued  == Cardinality({b \in Queued : ~IsClear(b)})
ClearsQueued == Cardinality({b \in Queued : IsClear(b)})

\* What a thread has in hand of presses and releases.
MainPress  == pc["main"] \in {"take", "write"} /\ ~IsClear(ev)
BlePress   == pc["ble"] \in {"alloc", "put"} \cup AllocFailed
MainClear  == ClearInHand \/ pc["main"] \in AllocFailed
Overloaded == fault \/ \E t \in Threads : pc[t] \in AllocFailed

-----------------------------------------------------------------------------
(* Counting the queue. *)

\* The counts are numbers, and together they are the length of the queue.
LEMMA QueueCounts ==
  ASSUME IsFiniteSet(Blocks), Queued \subseteq Blocks
  PROVE  /\ IsFiniteSet(Queued) /\ LocksQueued \in Nat /\ ClearsQueued \in Nat
         /\ LocksQueued + ClearsQueued = Cardinality(Queued)
<1> DEFINE L == {b \in Queued : ~IsClear(b)}
           C == {b \in Queued : IsClear(b)}
<1>1. IsFiniteSet(Queued)
  BY FS_Subset
<1>2. L \in SUBSET Queued /\ C \in SUBSET Queued /\ L \cup C = Queued /\ L \cap C = {}
  OBVIOUS
<1>3. LocksQueued = Cardinality(L) /\ ClearsQueued = Cardinality(C)
  BY DEF LocksQueued, ClearsQueued
<1> HIDE DEF L, C
<1>4. IsFiniteSet(L) /\ IsFiniteSet(C)
  BY <1>1, <1>2, FS_Subset
<1>5. Cardinality(L) \in Nat /\ Cardinality(C) \in Nat
  BY <1>4, FS_CardinalityType
<1>6. Cardinality(L \cup C) = Cardinality(L) + Cardinality(C) - Cardinality(L \cap C)
  BY <1>4, FS_Union
<1>7. Cardinality(L \cap C) = 0
  BY <1>2, FS_EmptySet
<1>8. Cardinality(Queued) = Cardinality(L) + Cardinality(C) - 0
  BY <1>2, <1>6, <1>7, Zenon
<1> QED
  BY <1>1, <1>3, <1>5, <1>8

\* A step that leaves the queue and what its blocks ask for leaves the counts.
LEMMA SameCounts ==
  ASSUME Queued' = Queued, \A x \in Queued : event_type'[x] = event_type[x]
  PROVE  LocksQueued' = LocksQueued /\ ClearsQueued' = ClearsQueued
<1>1. {b \in Queued : ~IsClear(b)}' = {b \in Queued : ~IsClear(b)}
  BY DEF IsClear
<1>2. {b \in Queued : IsClear(b)}' = {b \in Queued : IsClear(b)}
  BY DEF IsClear
<1> QED
  BY <1>1, <1>2 DEF LocksQueued, ClearsQueued

\* A block that is put on the queue is counted once.
LEMMA OneMore ==
  ASSUME IsFiniteSet(Blocks), Queued \subseteq Blocks, NEW b, b \notin Queued,
         Queued' = Queued \cup {b}, \A x \in Queued : event_type'[x] = event_type[x]
  PROVE  /\ event_type'[b] = "HID_KBD_CLEAR" =>
              LocksQueued' = LocksQueued /\ ClearsQueued' = ClearsQueued + 1
         /\ event_type'[b] # "HID_KBD_CLEAR" =>
              LocksQueued' = LocksQueued + 1 /\ ClearsQueued' = ClearsQueued
<1> DEFINE L == {x \in Queued : ~IsClear(x)}
           C == {x \in Queued : IsClear(x)}
<1>0. IsFiniteSet(Queued)
  BY FS_Subset
<1>1. L \in SUBSET Queued /\ C \in SUBSET Queued /\ b \notin L /\ b \notin C
  OBVIOUS
<1>2. IsFiniteSet(L) /\ IsFiniteSet(C)
  BY <1>0, <1>1, FS_Subset
<1>3. ASSUME event_type'[b] = "HID_KBD_CLEAR"
      PROVE  L' = L /\ C' = C \cup {b}
  BY <1>3 DEF IsClear
<1>4. ASSUME event_type'[b] # "HID_KBD_CLEAR"
      PROVE  L' = L \cup {b} /\ C' = C
  BY <1>4 DEF IsClear
<1>5. LocksQueued = Cardinality(L) /\ ClearsQueued = Cardinality(C)
  BY DEF LocksQueued, ClearsQueued
<1>6. LocksQueued' = Cardinality(L') /\ ClearsQueued' = Cardinality(C')
  BY DEF LocksQueued, ClearsQueued
<1> HIDE DEF L, C
<1>7. Cardinality(L \cup {b}) = Cardinality(L) + 1 /\ Cardinality(C \cup {b}) = Cardinality(C) + 1
  BY <1>1, <1>2, FS_AddElement
<1> QED
  BY <1>3, <1>4, <1>5, <1>6, <1>7

\* A block that is taken off the queue was counted once.
LEMMA OneLess ==
  ASSUME IsFiniteSet(Blocks), Queued \subseteq Blocks, NEW b, b \in Queued,
         Queued' = Queued \ {b}, event_type' = event_type
  PROVE  /\ IsClear(b) => LocksQueued' = LocksQueued /\ ClearsQueued' = ClearsQueued - 1
         /\ ~IsClear(b) => LocksQueued' = LocksQueued - 1 /\ ClearsQueued' = ClearsQueued
         /\ LocksQueued' \in Nat /\ ClearsQueued' \in Nat
<1> DEFINE L == {x \in Queued : ~IsClear(x)}
           C == {x \in Queued : IsClear(x)}
<1>0. IsFiniteSet(Queued)
  BY FS_Subset
<1>1. L \in SUBSET Queued /\ C \in SUBSET Queued
  OBVIOUS
<1>2. IsFiniteSet(L) /\ IsFiniteSet(C)
  BY <1>0, <1>1, FS_Subset
<1>3. ASSUME IsClear(b)
      PROVE  b \in C /\ L' = L /\ C' = C \ {b}
  BY <1>3 DEF IsClear
<1>4. ASSUME ~IsClear(b)
      PROVE  b \in L /\ L' = L \ {b} /\ C' = C
  BY <1>4 DEF IsClear
<1>5. LocksQueued = Cardinality(L) /\ ClearsQueued = Cardinality(C)
  BY DEF LocksQueued, ClearsQueued
<1>6. LocksQueued' = Cardinality(L') /\ ClearsQueued' = Cardinality(C')
  BY DEF LocksQueued, ClearsQueued
<1> HIDE DEF L, C
<1>7. /\ b \in L => Cardinality(L \ {b}) = Cardinality(L) - 1
      /\ b \in C => Cardinality(C \ {b}) = Cardinality(C) - 1
  BY <1>2, FS_RemoveElement
<1>8. /\ Cardinality(L \ {b}) \in Nat /\ Cardinality(C \ {b}) \in Nat
      /\ Cardinality(L) \in Nat /\ Cardinality(C) \in Nat
  BY <1>2, FS_RemoveElement, FS_CardinalityType
<1>9. CASE IsClear(b)
  BY <1>3, <1>5, <1>6, <1>7, <1>8, <1>9
<1>10. CASE ~IsClear(b)
  BY <1>4, <1>5, <1>6, <1>7, <1>8, <1>10
<1> QED
  BY <1>9, <1>10

\* A queue that has been flushed counts for nothing.
LEMMA Flushed ==
  ASSUME Queued' = {}
  PROVE  LocksQueued' = 0 /\ ClearsQueued' = 0
<1>1. {x \in Queued : ~IsClear(x)}' = {} /\ {x \in Queued : IsClear(x)}' = {}
  OBVIOUS
<1> QED
  BY <1>1, FS_EmptySet DEF LocksQueued, ClearsQueued

-----------------------------------------------------------------------------
(* The abstract variables. *)

\* Of how many parts presses and owed consist.
LEMMA Parts ==
  /\ KeyLockPresses = LocksQueued + One(MainPress) + One(BlePress)
  /\ KeyLockOwed = ClearsQueued + One(MainClear)
BY DEF KeyLockPresses, KeyLockOwed, LocksQueued, ClearsQueued, MainPress, BlePress, MainClear

\* ... and after a step.
LEMMA PartsAfter ==
  /\ KeyLockPresses' = LocksQueued' + One(MainPress') + One(BlePress')
  /\ KeyLockOwed' = ClearsQueued' + One(MainClear')
BY DEF KeyLockPresses, KeyLockOwed, LocksQueued, ClearsQueued, MainPress, BlePress, MainClear,
       One

\* Holding a block or not, a thread adds one to the blocks at the most.
LEMMA OneAtMost ==
  ASSUME NEW S, IsFiniteSet(S), NEW x, NEW c \in BOOLEAN,
         NEW T, T = IF c THEN S \cup {x} ELSE S
  PROVE  /\ IsFiniteSet(T) /\ Cardinality(T) \in Nat /\ Cardinality(S) \in Nat
         /\ Cardinality(T) <= Cardinality(S) + One(c)
<1>1. Cardinality(S) \in Nat
  BY FS_CardinalityType
<1>2. CASE ~c
  BY <1>1, <1>2 DEF One
<1>3. CASE c
  <2>1. IsFiniteSet(T) /\ Cardinality(T) = IF x \in S THEN Cardinality(S) ELSE Cardinality(S) + 1
    BY <1>3, FS_AddElement
  <2> QED
    BY <1>1, <1>3, <2>1 DEF One
<1> QED
  BY <1>2, <1>3

\* A pool with no block left has as many presses and releases outstanding as
\* blocks, but for the one that main holds while its release is on the queue.
LEMMA PoolUsedUp ==
  ASSUME IsFiniteSet(Blocks), TypeOK, BlockOwnership, free = {}, ~Overloaded
  PROVE  /\ KeyLockPresses \in Nat /\ KeyLockOwed \in Nat
         /\ KeyLockPresses + KeyLockOwed >= Cardinality(Blocks) - 1
<1>1. /\ pc["main"] \notin AllocFailed /\ pc["ble"] \notin AllocFailed
      /\ Blocks = Queued \cup Held
  BY Zenon DEF Overloaded, BlockOwnership, Doomed, Threads, AllocFailed
<1>2. /\ new["main"] # NoBlock => pc["main"] = "put"
      /\ new["ble"] # NoBlock => pc["ble"] = "put"
      /\ ev # NoBlock => pc["main"] \in Producing \cup {"take", "write", "free"}
  BY <1>1 DEF TypeOK, Threads, AllocFailed
<1> DEFINE S1 == IF ev # NoBlock THEN Queued \cup {ev} ELSE Queued
           S2 == IF new["main"] # NoBlock THEN S1 \cup {new["main"]} ELSE S1
           S3 == IF new["ble"] # NoBlock THEN S2 \cup {new["ble"]} ELSE S2
<1>3. Blocks = S3
  BY <1>1 DEF Held
<1>4. /\ IsFiniteSet(Queued) /\ LocksQueued \in Nat /\ ClearsQueued \in Nat
      /\ LocksQueued + ClearsQueued = Cardinality(Queued)
  BY <1>1, QueueCounts
<1>5. /\ IsFiniteSet(S1) /\ Cardinality(S1) \in Nat
      /\ Cardinality(S1) <= Cardinality(Queued) + One(ev # NoBlock)
  BY <1>4, OneAtMost
<1> HIDE DEF S1
<1>6. /\ IsFiniteSet(S2) /\ Cardinality(S2) \in Nat
      /\ Cardinality(S2) <= Cardinality(S1) + One(new["main"] # NoBlock)
  BY <1>5, OneAtMost
<1> HIDE DEF S2
<1>7. /\ Cardinality(S3) \in Nat
      /\ Cardinality(S3) <= Cardinality(S2) + One(new["ble"] # NoBlock)
  BY <1>6, OneAtMost
<1> HIDE DEF S3
<1>8. Cardinality(S1) \in Nat /\ Cardinality(S2) \in Nat /\ Cardinality(Blocks) \in Nat
  BY <1>3, <1>5, <1>6, <1>7
<1>9. One(new["ble"] # NoBlock) <= One(BlePress)
  BY <1>2 DEF One, BlePress
<1>10. One(ev # NoBlock) + One(new["main"] # NoBlock) <= One(MainClear) + 1
  BY <1>2 DEF One, MainClear, ClearInHand
<1>11. /\ One(MainPress) \in 0 .. 1 /\ One(BlePress) \in 0 .. 1 /\ One(MainClear) \in 0 .. 1
       /\ One(ev # NoBlock) \in 0 .. 1 /\ One(new["main"] # NoBlock) \in 0 .. 1
       /\ One(new["ble"] # NoBlock) \in 0 .. 1
  BY DEF One
<1> DEFINE mp == One(MainPress)
           bp == One(BlePress)
           mc == One(MainClear)
           e == One(ev # NoBlock)
           nm == One(new["main"] # NoBlock)
           nb == One(new["ble"] # NoBlock)
<1>12. KeyLockPresses = LocksQueued + mp + bp /\ KeyLockOwed = ClearsQueued + mc
  BY Parts
<1> HIDE DEF mp, bp, mc, e, nm, nb
<1>13. /\ mp \in 0 .. 1 /\ bp \in 0 .. 1 /\ mc \in 0 .. 1 /\ e \in 0 .. 1 /\ nm \in 0 .. 1
       /\ nb \in 0 .. 1 /\ nb <= bp /\ e + nm <= mc + 1
       /\ Cardinality(S1) <= Cardinality(Queued) + e /\ Cardinality(S2) <= Cardinality(S1) + nm
       /\ Cardinality(Blocks) <= Cardinality(S2) + nb
  BY <1>3, <1>5, <1>6, <1>7, <1>9, <1>10, <1>11 DEF mp, bp, mc, e, nm, nb
<1> QED
  BY <1>4, <1>8, <1>12, <1>13

-----------------------------------------------------------------------------
(* The steps. *)

\* A step that leaves what is counted alone is a stutter.
LEMMA CountsStay ==
  ASSUME LocksQueued' = LocksQueued, ClearsQueued' = ClearsQueued,
         MainPress' <=> MainPress, BlePress' <=> BlePress, MainClear' <=> MainClear,
         Overloaded' <=> Overloaded, KeyLockKeys' = KeyLockKeys
  PROVE  UNCHANGED KL!vars
<1>1. KeyLockPresses' = KeyLockPresses /\ KeyLockOwed' = KeyLockOwed
  BY Parts, PartsAfter DEF One
<1> QED
  BY <1>1 DEF KL!vars, Overloaded

\* The context of a step: what the invariants say of the state it is taken in.
LEMMA StepContext ==
  ASSUME IsFiniteSet(Blocks), TypeOK, BlockOwnership
  PROVE  /\ Queued \subseteq Blocks /\ LocksQueued \in Nat /\ ClearsQueued \in Nat
         /\ pc \in [Threads -> Locations] /\ event_type \in [Blocks -> EvtT]
         /\ pc["main"] \in Locations /\ pc["ble"] \in Producing \cup {"idle"}
         /\ KeyLockPresses \in Nat /\ KeyLockOwed \in Nat
         /\ Overloaded <=>
              (fault \/ pc["main"] \in AllocFailed \/ pc["ble"] \in AllocFailed)
<1>1. evt_fifo \in Seq(Blocks) /\ pc \in [Threads -> Locations]
      /\ event_type \in [Blocks -> EvtT] /\ pc["ble"] \in Producing \cup {"idle"}
  BY Zenon DEF TypeOK
<1>2. Queued \subseteq Blocks
  BY <1>1, RangeType, Zenon DEF Queued
<1>3. LocksQueued \in Nat /\ ClearsQueued \in Nat
  BY <1>2, QueueCounts
<1>4. KeyLockPresses \in Nat /\ KeyLockOwed \in Nat
  BY <1>3, Parts DEF One
<1> QED
  BY <1>1, <1>2, <1>3, <1>4 DEF Overloaded, Threads

\* A step of main or the listener that produces an event: the first allocation
\* that fails is the overload, and a block that is put was already counted.
LEMMA ProduceStep ==
  ASSUME IsFiniteSet(Blocks), TypeOK, BlockOwnership, NEW t \in Threads, Produce(t)
  PROVE  [KL!Next]_(KL!vars)
<1>0. /\ Queued \subseteq Blocks /\ LocksQueued \in Nat /\ ClearsQueued \in Nat
      /\ pc \in [Threads -> Locations] /\ event_type \in [Blocks -> EvtT]
      /\ pc["main"] \in Locations /\ pc["ble"] \in Producing \cup {"idle"}
      /\ KeyLockPresses \in Nat /\ KeyLockOwed \in Nat
      /\ Overloaded <=>
              (fault \/ pc["main"] \in AllocFailed \/ pc["ble"] \in AllocFailed)
  BY StepContext
<1>1. Overloaded' <=> (fault' \/ pc'["main"] \in AllocFailed \/ pc'["ble"] \in AllocFailed)
  BY DEF Overloaded, Threads
<1>2. CASE pc[t] = "alloc" /\ free = {} /\ Goto(t, "flush") /\ Alloc(t)
  <2>1. UNCHANGED <<evt_fifo, event_type, ev, usb, keys, fault>>
    BY <1>2 DEF Alloc, devices
  <2>2. LocksQueued' = LocksQueued /\ ClearsQueued' = ClearsQueued
    BY <2>1, SameCounts DEF Queued
  <2>3. pc' = [pc EXCEPT ![t] = "flush"]
    BY <1>2 DEF Goto
  <2>4. /\ MainPress' <=> MainPress
        /\ BlePress' <=> BlePress
        /\ MainClear' <=> MainClear
    BY <1>0, <1>2, <2>1, <2>3
       DEF MainPress, BlePress, MainClear, ClearInHand, IsClear, AllocFailed, Threads
  <2>5. KeyLockPresses' = KeyLockPresses /\ KeyLockOwed' = KeyLockOwed
    BY <2>2, <2>4, Parts, PartsAfter DEF One
  <2>6. KeyLockKeys' = KeyLockKeys
    BY <2>1 DEF KeyLockKeys
  <2>7. Overloaded'
    BY <1>0, <1>1, <2>3 DEF AllocFailed, Threads
  <2>8. Overloaded \/ KeyLockPresses + KeyLockOwed >= Cardinality(Blocks) - 1
    BY <1>2, PoolUsedUp
  <2>9. KeyLockPresses' \in 0 .. KeyLockPresses /\ KeyLockOwed' \in 0 .. KeyLockOwed
    BY <1>0, <2>5
  <2>10. KL!Drop
    BY <2>6, <2>7, <2>8, <2>9 DEF KL!Drop, Overloaded
  <2> QED
    BY <2>10 DEF KL!Next
<1>3. CASE Alloc(t) /\ Goto(t, "put")
  <2>1. /\ pc[t] = "alloc" /\ pc' = [pc EXCEPT ![t] = "put"]
        /\ UNCHANGED <<evt_fifo, event_type, ev, usb, keys, fault>>
    BY <1>3 DEF Alloc, devices, Goto
  <2>2. LocksQueued' = LocksQueued /\ ClearsQueued' = ClearsQueued
    BY <2>1, SameCounts DEF Queued
  <2>3. /\ MainPress' <=> MainPress
        /\ BlePress' <=> BlePress
        /\ MainClear' <=> MainClear
    BY <1>0, <2>1
       DEF MainPress, BlePress, MainClear, ClearInHand, IsClear, AllocFailed, Threads
  <2>4. Overloaded' <=> Overloaded
    BY <1>0, <1>1, <2>1 DEF AllocFailed, Threads
  <2>5. KeyLockKeys' = KeyLockKeys
    BY <2>1 DEF KeyLockKeys
  <2> QED
    BY <2>2, <2>3, <2>4, <2>5, CountsStay
<1>4. CASE FlushGet(t) /\ evt_fifo # <<>>
  <2>1. /\ pc[t] = "flush" /\ pc' = [pc EXCEPT ![t] = "flush_free"]
        /\ evt_fifo' = Tail(evt_fifo)
        /\ UNCHANGED <<event_type, ev, usb, keys, fault>>
    BY <1>4, Zenon DEF FlushGet, devices, Goto
  <2>2. /\ Head(evt_fifo) \in Queued /\ Queued' = Queued \ {Head(evt_fifo)}
    BY <1>4, <2>1, TailRange, Zenon DEF Queued, BlockOwnership, TypeOK
  <2>3. PICK b \in Queued : Queued' = Queued \ {b}
    BY <2>2
  <2>4. \/ LocksQueued' = LocksQueued /\ ClearsQueued' = ClearsQueued - 1
        \/ LocksQueued' = LocksQueued - 1 /\ ClearsQueued' = ClearsQueued
    BY <1>0, <2>1, <2>3, OneLess
  <2>5. LocksQueued' \in Nat /\ ClearsQueued' \in Nat
    BY <1>0, <2>1, <2>3, OneLess
  <2>6. LocksQueued' <= LocksQueued /\ ClearsQueued' <= ClearsQueued
    BY <1>0, <2>4
  <2>7. /\ MainPress' <=> MainPress
        /\ BlePress' <=> BlePress
        /\ MainClear' <=> MainClear
    BY <1>0, <2>1
       DEF MainPress, BlePress, MainClear, ClearInHand, IsClear, AllocFailed, Threads
  <2>8. KeyLockPresses' \in 0 .. KeyLockPresses /\ KeyLockOwed' \in 0 .. KeyLockOwed
    <3>1. One(MainPress') = One(MainPress) /\ One(BlePress') = One(BlePress)
          /\ One(MainClear') = One(MainClear)
      BY <2>7 DEF One
    <3>2. One(MainPress) \in 0 .. 1 /\ One(BlePress) \in 0 .. 1 /\ One(MainClear) \in 0 .. 1
      BY DEF One
    <3> QED
      BY <1>0, <2>5, <2>6, <3>1, <3>2, Parts, PartsAfter
  <2>9. Overloaded /\ Overloaded'
    BY <1>0, <1>1, <2>1 DEF AllocFailed, Threads
  <2>10. KeyLockKeys' = KeyLockKeys
    BY <2>1 DEF KeyLockKeys
  <2>11. KL!Drop
    BY <2>8, <2>9, <2>10 DEF KL!Drop, Overloaded
  <2> QED
    BY <2>11 DEF KL!Next
<1>5. CASE (FlushGet(t) /\ evt_fifo = <<>>) \/ FlushFree(t) \/ Retry(t) \/ NullDeref(t) \/ Give(t)
  <2>1. UNCHANGED <<evt_fifo, event_type, ev, usb, keys>>
    BY <1>5 DEF FlushGet, FlushFree, Retry, NullDeref, Give, devices, queues
  <2>2. \/ /\ pc[t] \in AllocFailed /\ pc'[t] \in AllocFailed
           /\ \A u \in Threads : u # t => pc'[u] = pc[u]
        \/ /\ pc[t] = "give" /\ pc' = [pc EXCEPT ![t] = IF t = "main" THEN "free" ELSE "idle"]
           /\ fault' = fault
    BY <1>0, <1>5 DEF FlushGet, FlushFree, Retry, NullDeref, Give, Goto, AllocFailed, Threads
  <2>3. LocksQueued' = LocksQueued /\ ClearsQueued' = ClearsQueued
    BY <2>1, SameCounts DEF Queued
  <2>4. /\ MainPress' <=> MainPress
        /\ BlePress' <=> BlePress
        /\ MainClear' <=> MainClear
    BY <1>0, <2>1, <2>2
       DEF MainPress, BlePress, MainClear, ClearInHand, IsClear, AllocFailed, Threads
  <2>5. Overloaded' <=> Overloaded
    BY <1>0, <1>1, <2>2 DEF AllocFailed, Threads
  <2>6. KeyLockKeys' = KeyLockKeys
    BY <2>1 DEF KeyLockKeys
  <2> QED
    BY <2>3, <2>4, <2>5, <2>6, CountsStay
<1>6. CASE Put(t)
  <2>1. /\ pc[t] = "put" /\ pc' = [pc EXCEPT ![t] = "give"]
        /\ event_type' = [event_type EXCEPT ![new[t]] =
                            IF t = "main" THEN "HID_KBD_CLEAR" ELSE "BLE_BTN"]
        /\ evt_fifo' = Append(evt_fifo, new[t])
        /\ UNCHANGED <<ev, usb, keys, fault>>
    BY <1>6 DEF Put, Goto, devices
  <2>2. /\ new[t] \in Blocks /\ new[t] \notin Queued
        /\ (pc["main"] \in {"take", "write"} => ev # new[t] /\ ev \in Blocks)
    BY <2>1, NoBlockAssumption, Zenon
       DEF TypeOK, BlockOwnership, Held, Threads
  <2>3. PICK b \in Blocks : b = new[t]
    BY <2>2
  <2>4. Queued' = Queued \cup {b}
    <3>1. IsInjective(evt_fifo) /\ evt_fifo \in Seq(Blocks) /\ b \notin Queued
      BY <2>2, <2>3, Zenon DEF BlockOwnership, TypeOK
    <3>2. evt_fifo' = Append(evt_fifo, b)
      BY <2>1, <2>3
    <3> QED
      BY <3>1, <3>2, AppendRange DEF Queued
  <2>5. /\ \A x \in Blocks \ {b} : event_type'[x] = event_type[x]
        /\ event_type'[b] = IF t = "main" THEN "HID_KBD_CLEAR" ELSE "BLE_BTN"
    BY <1>0, <2>1, <2>3
  <2>6. /\ t = "main" => LocksQueued' = LocksQueued /\ ClearsQueued' = ClearsQueued + 1
        /\ t = "ble" => LocksQueued' = LocksQueued + 1 /\ ClearsQueued' = ClearsQueued
    BY <1>0, <2>2, <2>3, <2>4, <2>5, OneMore
  <2>7. MainPress' <=> MainPress
    BY <1>0, <2>1, <2>2, <2>3, <2>5 DEF MainPress, IsClear, Threads
  <2>8. /\ t = "main" => MainClear /\ ~MainClear' /\ (BlePress' <=> BlePress)
        /\ t = "ble" => BlePress /\ ~BlePress' /\ (MainClear' <=> MainClear)
    BY <1>0, <2>1, <2>2, <2>3, <2>5
       DEF BlePress, MainClear, ClearInHand, IsClear, AllocFailed, Threads
  <2>9. KeyLockPresses' = KeyLockPresses /\ KeyLockOwed' = KeyLockOwed
    BY <1>0, <2>6, <2>7, <2>8, Parts, PartsAfter DEF One, Threads
  <2>10. Overloaded' <=> Overloaded
    BY <1>0, <1>1, <2>1 DEF AllocFailed, Threads
  <2>11. KeyLockKeys' = KeyLockKeys
    BY <2>1 DEF KeyLockKeys
  <2> QED
    BY <2>9, <2>10, <2>11 DEF KL!vars, Overloaded
<1> QED
  BY <1>2, <1>3, <1>4, <1>5, <1>6, Zenon DEF Produce, Alloc, FlushGet

\* The interrupt: a press that is queued, or one that finds the pool used up and
\* flushes the queue.
LEMMA InterruptStep ==
  ASSUME IsFiniteSet(Blocks), TypeOK, BlockOwnership, Btn0 \/ Btn0Exhausted
  PROVE  [KL!Next]_(KL!vars)
<1>0. /\ Queued \subseteq Blocks /\ LocksQueued \in Nat /\ ClearsQueued \in Nat
      /\ pc \in [Threads -> Locations] /\ event_type \in [Blocks -> EvtT]
      /\ pc["main"] \in Locations /\ pc["ble"] \in Producing \cup {"idle"}
      /\ KeyLockPresses \in Nat /\ KeyLockOwed \in Nat
      /\ Overloaded <=>
              (fault \/ pc["main"] \in AllocFailed \/ pc["ble"] \in AllocFailed)
  BY StepContext
<1>1. UNCHANGED <<pc, ev, usb, keys>>
  BY DEF Btn0, Btn0Exhausted, devices
<1>2. (BlePress' <=> BlePress) /\ KeyLockKeys' = KeyLockKeys
  BY <1>1 DEF BlePress, KeyLockKeys
<1>3. CASE Btn0
  <2>1. PICK b \in free : /\ event_type' = [event_type EXCEPT ![b] = "GPIO_BUTTON_0"]
                          /\ evt_fifo' = Append(evt_fifo, b)
    BY <1>3 DEF Btn0
  <2>2. b \in Blocks /\ b \notin Queued /\ (ev # NoBlock => b # ev)
    BY <2>1, Zenon DEF BlockOwnership, Held, TypeOK
  <2>3. Queued' = Queued \cup {b}
    <3>1. IsInjective(evt_fifo) /\ evt_fifo \in Seq(Blocks)
      BY Zenon DEF BlockOwnership, TypeOK
    <3> QED
      BY <2>1, <2>2, <3>1, AppendRange DEF Queued
  <2>4. /\ \A x \in Blocks \ {b} : event_type'[x] = event_type[x]
        /\ event_type'[b] # "HID_KBD_CLEAR"
    BY <1>0, <2>1, <2>2
  <2>5. LocksQueued' = LocksQueued + 1 /\ ClearsQueued' = ClearsQueued
    BY <1>0, <2>2, <2>3, <2>4, OneMore
  <2>6. pc["main"] \in {"take", "write"} => ev \in Blocks \ {b}
    BY <2>2, Zenon DEF TypeOK
  <2>7. (MainPress' <=> MainPress) /\ (MainClear' <=> MainClear)
    BY <1>1, <2>4, <2>6 DEF MainPress, MainClear, ClearInHand, IsClear
  <2>8. KeyLockPresses' = KeyLockPresses + 1 /\ KeyLockOwed' = KeyLockOwed
    <3>1. One(MainPress') = One(MainPress) /\ One(BlePress') = One(BlePress)
          /\ One(MainClear') = One(MainClear)
      BY <1>2, <2>7 DEF One
    <3>2. One(MainPress) \in 0 .. 1 /\ One(BlePress) \in 0 .. 1 /\ One(MainClear) \in 0 .. 1
      BY DEF One
    <3> QED
      BY <1>0, <2>5, <3>1, <3>2, Parts, PartsAfter
  <2>9. Overloaded' <=> Overloaded
    BY <1>1, <1>3 DEF Btn0, Overloaded
  <2>10. KL!Press
    BY <1>2, <2>8, <2>9 DEF KL!Press, Overloaded
  <2> QED
    BY <2>10 DEF KL!Next
<1>4. CASE Btn0Exhausted
  <2>1. free = {} /\ evt_fifo' = <<>> /\ event_type' = event_type /\ fault' = TRUE
    BY <1>4 DEF Btn0Exhausted
  <2>2. Queued' = {}
    BY <2>1, RangeType DEF Queued
  <2>3. LocksQueued' = 0 /\ ClearsQueued' = 0
    BY <2>2, Flushed
  <2>4. (MainPress' <=> MainPress) /\ (MainClear' <=> MainClear)
    BY <1>1, <2>1 DEF MainPress, MainClear, ClearInHand, IsClear
  <2>5. KeyLockPresses' \in 0 .. KeyLockPresses /\ KeyLockOwed' \in 0 .. KeyLockOwed
    <3>1. One(MainPress') = One(MainPress) /\ One(BlePress') = One(BlePress)
          /\ One(MainClear') = One(MainClear)
      BY <1>2, <2>4 DEF One
    <3>2. One(MainPress) \in 0 .. 1 /\ One(BlePress) \in 0 .. 1 /\ One(MainClear) \in 0 .. 1
      BY DEF One
    <3> QED
      BY <1>0, <2>3, <3>1, <3>2, Parts, PartsAfter
  <2>6. Overloaded'
    BY <2>1 DEF Overloaded
  <2>7. Overloaded \/ KeyLockPresses + KeyLockOwed >= Cardinality(Blocks) - 1
    BY <2>1, PoolUsedUp
  <2>8. KL!Drop
    BY <1>2, <2>5, <2>6, <2>7 DEF KL!Drop, Overloaded
  <2> QED
    BY <2>8 DEF KL!Next
<1> QED
  BY <1>3, <1>4

\* The listener: a notification of a pressed button is a press.
LEMMA ListenerStep ==
  ASSUME IsFiniteSet(Blocks), TypeOK, BlockOwnership, BleEvent
  PROVE  [KL!Next]_(KL!vars)
<1>0. /\ Queued \subseteq Blocks /\ LocksQueued \in Nat /\ ClearsQueued \in Nat
      /\ pc \in [Threads -> Locations] /\ pc["main"] \in Locations
      /\ KeyLockPresses \in Nat /\ KeyLockOwed \in Nat
  BY StepContext
<1>1. UNCHANGED <<evt_fifo, event_type, ev, usb, keys, fault>> /\ pc["ble"] = "idle"
  BY DEF BleEvent, queues, devices
<1>2. /\ pc'["main"] = pc["main"]
      /\ pc'["ble"] = "alloc" \/ pc' = pc
  BY <1>0 DEF BleEvent, Goto, Threads
<1>3. LocksQueued' = LocksQueued /\ ClearsQueued' = ClearsQueued
  BY <1>1, SameCounts DEF Queued
<1>4. /\ MainPress' <=> MainPress
      /\ MainClear' <=> MainClear
  BY <1>1, <1>2 DEF MainPress, MainClear, ClearInHand, IsClear
<1>5. Overloaded' <=> Overloaded
  BY <1>1, <1>2 DEF Overloaded, AllocFailed, Threads
<1>6. KeyLockKeys' = KeyLockKeys
  BY <1>1 DEF KeyLockKeys
<1>7. ~BlePress
  BY <1>1 DEF BlePress, AllocFailed
<1>8. CASE pc'["ble"] = "alloc"
  <2>1. BlePress'
    BY <1>8 DEF BlePress
  <2>2. KeyLockPresses' = KeyLockPresses + 1 /\ KeyLockOwed' = KeyLockOwed
    <3>1. One(MainPress') = One(MainPress) /\ One(BlePress') = 1 /\ One(BlePress) = 0
          /\ One(MainClear') = One(MainClear)
      BY <1>4, <1>7, <2>1 DEF One
    <3>2. One(MainPress) \in 0 .. 1 /\ One(MainClear) \in 0 .. 1
      BY DEF One
    <3> QED
      BY <1>0, <1>3, <3>1, <3>2, Parts, PartsAfter
  <2>3. KL!Press
    BY <1>5, <1>6, <2>2 DEF KL!Press, Overloaded
  <2> QED
    BY <2>3 DEF KL!Next
<1>9. CASE pc' = pc
  <2>1. BlePress' <=> BlePress
    BY <1>9 DEF BlePress
  <2> QED
    BY <1>3, <1>4, <1>5, <1>6, <2>1, CountsStay
<1> QED
  BY <1>2, <1>8, <1>9

\* Main: what it fetches stays counted until the report is written, which is the
\* lock or the release; a lock owes a release at once.
LEMMA MainStep ==
  ASSUME IsFiniteSet(Blocks), TypeOK, BlockOwnership, Main
  PROVE  [KL!Next]_(KL!vars)
<1>0. /\ Queued \subseteq Blocks /\ LocksQueued \in Nat /\ ClearsQueued \in Nat
      /\ pc \in [Threads -> Locations] /\ pc["main"] \in Locations
      /\ KeyLockPresses \in Nat /\ KeyLockOwed \in Nat
      /\ Overloaded <=>
              (fault \/ pc["main"] \in AllocFailed \/ pc["ble"] \in AllocFailed)
  BY StepContext
<1>1. Overloaded' <=> (fault' \/ pc'["main"] \in AllocFailed \/ pc'["ble"] \in AllocFailed)
  BY DEF Overloaded, Threads
<1>2. event_type' = event_type /\ fault' = fault /\ pc'["ble"] = pc["ble"]
  BY <1>0 DEF Main, BootHid, BootCallbacks, BootUsb, MainWait, MainGet, MainTakeUsb,
     MainWrite, MainFree, queues, Goto, Threads
<1>3. BlePress' <=> BlePress
  BY <1>2 DEF BlePress
<1>4. Overloaded' <=> Overloaded
  <2>1. pc["main"] \notin AllocFailed /\ pc'["main"] \notin AllocFailed
    BY <1>0 DEF Main, BootHid, BootCallbacks, BootUsb, MainWait, MainGet, MainTakeUsb,
       MainWrite, MainFree, Goto, Threads, AllocFailed
  <2> QED
    BY <1>0, <1>1, <1>2, <2>1
<1>5. CASE BootHid \/ BootCallbacks \/ BootUsb \/ MainWait \/ MainTakeUsb \/ MainFree
           \/ (MainGet /\ evt_fifo = <<>>)
  <2>1. UNCHANGED <<evt_fifo, usb, keys>>
    BY <1>5 DEF BootHid, BootCallbacks, BootUsb, MainWait, MainGet, MainTakeUsb, MainFree,
       queues, devices
  <2>2. \/ /\ pc["main"] = "take" /\ pc'["main"] = "write" /\ ev' = ev
        \/ /\ pc["main"] \notin {"alloc", "put", "take", "write"} \cup AllocFailed
           /\ pc'["main"] \notin {"alloc", "put", "take", "write"} \cup AllocFailed
    BY <1>0, <1>5
       DEF BootHid, BootCallbacks, BootUsb, MainWait, MainGet, MainTakeUsb, MainFree,
           Goto, Threads, AllocFailed
  <2>3. LocksQueued' = LocksQueued /\ ClearsQueued' = ClearsQueued
    BY <1>2, <2>1, SameCounts DEF Queued
  <2>4. /\ MainPress' <=> MainPress
        /\ MainClear' <=> MainClear
    BY <1>2, <2>2 DEF MainPress, MainClear, ClearInHand, IsClear, AllocFailed
  <2>5. KeyLockKeys' = KeyLockKeys
    BY <2>1 DEF KeyLockKeys
  <2> QED
    BY <1>3, <1>4, <2>3, <2>4, <2>5, CountsStay
<1>6. CASE MainGet /\ evt_fifo # <<>>
  <2>1. /\ pc["main"] = "get" /\ pc'["main"] = "take" /\ evt_fifo' = Tail(evt_fifo)
        /\ ev' = Head(evt_fifo) /\ UNCHANGED <<usb, keys>>
    BY <1>0, <1>6, Zenon DEF MainGet, devices, Goto, Threads
  <2>2. /\ Head(evt_fifo) \in Queued /\ Queued' = Queued \ {Head(evt_fifo)}
    BY <1>6, <2>1, TailRange, Zenon DEF Queued, BlockOwnership, TypeOK
  <2>3. PICK b \in Queued : b = Head(evt_fifo)
    BY <2>2
  <2>4. /\ IsClear(b) => LocksQueued' = LocksQueued /\ ClearsQueued' = ClearsQueued - 1
        /\ ~IsClear(b) => LocksQueued' = LocksQueued - 1 /\ ClearsQueued' = ClearsQueued
        /\ LocksQueued' \in Nat /\ ClearsQueued' \in Nat
    BY <1>0, <1>2, <2>2, <2>3, OneLess
  <2>5. ~MainPress /\ ~MainClear
    BY <2>1 DEF MainPress, MainClear, ClearInHand, AllocFailed
  <2>6. (MainPress' <=> ~IsClear(b)) /\ (MainClear' <=> IsClear(b))
    BY <1>2, <2>1, <2>3 DEF MainPress, MainClear, ClearInHand, IsClear, AllocFailed
  <2>7. KeyLockPresses' = KeyLockPresses /\ KeyLockOwed' = KeyLockOwed
    <3>1. One(BlePress') = One(BlePress) /\ One(BlePress) \in 0 .. 1
          /\ One(MainPress) = 0 /\ One(MainClear) = 0
      BY <1>3, <2>5 DEF One
    <3>2. CASE IsClear(b)
      <4>1. One(MainPress') = 0 /\ One(MainClear') = 1
        BY <2>6, <3>2 DEF One
      <4> QED
        BY <1>0, <2>4, <3>1, <3>2, <4>1, Parts, PartsAfter
    <3>3. CASE ~IsClear(b)
      <4>1. One(MainPress') = 1 /\ One(MainClear') = 0
        BY <2>6, <3>3 DEF One
      <4> QED
        BY <1>0, <2>4, <3>1, <3>3, <4>1, Parts, PartsAfter
    <3> QED
      BY <3>2, <3>3
  <2>8. KeyLockKeys' = KeyLockKeys
    BY <2>1 DEF KeyLockKeys
  <2> QED
    BY <1>4, <2>7, <2>8 DEF KL!vars, Overloaded
<1>7. CASE MainWrite
  <2>1. /\ pc["main"] = "write" /\ pc'["main"] = IF IsClear(ev) THEN "free" ELSE "alloc"
        /\ UNCHANGED <<evt_fifo, ev, keys>>
        /\ usb' \in {usb, IF IsClear(ev) THEN "clear" ELSE "lock"}
    BY <1>0, <1>7 DEF MainWrite, queues, Goto, Threads
  <2>2. LocksQueued' = LocksQueued /\ ClearsQueued' = ClearsQueued
    BY <1>2, <2>1, SameCounts DEF Queued
  <2>3. One(BlePress') = One(BlePress) /\ One(BlePress) \in 0 .. 1
    BY <1>3 DEF One
  <2>4. CASE IsClear(ev)
    <3>1. ~MainPress /\ MainClear /\ ~MainPress' /\ ~MainClear'
      BY <2>1, <2>4 DEF MainPress, MainClear, ClearInHand, AllocFailed
    <3>2. One(MainPress) = 0 /\ One(MainPress') = 0 /\ One(MainClear) = 1 /\ One(MainClear') = 0
      BY <3>1 DEF One
    <3>3. /\ KeyLockPresses' = KeyLockPresses /\ KeyLockOwed' = KeyLockOwed - 1
          /\ KeyLockOwed > 0
      BY <1>0, <2>2, <2>3, <3>2, Parts, PartsAfter
    <3>4. KeyLockKeys' \in {KeyLockKeys, "up"}
      BY <2>1, <2>4 DEF KeyLockKeys
    <3>5. KL!Release
      BY <1>4, <3>3, <3>4 DEF KL!Release, Overloaded
    <3> QED
      BY <3>5 DEF KL!Next
  <2>5. CASE ~IsClear(ev)
    <3>1. MainPress /\ ~MainClear /\ ~MainPress' /\ MainClear'
      BY <2>1, <2>5 DEF MainPress, MainClear, ClearInHand, AllocFailed
    <3>2. One(MainPress) = 1 /\ One(MainPress') = 0 /\ One(MainClear) = 0 /\ One(MainClear') = 1
      BY <3>1 DEF One
    <3>3. /\ KeyLockPresses' = KeyLockPresses - 1 /\ KeyLockOwed' = KeyLockOwed + 1
          /\ KeyLockPresses > 0
      BY <1>0, <2>2, <2>3, <3>2, Parts, PartsAfter
    <3>4. KeyLockKeys' \in {KeyLockKeys, "down"}
      BY <2>1, <2>5 DEF KeyLockKeys
    <3>5. KL!Lock
      BY <1>4, <3>3, <3>4 DEF KL!Lock, Overloaded
    <3> QED
      BY <3>5 DEF KL!Next
  <2> QED
    BY <2>4, <2>5
<1> QED
  BY <1>5, <1>6, <1>7 DEF Main

\* Every step of the pipeline is one of the abstract device, or none.
LEMMA KeyLockStep ==
  ASSUME IsFiniteSet(Blocks)
  PROVE  TypeOK /\ BlockOwnership /\ [Next]_vars => [KL!Next]_(KL!vars)
<1> SUFFICES ASSUME TypeOK, BlockOwnership, [Next]_vars PROVE [KL!Next]_(KL!vars)
  OBVIOUS
<1>1. CASE \E t \in Threads : Produce(t)
  BY <1>1, ProduceStep
<1>2. CASE Btn0 \/ Btn0Exhausted
  BY <1>2, InterruptStep
<1>3. CASE BleEvent
  BY <1>3, ListenerStep
<1>4. CASE Main
  BY <1>4, MainStep
<1>5. CASE InReadyCb \/ (\E length \in 0 .. 1, v \in BtnVals : OnReceived(length, v))
           \/ UNCHANGED vars
  <2>1. UNCHANGED <<evt_fifo, event_type, pc, ev, fault>>
    BY <1>5 DEF InReadyCb, OnReceived, vars, queues
  <2>2. LocksQueued' = LocksQueued /\ ClearsQueued' = ClearsQueued
    BY <2>1, SameCounts DEF Queued
  <2>3. /\ MainPress' <=> MainPress
        /\ BlePress' <=> BlePress
        /\ MainClear' <=> MainClear
        /\ Overloaded' <=> Overloaded
    BY <2>1 DEF MainPress, BlePress, MainClear, ClearInHand, IsClear, Overloaded
  <2>4. KeyLockKeys' = KeyLockKeys
    BY <1>5 DEF InReadyCb, OnReceived, vars, devices, KeyLockKeys
  <2> QED
    BY <2>2, <2>3, <2>4, CountsStay
<1>6. CASE Reset
  <2>1. Queued' = {}
    BY <1>6, RangeType DEF Reset, Queued
  <2>2. LocksQueued' = 0 /\ ClearsQueued' = 0
    BY <2>1, Flushed
  <2>3. ~MainPress' /\ ~BlePress' /\ ~MainClear' /\ ~Overloaded' /\ Overloaded
    BY <1>6 DEF Reset, MainPress, BlePress, MainClear, ClearInHand, Overloaded, AllocFailed,
       Threads
  <2>4. KeyLockPresses' = 0 /\ KeyLockOwed' = 0
    BY <2>2, <2>3, PartsAfter DEF One
  <2>5. KeyLockKeys' = "up"
    BY <1>6 DEF Reset, KeyLockKeys
  <2>6. KL!Restart
    BY <2>3, <2>4, <2>5 DEF KL!Restart, Overloaded
  <2> QED
    BY <2>6 DEF KL!Next
<1> QED
  BY <1>1, <1>2, <1>3, <1>4, <1>5, <1>6 DEF Next, Running

\* For every finite pool: a press of the button, from the interrupt or from a
\* Thingy, becomes one lock report and every lock report is followed by one
\* release, none of them twice; and nothing is dropped before all the blocks are
\* in use, whatever the contexts of main.c do to each other.
THEOREM PipelineImplementsKeyLock ==
  ASSUME IsFiniteSet(Blocks)
  PROVE  Spec => ImplementsKeyLock
<1>1. Init => KL!Init
  <2> SUFFICES ASSUME Init PROVE KL!Init
    OBVIOUS
  <2>1. Queued = {}
    BY RangeType DEF Init, Queued
  <2>2. LocksQueued = 0 /\ ClearsQueued = 0
    <3>1. {x \in Queued : ~IsClear(x)} = {} /\ {x \in Queued : IsClear(x)} = {}
      BY <2>1
    <3> QED
      BY <3>1, FS_EmptySet DEF LocksQueued, ClearsQueued
  <2>3. ~MainPress /\ ~BlePress /\ ~MainClear /\ ~Overloaded
    BY DEF Init, MainPress, BlePress, MainClear, ClearInHand, Overloaded, AllocFailed, Threads
  <2>4. KeyLockPresses = 0 /\ KeyLockOwed = 0
    BY <2>2, <2>3, Parts DEF One
  <2>5. KeyLockKeys = "up"
    BY DEF Init, KeyLockKeys
  <2> QED
    BY <2>3, <2>4, <2>5 DEF KL!Init, Overloaded
<1>2. TypeOK /\ BlockOwnership /\ [Next]_vars => [KL!Next]_(KL!vars)
  BY KeyLockStep
<1> QED
  BY <1>1, <1>2, TypeCorrect, PoolIsSound, PTL
     DEF Spec, ImplementsKeyLock, KL!Spec
=============================================================================
