------------------------------ MODULE KeyLock ------------------------------
(***************************************************************************)
(* What hid_locker promises its user, with nothing of how it is done: a    *)
(* press of a button locks the host once, and every lock is followed by    *)
(* one release of the keys.  A report may be lost to the host; presses and *)
(* releases may be dropped only once the device is overloaded, and from    *)
(* then on only a restart helps.  HidLocker implements it: see             *)
(* ImplementsKeyLock there.                                                *)
(***************************************************************************)
EXTENDS Naturals

CONSTANT Capacity   \* presses and releases the device has room for

VARIABLES
  presses,    \* presses accepted whose lock has not been sent
  owed,       \* locks sent whose release has not been sent
  keys,       \* what the host has been told last
  overload

vars == <<presses, owed, keys, overload>>

Init == presses = 0 /\ owed = 0 /\ keys = "up" /\ overload = FALSE

Press ==
  /\ presses' = presses + 1
  /\ UNCHANGED <<owed, keys, overload>>

Lock ==
  /\ presses > 0
  /\ presses' = presses - 1 /\ owed' = owed + 1
  /\ keys' \in {keys, "down"}
  /\ UNCHANGED overload

Release ==
  /\ owed > 0
  /\ owed' = owed - 1
  /\ keys' \in {keys, "up"}
  /\ UNCHANGED <<presses, overload>>

\* Overload needs as many presses and releases outstanding as there is room
\* for, but for the one whose report has just been sent.
Drop ==
  /\ overload \/ presses + owed >= Capacity - 1
  /\ overload' = TRUE
  /\ presses' \in 0 .. presses /\ owed' \in 0 .. owed
  /\ UNCHANGED keys

Restart ==
  /\ overload
  /\ presses' = 0 /\ owed' = 0 /\ keys' = "up" /\ overload' = FALSE

Next == Press \/ Lock \/ Release \/ Drop \/ Restart

Spec == Init /\ [][Next]_vars
=============================================================================
