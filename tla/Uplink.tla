------------------------------- MODULE Uplink -------------------------------
(***************************************************************************)
(* What mqtt_work promises of its uploads while the network answers in     *)
(* time: requests are served one by one, in the order they were made; a    *)
(* request that is still queued is not queued again; and once the broker   *)
(* has accepted a connection the request is not done with before the       *)
(* broker has its message, which it gets once.  A connection that cannot   *)
(* be made ends the request.  Only when it has no memory for a message     *)
(* does the device start over and forget its requests.  MqttWork           *)
(* implements it: see ImplementsUplink there.                              *)
(***************************************************************************)
EXTENDS Naturals, Sequences, Functions

CONSTANTS
  Requests,
  Memory      \* messages the device has memory for

VARIABLES
  queue,   \* requests not begun
  item,    \* the request being served, "none" between two
  stage,   \* how far it has got
  heap     \* messages there is still memory for

vars == <<queue, item, stage, heap>>

Init == queue = <<>> /\ item = "none" /\ stage = "none" /\ heap = Memory

Request(r) ==
  /\ r \notin Range(queue)
  /\ queue' = Append(queue, r)
  /\ UNCHANGED <<item, stage, heap>>

Begin ==
  /\ stage = "none" /\ queue # <<>>
  /\ item' = Head(queue) /\ queue' = Tail(queue)
  /\ stage' = "connecting"
  /\ UNCHANGED heap

Advance(from, to) == stage = from /\ stage' = to /\ UNCHANGED <<queue, item, heap>>

Send ==
  /\ stage = "connected" /\ heap > 0
  /\ stage' = "sending" /\ heap' = heap - 1
  /\ UNCHANGED <<queue, item>>

End(from) ==
  /\ stage = from
  /\ stage' = "none" /\ item' = "none"
  /\ UNCHANGED <<queue, heap>>

Restart == stage = "connected" /\ heap = 0 /\ Init'

Next ==
  \/ \E r \in Requests : Request(r)
  \/ Begin
  \/ Advance("connecting", "connected") \/ Send \/ Advance("sending", "delivered")
  \/ End("connecting") \/ End("delivered")
  \/ Restart

Spec == Init /\ [][Next]_vars
=============================================================================
