---------------------------- MODULE QueueLemmas ----------------------------
(***************************************************************************)
(* Facts about the queues of the modules, which are sequences: what putting *)
(* at the end and getting from the front do to the elements of a queue.    *)
(***************************************************************************)
EXTENDS Integers, Sequences, Functions, TLAPS

\* Does e wait in the queue q once at most?
AtMostOnce(e, q) == \A i, j \in DOMAIN q : q[i] = e /\ q[j] = e => i = j

\* A queue holds elements of its set, and an empty queue holds none.
LEMMA RangeType ==
  /\ \A S : \A q \in Seq(S) : Range(q) \subseteq S
  /\ Range(<<>>) = {} /\ IsInjective(<<>>) /\ \A e : AtMostOnce(e, <<>>)
BY DEF Range, IsInjective, AtMostOnce

\* Putting an element (k_fifo_put, k_msgq_put, k_work_submit_to_queue) adds
\* it and leaves every other where it is.
LEMMA AppendElements ==
  ASSUME NEW S, NEW q \in Seq(S), NEW e \in S
  PROVE  /\ Append(q, e) \in Seq(S) /\ Append(q, e) # <<>>
         /\ Len(Append(q, e)) = Len(q) + 1 /\ Len(q) \in Nat
         /\ Range(Append(q, e)) = Range(q) \cup {e}
         /\ \A d : AtMostOnce(d, q) /\ (d = e => d \notin Range(q))
                     => AtMostOnce(d, Append(q, e))
<1> DEFINE r == Append(q, e)
<1>1. /\ r \in Seq(S) /\ r # <<>> /\ DOMAIN r = 1 .. Len(q) + 1
      /\ Len(r) = Len(q) + 1
      /\ \A i \in 1 .. Len(q) : r[i] = q[i]
      /\ r[Len(q) + 1] = e
      /\ DOMAIN q = 1 .. Len(q) /\ Len(q) \in Nat
  OBVIOUS
<1> HIDE DEF r
<1>2. Range(r) = Range(q) \cup {e}
  BY <1>1 DEF Range
<1>3. ASSUME NEW d, AtMostOnce(d, q), d = e => d \notin Range(q)
      PROVE  AtMostOnce(d, r)
  BY <1>1, <1>3 DEF AtMostOnce, Range
<1> QED
  BY <1>1, <1>2, <1>3 DEF r

\* Getting the first element (k_fifo_get, k_msgq_get) leaves the others.
LEMMA TailElements ==
  ASSUME NEW S, NEW q \in Seq(S), q # <<>>
  PROVE  /\ Head(q) \in S /\ Head(q) \in Range(q) /\ Tail(q) \in Seq(S)
         /\ Len(Tail(q)) = Len(q) - 1 /\ Len(q) \in Nat
         /\ Range(q) = Range(Tail(q)) \cup {Head(q)}
         /\ \A d : AtMostOnce(d, q) => AtMostOnce(d, Tail(q))
         /\ AtMostOnce(Head(q), q) => Head(q) \notin Range(Tail(q))
<1> DEFINE r == Tail(q)
           h == Head(q)
<1>1. /\ r \in Seq(S) /\ DOMAIN r = 1 .. Len(q) - 1 /\ Len(r) = Len(q) - 1
      /\ \A i \in 1 .. Len(q) - 1 : r[i] = q[i + 1]
      /\ h = q[1] /\ h \in S
      /\ DOMAIN q = 1 .. Len(q) /\ Len(q) \in Nat \ {0}
  OBVIOUS
<1> HIDE DEF r, h
<1>2. h \in Range(q)
  BY <1>1 DEF Range
<1>3. Range(r) \subseteq Range(q)
  BY <1>1 DEF Range
<1>4. ASSUME NEW b \in Range(q), b # h PROVE b \in Range(r)
  <2>1. PICK i \in 1 .. Len(q) : b = q[i]
    BY <1>1 DEF Range
  <2>2. i # 1
    BY <1>1, <1>4, <2>1
  <2>3. i - 1 \in 1 .. Len(q) - 1 /\ r[i - 1] = b
    BY <1>1, <2>1, <2>2
  <2> QED
    BY <1>1, <2>3 DEF Range
<1>5. ASSUME NEW d, AtMostOnce(d, q) PROVE AtMostOnce(d, r)
  <2> SUFFICES ASSUME NEW i \in 1 .. Len(q) - 1, NEW j \in 1 .. Len(q) - 1,
                      r[i] = d, r[j] = d
               PROVE  i = j
    BY <1>1 DEF AtMostOnce
  <2>1. i + 1 \in DOMAIN q /\ j + 1 \in DOMAIN q /\ q[i + 1] = d /\ q[j + 1] = d
    BY <1>1
  <2>2. i + 1 = j + 1
    BY <1>5, <2>1 DEF AtMostOnce
  <2> QED
    BY <2>2
<1>6. ASSUME AtMostOnce(h, q) PROVE h \notin Range(r)
  <2> SUFFICES ASSUME NEW i \in 1 .. Len(q) - 1, r[i] = h PROVE FALSE
    BY <1>1 DEF Range
  <2>1. i + 1 \in DOMAIN q /\ 1 \in DOMAIN q /\ q[i + 1] = h /\ q[1] = h /\ i + 1 # 1
    BY <1>1
  <2> QED
    BY <1>6, <2>1 DEF AtMostOnce
<1> QED
  BY <1>1, <1>2, <1>3, <1>4, <1>5, <1>6 DEF r, h

\* A queue without duplicates holds each of its elements once at most.
LEMMA InjectiveOnce == \A q : IsInjective(q) <=> \A e : AtMostOnce(e, q)
BY DEF IsInjective, AtMostOnce

\* Putting an element that is not queued keeps the queue free of duplicates.
LEMMA AppendRange ==
  ASSUME NEW S, NEW q \in Seq(S), NEW e \in S, IsInjective(q), e \notin Range(q)
  PROVE  /\ Append(q, e) \in Seq(S) /\ Append(q, e) # <<>>
         /\ IsInjective(Append(q, e))
         /\ Range(Append(q, e)) = Range(q) \cup {e}
BY AppendElements, InjectiveOnce

\* Getting the first element of such a queue removes exactly that one.
LEMMA TailRange ==
  ASSUME NEW S, NEW q \in Seq(S), q # <<>>, IsInjective(q)
  PROVE  /\ Head(q) \in S /\ Head(q) \in Range(q) /\ Tail(q) \in Seq(S)
         /\ IsInjective(Tail(q))
         /\ Range(Tail(q)) = Range(q) \ {Head(q)}
<1>1. Head(q) \notin Range(Tail(q))
  BY TailElements, InjectiveOnce
<1> QED
  BY <1>1, TailElements, InjectiveOnce
=============================================================================
