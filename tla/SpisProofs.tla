----------------------------- MODULE SpisProofs -----------------------------
(***************************************************************************)
(* Proofs about Spis, for a buffer of any length, a byte of any width and  *)
(* any frames the master sends.                                            *)
(***************************************************************************)
EXTENDS Spis, TLAPS

-----------------------------------------------------------------------------
(* Arithmetic modulo the number of values of a byte: what truncating tx      *)
(* values to uint8_t does to sums and differences.                           *)

\* The remainder is a byte, and the division has it left.
LEMMA ModType ==
  ASSUME NEW w \in Nat \ {0}, NEW x \in Int
  PROVE  /\ x % w \in 0 .. w - 1 /\ x % w \in Int /\ x \div w \in Int
         /\ x = (w * (x \div w)) + (x % w)
OBVIOUS

\* A multiple of w that is less than w either way is 0.
LEMMA SmallMultiple ==
  ASSUME NEW w \in Nat \ {0}, NEW d \in Int, -w < w * d, w * d < w
  PROVE  d = 0
<1>1. d < 1
  <2> SUFFICES ASSUME d >= 1 PROVE FALSE
    OBVIOUS
  <2>1. w * d >= w * 1
    OBVIOUS
  <2> QED
    BY <2>1
<1>2. d > -1
  <2> SUFFICES ASSUME d <= -1 PROVE FALSE
    OBVIOUS
  <2>1. w * d <= w * (-1)
    OBVIOUS
  <2> QED
    BY <2>1
<1> QED
  BY <1>1, <1>2

\* The remainder is the only byte that differs from a number by a multiple.
LEMMA ModUnique ==
  ASSUME NEW w \in Nat \ {0}, NEW n \in 0 .. w - 1, NEW q \in Int
  PROVE  (n + (w * q)) % w = n
<1> DEFINE x == n + (w * q)
           d == x \div w
           r == x % w
<1>1. x \in Int /\ d \in Int /\ r \in 0 .. w - 1 /\ x = (w * d) + r
  BY ModType
<1> HIDE DEF d, r
<1>2. n - r = (w * d) - (w * q)
  BY <1>1
<1>3. (w * d) - (w * q) = w * (d - q)
  BY <1>1
<1>4. -w < n - r /\ n - r < w
  BY <1>1
<1>5. d - q = 0
  BY <1>1, <1>2, <1>3, <1>4, SmallMultiple
<1>6. w * (d - q) = 0
  BY <1>5
<1>7. n = r
  BY <1>1, <1>2, <1>3, <1>6
<1> QED
  BY <1>7 DEF r

\* Truncation commutes with adding: only the end result needs it.
LEMMA ModAdd ==
  ASSUME NEW w \in Nat \ {0}, NEW x \in Int, NEW y \in Int
  PROVE  ((x % w) + y) % w = (x + y) % w
<1> DEFINE z == x + y
<1>1. z \in Int
  OBVIOUS
<1> HIDE DEF z
<1> DEFINE q == x \div w
           r == x % w
           d == z \div w
           s == z % w
<1>2. q \in Int /\ r \in Int /\ x = (w * q) + r
  BY ModType
<1>3. d \in Int /\ s \in 0 .. w - 1 /\ z = (w * d) + s
  BY <1>1, ModType
<1> HIDE DEF q, r, d, s
<1>4. r + y = s + ((w * d) - (w * q))
  BY <1>2, <1>3 DEF z
<1>5. (w * d) - (w * q) = w * (d - q)
  BY <1>2, <1>3
<1>6. (s + (w * (d - q))) % w = s
  BY <1>2, <1>3, ModUnique
<1> QED
  BY <1>4, <1>5, <1>6 DEF r, s, z

\* ... and with subtracting.
LEMMA ModSub ==
  ASSUME NEW w \in Nat \ {0}, NEW x \in Int, NEW y \in Int
  PROVE  (x - (y % w)) % w = (x - y) % w
<1> DEFINE z == x - y
<1>1. z \in Int
  OBVIOUS
<1> HIDE DEF z
<1> DEFINE q == y \div w
           r == y % w
           d == z \div w
           s == z % w
<1>2. q \in Int /\ r \in Int /\ y = (w * q) + r
  BY ModType
<1>3. d \in Int /\ s \in 0 .. w - 1 /\ z = (w * d) + s
  BY <1>1, ModType
<1> HIDE DEF q, r, d, s
<1>4. x - r = s + ((w * d) + (w * q))
  BY <1>2, <1>3 DEF z
<1>5. (w * d) + (w * q) = w * (d + q)
  BY <1>2, <1>3
<1>6. (s + (w * (d + q))) % w = s
  BY <1>2, <1>3, ModUnique
<1> QED
  BY <1>4, <1>5, <1>6 DEF r, s, z

\* The difference of two numbers that are at most two apart, as a byte.
LEMMA ModNear ==
  ASSUME NEW w \in Nat \ {0, 1}, NEW x \in -2 .. 2
  PROVE  x % w \in {0, 1, 2, w - 1, w - 2}
<1>1. CASE x \in 0 .. w - 1
  <2>1. (x + (w * 0)) % w = x
    BY <1>1, ModUnique
  <2>2. x + (w * 0) = x
    OBVIOUS
  <2> QED
    BY <1>1, <2>1, <2>2
<1>2. CASE x < 0
  <2>1. x + w \in 0 .. w - 1
    BY <1>2
  <2>2. ((x + w) + (w * (-1))) % w = x + w
    BY <2>1, ModUnique
  <2>3. (x + w) + (w * (-1)) = x
    OBVIOUS
  <2> QED
    BY <1>2, <2>2, <2>3
<1>3. CASE x = 2 /\ w = 2
  <2>1. (0 + (w * 1)) % w = 0
    BY ModUnique
  <2>2. 0 + (w * 1) = x
    BY <1>3
  <2> QED
    BY <2>1, <2>2
<1> QED
  BY <1>1, <1>2, <1>3

-----------------------------------------------------------------------------
(* Bytes of rounds. *)

\* Each byte of a round is a byte.
LEMMA ByteType ==
  ASSUME NEW n \in Int, NEW i \in Index
  PROVE  Byte(n, i) \in 0 .. Width - 1 /\ i \in Int
<1>1. n + i \in Int /\ Width \in Nat \ {0}
  BY SizeAssumption DEF Index
<1> QED
  BY <1>1, ModType DEF Byte, Index

\* When main's counter goes on, the rounds behind it are one more behind.
LEMMA NextRound ==
  ASSUME NEW n \in Int, NEW a \in Int, NEW i \in Index
  PROVE  Byte(((n + 1) % Width) - (a + 1), i) = Byte(n - a, i)
<1> DEFINE x == n + 1
           y == i - (a + 1)
<1>1. Width \in Nat \ {0} /\ i \in Int
  BY SizeAssumption DEF Index
<1>2. x \in Int /\ y \in Int
  BY <1>1
<1>3. ((x % Width) + y) % Width = (x + y) % Width
  BY <1>1, <1>2, ModAdd
<1>4. x % Width \in Int
  BY <1>1, <1>2, ModType
<1>5. (x % Width) + y = ((x % Width) - (a + 1)) + i /\ x + y = (n - a) + i
  BY <1>1, <1>4
<1> QED
  BY <1>3, <1>5 DEF Byte

\* What the master computes from a byte it has read is the byte's round.
LEMMA UpdateOf ==
  ASSUME NEW n \in Int, NEW i \in Index, miso[i] = Byte(n, i)
  PROVE  Update(i) = n % Width
<1>1. Width \in Nat \ {0} /\ i \in Int /\ n + i \in Int /\ -i \in Int
  BY SizeAssumption DEF Index
<1>2. (((n + i) % Width) + (-i)) % Width = ((n + i) + (-i)) % Width
  BY <1>1, ModAdd
<1>3. (n + i) % Width \in Int
  BY <1>1, ModType
<1>4. ((n + i) % Width) + (-i) = ((n + i) % Width) - i /\ (n + i) + (-i) = n
  BY <1>1, <1>3
<1> QED
  BY <1>2, <1>4 DEF Update, Byte

-----------------------------------------------------------------------------
(* Type correctness. *)

PlacesOK ==
  /\ main \in {"boot", "exited", "wait", "write"}
  /\ handler \in {"idle", "print", "set", "give"}
FlagsOK   == armed \in BOOLEAN /\ settled \in BOOLEAN
NumbersOK ==
  /\ SPI_EVENT \in 0 .. 1 /\ k \in 0 .. Width - 1 /\ written \in 0 .. N /\ pos \in 0 .. N + 1
BytesOK   == tx_buffer \in [Index -> 0 .. Width - 1] /\ miso \in [Index -> 0 .. Width - 1]
FramesOK  == rx_buffer \in [Index -> Frames] /\ mosi \in Frames /\ printed \in Frames

\* The parts are the type invariant.
LEMMA TypeParts == TypeOK <=> PlacesOK /\ FlagsOK /\ NumbersOK /\ BytesOK /\ FramesOK
BY DEF TypeOK, PlacesOK, FlagsOK, NumbersOK, BytesOK, FramesOK

\* At power-up the state is well formed.
LEMMA InitType == Init => TypeOK
<1> SUFFICES ASSUME Init PROVE TypeOK
  OBVIOUS
<1>1. PlacesOK
  BY DEF Init, PlacesOK
<1>2. FlagsOK
  BY DEF Init, FlagsOK
<1>3. NumbersOK
  BY SizeAssumption DEF Init, NumbersOK, Idle
<1>4. BytesOK
  BY SizeAssumption DEF Init, BytesOK
<1>5. FramesOK
  BY FramesAssumption DEF Init, FramesOK
<1> QED
  BY <1>1, <1>2, <1>3, <1>4, <1>5, TypeParts

\* Every step of the DMA, the handler and main keeps it so: the buffers are only
\* accessed within their bounds.
LEMMA NextType == TypeOK /\ [Next]_vars => TypeOK'
<1> SUFFICES ASSUME TypeOK, [Next]_vars PROVE TypeOK'
  OBVIOUS
<1>0. PlacesOK /\ FlagsOK /\ NumbersOK /\ BytesOK /\ FramesOK
  BY TypeParts
<1>1. PlacesOK'
  BY <1>0 DEF PlacesOK, Next, Handler, Main, StartTransfer, TransferByte, EndTransfer,
       HandlerPrint, HandlerSet, HandlerGive, Boot, MainTake, MainWriteByte,
       MainRoundDone, mainVars, dma, vars
<1>2. FlagsOK'
  BY <1>0 DEF FlagsOK, Next, Handler, Main, StartTransfer, TransferByte, EndTransfer,
       HandlerPrint, HandlerSet, HandlerGive, Boot, MainTake, MainWriteByte,
       MainRoundDone, mainVars, dma, vars
<1>3. NumbersOK'
  <2> USE SizeAssumption, <1>0 DEF NumbersOK, mainVars, dma
  <2>1. CASE StartTransfer \/ TransferByte \/ EndTransfer
    BY <2>1 DEF StartTransfer, TransferByte, EndTransfer, Index, Idle
  <2>2. CASE Handler \/ Boot \/ UNCHANGED vars
    BY <2>2 DEF Handler, HandlerPrint, HandlerSet, HandlerGive, Boot, vars
  <2>3. CASE MainTake \/ MainWriteByte
    BY <2>3 DEF MainTake, MainWriteByte
  <2>4. CASE MainRoundDone
    <3>1. k' \in 0 .. Width - 1
      BY <2>4, ModType DEF MainRoundDone
    <3> QED
      BY <2>4, <3>1 DEF MainRoundDone
  <2> QED
    BY <2>1, <2>2, <2>3, <2>4 DEF Next, Main
<1>4. BytesOK'
  <2>1. CASE TransferByte
    BY <1>0, <2>1 DEF TransferByte, BytesOK, mainVars
  <2>2. CASE MainWriteByte
    <3>1. written \in Index
      BY <1>0, <2>2, SizeAssumption DEF MainWriteByte, NumbersOK, Index
    <3>2. k \in Int
      BY <1>0, SizeAssumption DEF NumbersOK
    <3>3. Byte(k, written) \in 0 .. Width - 1
      BY <3>1, <3>2, ByteType
    <3> QED
      BY <1>0, <2>2, <3>3 DEF MainWriteByte, BytesOK, dma
  <2>3. CASE UNCHANGED <<tx_buffer, miso>>
    BY <1>0, <2>3 DEF BytesOK
  <2> QED
    BY <2>1, <2>2, <2>3
       DEF Next, Handler, Main, StartTransfer, EndTransfer, HandlerPrint, HandlerSet,
           HandlerGive, Boot, MainTake, MainRoundDone, mainVars, dma, vars
<1>5. FramesOK'
  <2>1. CASE StartTransfer
    BY <1>0, <2>1 DEF StartTransfer, FramesOK
  <2>2. CASE TransferByte
    BY <1>0, <2>2 DEF TransferByte, FramesOK
  <2>3. CASE HandlerPrint
    <3>1. N - 1 \in Index
      BY SizeAssumption DEF Index
    <3> QED
      BY <1>0, <2>3, <3>1 DEF HandlerPrint, FramesOK, dma
  <2>4. CASE UNCHANGED <<rx_buffer, mosi, printed>>
    BY <1>0, <2>4 DEF FramesOK
  <2> QED
    BY <2>1, <2>2, <2>3, <2>4
       DEF Next, Handler, Main, EndTransfer, HandlerSet, HandlerGive, Boot, MainTake,
           MainWriteByte, MainRoundDone, mainVars, dma, vars
<1> QED
  BY <1>1, <1>2, <1>3, <1>4, <1>5
     DEF TypeOK, PlacesOK, FlagsOK, NumbersOK, BytesOK, FramesOK

\* Type correctness of the slave: neither the DMA nor main leaves its buffer.
THEOREM TypeCorrect == Spec => []TypeOK
BY InitType, NextType, PTL DEF Spec

\* What the bounds of the counters say to arithmetic.
LEMMA Numbers ==
  ASSUME TypeOK
  PROVE  /\ N \in Nat \ {0} /\ Width \in Nat \ {0, 1} /\ 0 \in Index /\ N - 1 \in Index
         /\ k \in Int /\ written \in Int /\ pos \in Int /\ Idle = N + 1
         /\ pos \in 0 .. N + 1 /\ written \in 0 .. N /\ SPI_EVENT \in 0 .. 1
BY SizeAssumption DEF TypeOK, Index, Idle

-----------------------------------------------------------------------------
(* Received bytes. *)

\* rx_buffer belongs to the peripheral from HandlerSet to the end of a transfer;
\* what is received is there, and stays there until it has been printed.
RxInv ==
  /\ main \in {"boot", "exited"} => handler = "idle" /\ pos = Idle /\ armed = FALSE
  /\ handler \in {"print", "set"} => pos = Idle /\ armed = FALSE
  /\ handler = "print" => \A i \in Index : rx_buffer[i] = mosi
  /\ pos # Idle => \A i \in Index : i < pos => rx_buffer[i] = mosi

\* A step keeps what has been received where it is until it is printed.
LEMMA NextRxInv == TypeOK /\ RxInv /\ [Next]_vars => RxInv'
<1> SUFFICES ASSUME TypeOK, RxInv, [Next]_vars PROVE RxInv'
  OBVIOUS
<1>0. /\ N \in Nat \ {0} /\ pos \in 0 .. N + 1 /\ Idle = N + 1
      /\ rx_buffer \in [Index -> Frames]
  BY Numbers DEF TypeOK
<1>1. CASE StartTransfer
  BY <1>0, <1>1 DEF StartTransfer, RxInv, Index, mainVars
<1>2. CASE TransferByte
  <2>1. pos # Idle /\ pos' = pos + 1
    BY <1>0, <1>2 DEF TransferByte, Index
  <2>2. \A i \in Index : i < pos' => rx_buffer'[i] = mosi'
    BY <1>0, <1>2, <2>1 DEF TransferByte, RxInv, Index
  <2>3. /\ handler \notin {"print", "set"} /\ main \notin {"boot", "exited"}
        /\ handler' = handler /\ main' = main
    BY <1>2, <2>1 DEF TransferByte, RxInv, mainVars
  <2> QED
    BY <2>2, <2>3 DEF RxInv
<1>3. CASE EndTransfer
  <2>1. pos # Idle /\ \A i \in Index : i < pos
    BY <1>0, <1>3 DEF EndTransfer, Index
  <2> QED
    BY <1>3, <2>1 DEF EndTransfer, RxInv, mainVars
<1>4. CASE HandlerPrint
  BY <1>4 DEF HandlerPrint, RxInv, mainVars, dma
<1>5. CASE HandlerSet
  BY <1>5 DEF HandlerSet, RxInv, mainVars, dma
<1>6. CASE HandlerGive
  BY <1>6 DEF HandlerGive, RxInv, mainVars, dma
<1>7. CASE Boot
  BY <1>7 DEF Boot, RxInv, dma
<1>8. CASE Main
  BY <1>8 DEF Main, MainTake, MainWriteByte, MainRoundDone, RxInv, dma
<1>9. CASE UNCHANGED vars
  BY <1>9 DEF vars, RxInv
<1> QED
  BY <1>1, <1>2, <1>3, <1>4, <1>5, <1>6, <1>7, <1>8, <1>9 DEF Next, Handler

\* The invariant of the buffer that the peripheral fills.
LEMMA RxInvariant == Spec => [](TypeOK /\ RxInv)
<1>1. Init => RxInv
  BY DEF Init, RxInv
<1> QED
  BY <1>1, InitType, NextType, NextRxInv, PTL DEF Spec

\* The handler prints the frame that the master has just sent, and nothing when
\* it is blank: the buffers go back to the peripheral only after the printing.
THEOREM ReceivedIsPrinted == Spec => PrintedAsSent
<1>1. TypeOK /\ RxInv /\ [Next]_vars =>
        [(handler = "print" /\ handler' # "print") =>
           /\ printed' = (IF mosi = Blank THEN printed ELSE mosi)
           /\ \A i \in Index : rx_buffer[i] = mosi]_vars
  <2> SUFFICES ASSUME TypeOK, RxInv, Next, handler = "print", handler' # "print"
               PROVE  /\ printed' = (IF mosi = Blank THEN printed ELSE mosi)
                      /\ \A i \in Index : rx_buffer[i] = mosi
    OBVIOUS
  <2>1. \A i \in Index : rx_buffer[i] = mosi
    BY DEF RxInv
  <2>2. HandlerPrint
    BY DEF Next, Handler, Main, StartTransfer, TransferByte, EndTransfer, HandlerSet,
           HandlerGive, Boot, MainTake, MainWriteByte, MainRoundDone, RxInv
  <2>3. rx_buffer[0] = mosi /\ rx_buffer[N - 1] = mosi
    BY <2>1, Numbers
  <2> QED
    BY <2>1, <2>2, <2>3 DEF HandlerPrint
<1> QED
  BY <1>1, RxInvariant, PTL DEF Spec, PrintedAsSent

-----------------------------------------------------------------------------
(* A transfer that finds main asleep. *)

\* What tx_buffer holds: zeros until main's first round, then the bytes of the
\* latest round; while a round is being written, its bytes before the older ones.
TxInv ==
  /\ main \in {"boot", "exited"} => \A i \in Index : tx_buffer[i] = 0
  /\ main = "wait" => \/ \A i \in Index : tx_buffer[i] = 0
                      \/ \A i \in Index : tx_buffer[i] = Byte(k - 1, i)
  /\ main = "write" =>
       \A i \in Index : IF i < written THEN tx_buffer[i] = Byte(k, i)
                        ELSE tx_buffer[i] \in {0, Byte(k - 1, i)}

\* The bytes of a round are those of the round behind main's counter once it has
\* gone on.
LEMMA RoundBehind ==
  ASSUME NEW n \in Int, NEW i \in Index
  PROVE  Byte(((n + 1) % Width) - 1, i) = Byte(n, i)
<1>1. Byte(((n + 1) % Width) - (0 + 1), i) = Byte(n - 0, i)
  BY NextRound
<1>2. 0 + 1 = 1 /\ n - 0 = n
  OBVIOUS
<1> QED
  BY <1>1, <1>2

\* Main writes its rounds one after the other, each from the first byte on.
LEMMA NextTxInv == TypeOK /\ TxInv /\ [Next]_vars => TxInv'
<1> SUFFICES ASSUME TypeOK, TxInv, [Next]_vars PROVE TxInv'
  OBVIOUS
<1>0. /\ N \in Nat \ {0} /\ k \in Int /\ written \in 0 .. N
      /\ tx_buffer \in [Index -> 0 .. Width - 1]
  BY Numbers DEF TypeOK
<1>1. CASE Boot
  BY <1>1 DEF Boot, TxInv
<1>2. CASE MainTake
  <2>1. \A i \in Index : ~(i < 0) /\ tx_buffer[i] \in {0, Byte(k - 1, i)}
    BY <1>2 DEF MainTake, TxInv, Index
  <2>2. /\ main' = "write" /\ written' = 0 /\ tx_buffer' = tx_buffer /\ k' = k
    BY <1>2 DEF MainTake
  <2> QED
    BY <2>1, <2>2 DEF TxInv, Byte
<1>3. CASE MainWriteByte
  <2>1. /\ main' = "write" /\ main = "write" /\ k' = k /\ written' = written + 1
        /\ tx_buffer' = [tx_buffer EXCEPT ![written] = Byte(k, written)]
    BY <1>3 DEF MainWriteByte
  <2>2. SUFFICES ASSUME NEW i \in Index
                 PROVE  IF i < written' THEN tx_buffer'[i] = Byte(k, i)
                        ELSE tx_buffer'[i] \in {0, Byte(k - 1, i)}
    BY <2>1 DEF TxInv, Byte
  <2>3. i \in Int /\ (i < written' <=> i < written \/ i = written)
    BY <1>0, <2>1 DEF Index
  <2>4. tx_buffer'[i] = IF i = written THEN Byte(k, i) ELSE tx_buffer[i]
    BY <1>0, <2>1
  <2>5. IF i < written THEN tx_buffer[i] = Byte(k, i)
                       ELSE tx_buffer[i] \in {0, Byte(k - 1, i)}
    BY <2>1 DEF TxInv
  <2> QED
    BY <1>0, <2>3, <2>4, <2>5
<1>4. CASE MainRoundDone
  <2>1. main' = "wait" /\ tx_buffer' = tx_buffer /\ k' = (k + 1) % Width
    BY <1>4 DEF MainRoundDone
  <2>2. \A i \in Index : i < written /\ tx_buffer[i] = Byte(k, i)
    BY <1>0, <1>4 DEF MainRoundDone, TxInv, Index
  <2>3. \A i \in Index : Byte(k' - 1, i) = Byte(k, i)
    BY <1>0, <2>1, RoundBehind
  <2> QED
    BY <2>1, <2>2, <2>3 DEF TxInv, Byte
<1>5. CASE UNCHANGED <<main, k, written, tx_buffer>>
  BY <1>5 DEF TxInv, Byte
<1> QED
  BY <1>1, <1>2, <1>3, <1>4, <1>5
     DEF Next, Handler, Main, StartTransfer, TransferByte, EndTransfer, HandlerPrint,
         HandlerSet, HandlerGive, mainVars, vars

\* A transfer that has begun with main asleep and nothing owed finds it so at its
\* end, and tx_buffer as it was.
SettledInv ==
  /\ settled /\ pos # Idle =>
       /\ main = "wait" /\ SPI_EVENT = 0 /\ handler = "idle"
       /\ \A i \in Index : i < pos => miso[i] = tx_buffer[i]
  /\ settled /\ pos = Idle => \/ \A i \in Index : miso[i] = 0
                              \/ \E n \in Int : \A i \in Index : miso[i] = Byte(n, i)

\* Main is only woken by the end of a transfer, so it sleeps through one.
LEMMA NextSettledInv == TypeOK /\ RxInv /\ TxInv /\ SettledInv /\ [Next]_vars => SettledInv'
<1> SUFFICES ASSUME TypeOK, RxInv, TxInv, SettledInv, [Next]_vars PROVE SettledInv'
  OBVIOUS
<1>0. /\ N \in Nat \ {0} /\ pos \in 0 .. N + 1 /\ Idle = N + 1 /\ k \in Int
      /\ miso \in [Index -> 0 .. Width - 1]
  BY Numbers DEF TypeOK
<1>1. CASE StartTransfer
  <2>1. pos' = 0 /\ pos' # Idle' /\ \A i \in Index : ~(i < 0)
    BY <1>0, <1>1 DEF StartTransfer, Index, Idle
  <2>2. settled' => handler = "idle" /\ main = "wait" /\ SPI_EVENT = 0
    BY <1>1 DEF StartTransfer
  <2>3. main' = main /\ SPI_EVENT' = SPI_EVENT /\ handler' = handler
    BY <1>1 DEF StartTransfer, mainVars
  <2> QED
    BY <2>1, <2>2, <2>3 DEF SettledInv
<1>2. CASE TransferByte
  <2>1. pos # Idle /\ pos' = pos + 1 /\ pos' # Idle /\ pos \in Index
    BY <1>0, <1>2 DEF TransferByte, Index
  <2>2. /\ settled' = settled /\ main' = main /\ SPI_EVENT' = SPI_EVENT
        /\ handler' = handler /\ tx_buffer' = tx_buffer
        /\ miso' = [miso EXCEPT ![pos] = tx_buffer[pos]]
    BY <1>2 DEF TransferByte, mainVars
  <2>3. SUFFICES ASSUME settled, NEW i \in Index, i < pos' PROVE miso'[i] = tx_buffer[i]
    BY <2>1, <2>2 DEF SettledInv
  <2>4. i = pos \/ i < pos
    BY <1>0, <2>1, <2>3 DEF Index
  <2> QED
    BY <1>0, <2>1, <2>2, <2>3, <2>4 DEF SettledInv
<1>3. CASE EndTransfer
  <2>1. pos # Idle /\ pos' = Idle /\ miso' = miso /\ settled' = settled
    BY <1>0, <1>3 DEF EndTransfer
  <2>2. SUFFICES ASSUME settled
                 PROVE  \/ \A i \in Index : miso[i] = 0
                        \/ \E n \in Int : \A i \in Index : miso[i] = Byte(n, i)
    BY <2>1 DEF SettledInv, Idle, Byte
  <2>3. \A i \in Index : miso[i] = tx_buffer[i]
    BY <1>0, <1>3, <2>1, <2>2 DEF EndTransfer, SettledInv, Index
  <2>4. \/ \A i \in Index : tx_buffer[i] = 0
        \/ \A i \in Index : tx_buffer[i] = Byte(k - 1, i)
    BY <2>1, <2>2 DEF SettledInv, TxInv
  <2>5. k - 1 \in Int
    BY <1>0
  <2> QED
    BY <2>3, <2>4, <2>5
<1>4. CASE Handler \/ Main \/ Boot
  <2>1. pos' = pos /\ miso' = miso /\ settled' = settled
    BY <1>4 DEF Handler, HandlerPrint, HandlerSet, HandlerGive, Main, MainTake,
         MainWriteByte, MainRoundDone, Boot, dma
  <2>2. ASSUME settled, pos # Idle PROVE FALSE
    BY <1>4, <2>2 DEF SettledInv, RxInv, Handler, HandlerPrint, HandlerSet, HandlerGive,
         Main, MainTake, MainWriteByte, MainRoundDone, Boot
  <2> QED
    BY <2>1, <2>2 DEF SettledInv, Idle, Byte
<1>5. CASE UNCHANGED vars
  BY <1>5 DEF vars, SettledInv, Byte, Idle
<1> QED
  BY <1>1, <1>2, <1>3, <1>4, <1>5 DEF Next

\* All that has been read of a settled transfer is one round, or untouched.
LEMMA SettledReadsOneRound ==
  ASSUME TypeOK, TxInv, SettledInv
  PROVE  SettledFrameWhole
<1>0. N \in Nat \ {0} /\ pos \in 0 .. N + 1 /\ Idle = N + 1 /\ k \in Int /\ k - 1 \in Int
  BY Numbers
<1>1. Read \subseteq Index /\ (pos # Idle => \A i \in Read : i < pos)
  BY <1>0 DEF Read, Index
<1> SUFFICES ASSUME settled
             PROVE  \/ \A i \in Read : Untouched(i)
                    \/ \A i, j \in Read : Update(i) = Update(j)
  BY DEF SettledFrameWhole
<1>2. CASE \A i \in Read : miso[i] = 0
  BY <1>2 DEF Untouched
<1>3. ASSUME NEW n \in Int, \A i \in Read : miso[i] = Byte(n, i)
      PROVE  \A i, j \in Read : Update(i) = Update(j)
  <2>1. \A i \in Read : Update(i) = n % Width
    BY <1>1, <1>3, UpdateOf
  <2> QED
    BY <2>1
<1>4. \/ \A i \in Read : miso[i] = 0
      \/ \E n \in Int : \A i \in Read : miso[i] = Byte(n, i)
  <2>1. CASE pos = Idle
    BY <1>1, <2>1 DEF SettledInv
  <2>2. CASE pos # Idle
    <3>1. \A i \in Read : miso[i] = tx_buffer[i]
      BY <1>1, <2>2 DEF SettledInv
    <3>2. \/ \A i \in Index : tx_buffer[i] = 0
          \/ \A i \in Index : tx_buffer[i] = Byte(k - 1, i)
      BY <2>2 DEF SettledInv, TxInv
    <3> QED
      BY <1>0, <1>1, <3>1, <3>2
  <2> QED
    BY <2>1, <2>2
<1> QED
  BY <1>2, <1>3, <1>4

\* The invariants of both buffers.
LEMMA BuffersInvariant == Spec => [](TypeOK /\ RxInv /\ TxInv /\ SettledInv)
<1>1. Init => RxInv
  BY DEF Init, RxInv
<1>2. Init => TxInv
  BY DEF Init, TxInv
<1>3. Init => SettledInv
  BY DEF Init, SettledInv
<1> QED
  BY <1>1, <1>2, <1>3, InitType, NextType, NextRxInv, NextTxInv, NextSettledInv,
     PTL DEF Spec

\* A master that gives the slave time to do its round reads whole frames.
THEOREM SettledIsWhole == Spec => []SettledFrameWhole
<1>1. TypeOK /\ RxInv /\ TxInv /\ SettledInv => SettledFrameWhole
  BY SettledReadsOneRound
<1> QED
  BY <1>1, BuffersInvariant, PTL

-----------------------------------------------------------------------------
(* A transfer that main writes under. *)

\* Does main owe a round, with no transfer to end before it can begin it?
Owed == SPI_EVENT = 1 \/ handler = "give"

\* How many rounds ago main has written the bytes that a running transfer has
\* sent.  While a round is owed one less can have gone by: SPI_EVENT is binary,
\* and not given again before the transfer ends.
Ages == IF main = "write" THEN 0 .. (IF Owed THEN 1 ELSE 2)
                          ELSE 1 .. (IF Owed THEN 2 ELSE 3)

MisoInv ==
  /\ pos # Idle =>
       \A i \in Index : i < pos => miso[i] = 0 \/ \E a \in Ages : miso[i] = Byte(k - a, i)
  /\ pos = Idle =>
       \E n \in Int : \A i \in Index :
         miso[i] = 0 \/ \E a \in 0 .. 2 : miso[i] = Byte(n - a, i)

\* Main takes SPI_EVENT once while a transfer runs at the most, so it begins two
\* rounds at the most: the one it owed, and none before that is over.
LEMMA NextMisoInv == TypeOK /\ RxInv /\ TxInv /\ MisoInv /\ [Next]_vars => MisoInv'
<1> SUFFICES ASSUME TypeOK, RxInv, TxInv, MisoInv, [Next]_vars PROVE MisoInv'
  OBVIOUS
<1>0. /\ N \in Nat \ {0} /\ pos \in 0 .. N + 1 /\ Idle = N + 1 /\ k \in Int
      /\ written \in 0 .. N /\ SPI_EVENT \in 0 .. 1
      /\ miso \in [Index -> 0 .. Width - 1]
  BY Numbers DEF TypeOK
<1>1. CASE StartTransfer
  <2>1. pos' = 0 /\ pos' # Idle' /\ \A i \in Index : ~(i < 0)
    BY <1>0, <1>1 DEF StartTransfer, Index, Idle
  <2> QED
    BY <2>1 DEF MisoInv
<1>2. CASE TransferByte
  <2>1. pos # Idle /\ pos' = pos + 1 /\ pos' # Idle /\ pos \in Index
    BY <1>0, <1>2 DEF TransferByte, Index
  <2>2. k' = k /\ miso' = [miso EXCEPT ![pos] = tx_buffer[pos]]
    BY <1>2 DEF TransferByte, mainVars
  <2>3. Ages' = Ages
    BY <1>2 DEF TransferByte, Ages, Owed, mainVars
  <2>4. SUFFICES ASSUME NEW i \in Index, i < pos'
                 PROVE  miso'[i] = 0 \/ \E a \in Ages : miso'[i] = Byte(k - a, i)
    BY <2>1, <2>2, <2>3 DEF MisoInv, Idle, Byte
  <2>5. CASE i = pos
    <3>1. miso'[i] = tx_buffer[i]
      BY <1>0, <2>1, <2>2, <2>5
    <3>2. CASE main = "wait"
      <4>1. 1 \in Ages
        BY <3>2 DEF Ages
      <4>2. tx_buffer[i] = 0 \/ tx_buffer[i] = Byte(k - 1, i)
        BY <3>2 DEF TxInv
      <4> QED
        BY <3>1, <4>1, <4>2
    <3>3. CASE main = "write"
      <4>1. 0 \in Ages /\ 1 \in Ages
        BY <3>3 DEF Ages
      <4>2. tx_buffer[i] = Byte(k, i) \/ tx_buffer[i] = 0 \/ tx_buffer[i] = Byte(k - 1, i)
        BY <3>3 DEF TxInv
      <4>3. k = k - 0
        BY <1>0
      <4>4. CASE tx_buffer[i] = Byte(k, i)
        BY <3>1, <4>1, <4>3, <4>4
      <4> QED
        BY <3>1, <4>1, <4>2, <4>4
    <3> QED
      BY <2>1, <3>2, <3>3 DEF TypeOK, RxInv
  <2>6. CASE i # pos
    <3>1. miso'[i] = miso[i] /\ i < pos
      BY <1>0, <2>1, <2>2, <2>4, <2>6 DEF Index
    <3> QED
      BY <2>1, <3>1 DEF MisoInv
  <2> QED
    BY <2>5, <2>6
<1>3. CASE EndTransfer
  <2>1. pos # Idle /\ pos' = Idle /\ miso' = miso /\ handler = "idle"
    BY <1>0, <1>3 DEF EndTransfer
  <2>2. \A i \in Index : miso[i] = 0 \/ \E a \in Ages : miso[i] = Byte(k - a, i)
    BY <1>0, <1>3, <2>1 DEF EndTransfer, MisoInv, Index
  <2>3. SUFFICES \E n \in Int : \A i \in Index :
                   miso[i] = 0 \/ \E a \in 0 .. 2 : miso[i] = Byte(n - a, i)
    BY <2>1 DEF MisoInv, Idle, Byte
  <2>4. CASE main = "write"
    <3>1. Ages \subseteq 0 .. 2
      BY <2>4 DEF Ages
    <3> QED
      BY <1>0, <2>2, <3>1
  <2>5. CASE main # "write"
    <3>1. \A a \in Ages : a - 1 \in 0 .. 2 /\ k - a = (k - 1) - (a - 1)
      BY <1>0, <2>5 DEF Ages
    <3>2. \A i \in Index :
            miso[i] = 0 \/ \E a \in 0 .. 2 : miso[i] = Byte((k - 1) - a, i)
      BY <2>2, <3>1
    <3>3. k - 1 \in Int
      BY <1>0
    <3> QED
      BY <3>2, <3>3
  <2> QED
    BY <2>4, <2>5
<1>4. ASSUME pos' = pos, miso' = miso, k' = k, pos # Idle => Ages \subseteq Ages'
      PROVE  MisoInv'
  <2>1. CASE pos = Idle
    BY <1>4, <2>1 DEF MisoInv, Idle, Byte
  <2>2. CASE pos # Idle
    BY <1>4, <2>2 DEF MisoInv, Idle, Byte
  <2> QED
    BY <2>1, <2>2
<1>5. CASE HandlerPrint \/ HandlerSet \/ Boot
  <2>1. pos = Idle
    BY <1>5 DEF HandlerPrint, HandlerSet, Boot, RxInv
  <2>2. pos' = pos /\ miso' = miso /\ k' = k
    BY <1>5 DEF HandlerPrint, HandlerSet, Boot, mainVars, dma
  <2> QED
    BY <1>4, <2>1, <2>2
<1>6. CASE HandlerGive
  <2>1. pos' = pos /\ miso' = miso /\ k' = k
    BY <1>6 DEF HandlerGive, mainVars, dma
  <2>2. Ages' = Ages
    BY <1>6 DEF HandlerGive, mainVars, Ages, Owed
  <2> QED
    BY <1>4, <2>1, <2>2
<1>7. CASE MainTake
  <2>1. pos' = pos /\ miso' = miso /\ k' = k
    BY <1>7 DEF MainTake, dma
  <2>2. Ages = 1 .. 2 /\ Ages' = 0 .. 2
    BY <1>0, <1>7 DEF MainTake, Ages, Owed
  <2> QED
    BY <1>4, <2>1, <2>2
<1>8. CASE MainWriteByte
  <2>1. pos' = pos /\ miso' = miso /\ k' = k
    BY <1>8 DEF MainWriteByte, dma
  <2>2. Ages' = Ages
    BY <1>8 DEF MainWriteByte, Ages, Owed
  <2> QED
    BY <1>4, <2>1, <2>2
<1>9. CASE MainRoundDone
  <2>1. pos' = pos /\ miso' = miso /\ k' = (k + 1) % Width
    BY <1>9 DEF MainRoundDone, dma
  <2>2. \A a \in Ages : a \in Int /\ a + 1 \in Ages'
    BY <1>9 DEF MainRoundDone, Ages, Owed
  <2>3. \A a \in Ages, i \in Index : Byte(k' - (a + 1), i) = Byte(k - a, i)
    BY <1>0, <2>1, <2>2, NextRound
  <2>4. CASE pos = Idle
    BY <2>1, <2>4 DEF MisoInv, Idle, Byte
  <2>5. CASE pos # Idle
    <3>1. SUFFICES ASSUME NEW i \in Index, i < pos
                   PROVE  miso[i] = 0 \/ \E a \in Ages' : miso[i] = Byte(k' - a, i)
      BY <2>1, <2>5 DEF MisoInv, Idle, Byte
    <3>2. miso[i] = 0 \/ \E a \in Ages : miso[i] = Byte(k - a, i)
      BY <2>5, <3>1 DEF MisoInv
    <3> QED
      BY <2>2, <2>3, <3>2
  <2> QED
    BY <2>4, <2>5
<1>10. CASE UNCHANGED vars
  <2>1. pos' = pos /\ miso' = miso /\ k' = k
    BY <1>10 DEF vars
  <2>2. Ages' = Ages
    BY <1>10 DEF vars, Ages, Owed
  <2> QED
    BY <1>4, <2>1, <2>2
<1> QED
  BY <1>1, <1>2, <1>3, <1>5, <1>6, <1>7, <1>8, <1>9, <1>10 DEF Next, Handler, Main

\* What the master computes from the bytes of two rounds that are at most two
\* apart.
LEMMA UpdatesNear ==
  ASSUME NEW n \in Int, NEW a \in Int, NEW b \in Int, a - b \in -2 .. 2,
         NEW i \in Index, NEW j \in Index,
         miso[i] = Byte(n - a, i), miso[j] = Byte(n - b, j)
  PROVE  (Update(i) - Update(j)) % Width \in {0, 1, 2, Width - 1, Width - 2}
<1> DEFINE x == n - a
           y == n - b
<1>0. Width \in Nat \ {0} /\ Width \in Nat \ {0, 1}
  BY SizeAssumption
<1>1. x \in Int /\ y \in Int /\ -(y % Width) \in Int /\ y % Width \in Int /\ x % Width \in Int
  BY <1>0, ModType
<1>2. Update(i) = x % Width /\ Update(j) = y % Width
  BY <1>1, UpdateOf
<1>3. x - y \in -2 .. 2
  OBVIOUS
<1> HIDE DEF x, y
<1>4. ((x % Width) + (-(y % Width))) % Width = (x + (-(y % Width))) % Width
  BY <1>0, <1>1, ModAdd
<1>5. (x - (y % Width)) % Width = (x - y) % Width
  BY <1>0, <1>1, ModSub
<1>6. /\ (x % Width) + (-(y % Width)) = (x % Width) - (y % Width)
      /\ x + (-(y % Width)) = x - (y % Width)
  BY <1>1
<1>7. (x - y) % Width \in {0, 1, 2, Width - 1, Width - 2}
  BY <1>0, <1>3, ModNear
<1> QED
  BY <1>2, <1>4, <1>5, <1>6, <1>7

\* What has been read of a transfer is of three successive rounds, or untouched.
LEMMA ReadsThreeRounds ==
  ASSUME TypeOK, MisoInv
  PROVE  TornByThreeAtMost
<1>0. N \in Nat \ {0} /\ pos \in 0 .. N + 1 /\ Idle = N + 1 /\ k \in Int
  BY Numbers
<1>1. Read \subseteq Index /\ (pos # Idle => \A i \in Read : i < pos)
  BY <1>0 DEF Read, Index
<1>2. \E n \in Int : \A i \in Read :
        miso[i] = 0 \/ \E a \in 0 .. 2 : miso[i] = Byte(n - a, i)
  <2>1. CASE pos = Idle
    BY <1>1, <2>1 DEF MisoInv
  <2>2. CASE pos # Idle
    <3>1. \A i \in Read : miso[i] = 0 \/ \E a \in Ages : miso[i] = Byte(k - a, i)
      BY <1>1, <2>2 DEF MisoInv
    <3>2. CASE main = "write"
      <4>1. Ages \subseteq 0 .. 2
        BY <3>2 DEF Ages
      <4> QED
        BY <1>0, <3>1, <4>1
    <3>3. CASE main # "write"
      <4>1. \A a \in Ages : a - 1 \in 0 .. 2 /\ k - a = (k - 1) - (a - 1)
        BY <1>0, <3>3 DEF Ages
      <4>2. \A i \in Read : miso[i] = 0 \/ \E a \in 0 .. 2 : miso[i] = Byte((k - 1) - a, i)
        BY <3>1, <4>1
      <4>3. k - 1 \in Int
        BY <1>0
      <4> QED
        BY <4>2, <4>3
    <3> QED
      BY <3>2, <3>3
  <2> QED
    BY <2>1, <2>2
<1>3. PICK n \in Int : \A i \in Read :
        miso[i] = 0 \/ \E a \in 0 .. 2 : miso[i] = Byte(n - a, i)
  BY <1>2
<1> SUFFICES ASSUME NEW i \in Read, NEW j \in Read, miso[i] # 0, miso[j] # 0
             PROVE  (Update(i) - Update(j)) % Width \in {0, 1, 2, Width - 1, Width - 2}
  BY DEF TornByThreeAtMost, Untouched
<1>4. PICK a \in 0 .. 2 : miso[i] = Byte(n - a, i)
  BY <1>3
<1>5. PICK b \in 0 .. 2 : miso[j] = Byte(n - b, j)
  BY <1>3
<1>6. i \in Index /\ j \in Index /\ a - b \in -2 .. 2 /\ a \in Int /\ b \in Int
  BY <1>1
<1> QED
  BY <1>4, <1>5, <1>6, UpdatesNear

\* Main may rewrite the buffer that is being sent, but no frame that the master
\* reads mixes more than three successive rounds.
THEOREM TornByThree == Spec => []TornByThreeAtMost
<1>1. Init => MisoInv
  BY DEF Init, MisoInv
<1>2. Init => RxInv
  BY DEF Init, RxInv
<1>3. Init => TxInv
  BY DEF Init, TxInv
<1>4. TypeOK /\ MisoInv => TornByThreeAtMost
  BY ReadsThreeRounds
<1> QED
  BY <1>1, <1>2, <1>3, <1>4, InitType, NextType, NextRxInv, NextTxInv, NextMisoInv,
     PTL DEF Spec
=============================================================================
