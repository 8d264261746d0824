-------------------------------- MODULE Spis --------------------------------
(***************************************************************************)
(* peripheral_nrfx/spis (src/main.c): an SPI slave.  The master clocks     *)
(* bytes out of tx_buffer and into rx_buffer by DMA.  The end of a         *)
(* transfer interrupts: the handler prints what was received, hands the    *)
(* same two buffers to the peripheral again and gives SPI_EVENT.  The main *)
(* thread waits for SPI_EVENT and rewrites tx_buffer, byte by byte, with   *)
(* k, k+1, ... for the next value of its counter k.                        *)
(*                                                                         *)
(* Nothing keeps main from rewriting a buffer that is being sent, and      *)
(* SPI_EVENT is binary.  The properties say what the master can still      *)
(* rely on.  The interrupt handler stops main; neither stops the DMA.      *)
(***************************************************************************)
EXTENDS Integers

CONSTANTS
  N,       \* bytes in a buffer
  Width,   \* number of values of a byte
  Frames,  \* what the master may send, a frame filled with one value
  Blank    \* the frame of bytes 255

ASSUME SizeAssumption == N \in Nat \ {0} /\ Width \in Nat \ {0, 1}
ASSUME FramesAssumption == Blank \in Frames

VARIABLES
  main,        \* where the main thread is
  handler,     \* where the interrupt handler is
  SPI_EVENT,   \* binary semaphore
  armed,       \* do the buffers belong to the peripheral?
  k,           \* main's counter, as far as a byte can tell
  written,     \* bytes of tx_buffer main's loop has written
  tx_buffer,
  rx_buffer,
  pos,         \* bytes transferred, N + 1 between transfers
  miso,        \* the bytes the master has read in the latest transfer
  mosi,        \* the frame it is sending, or has sent last
  printed,     \* the frame the handler has printed last
  settled      \* history: did the transfer start with main asleep?

vars == <<main, handler, SPI_EVENT, armed, k, written, tx_buffer, rx_buffer,
          pos, miso, mosi, printed, settled>>

mainVars == <<main, k, written, tx_buffer>>
dma      == <<rx_buffer, pos, miso, mosi, settled>>

Index == 0 .. N - 1
Idle  == N + 1

\* tx_buffer[i] = k + i, truncated to the byte.
Byte(n, i) == (n + i) % Width

Init ==
  /\ main = "boot" /\ handler = "idle" /\ SPI_EVENT = 0 /\ armed = FALSE
  /\ k = 0 /\ written = 0
  /\ tx_buffer = [i \in Index |-> 0] /\ rx_buffer = [i \in Index |-> Blank]
  /\ pos = Idle /\ miso = [i \in Index |-> 0] /\ mosi = Blank
  /\ printed = Blank /\ settled = TRUE

-----------------------------------------------------------------------------
(* The master, and the DMA. *)

\* A transfer with the buffers armed.  (With the buffers not armed the master
\* reads default characters and the slave knows nothing of it.)
StartTransfer ==
  /\ armed /\ pos = Idle
  /\ \E f \in Frames : mosi' = f
  /\ pos' = 0
  /\ settled' = (handler = "idle" /\ main = "wait" /\ SPI_EVENT = 0)
  /\ UNCHANGED <<mainVars, handler, SPI_EVENT, armed, rx_buffer, miso, printed>>

TransferByte ==
  /\ pos \in Index
  /\ miso' = [miso EXCEPT ![pos] = tx_buffer[pos]]
  /\ rx_buffer' = [rx_buffer EXCEPT ![pos] = mosi]
  /\ pos' = pos + 1
  /\ UNCHANGED <<mainVars, handler, SPI_EVENT, armed, mosi, printed, settled>>

\* NRFX_SPIS_XFER_DONE: the buffers are the CPU's again.  Assumed of the master is
\* that it clocks all N bytes of a transfer: the handler does not look at rx_amount.
EndTransfer ==
  /\ pos = N /\ handler = "idle"
  /\ pos' = Idle
  /\ armed' = FALSE
  /\ handler' = "print"
  /\ UNCHANGED <<mainVars, SPI_EVENT, rx_buffer, miso, mosi, printed, settled>>

-----------------------------------------------------------------------------
(* spis_event_handler_t *)

\* Mutant: nrfx_spis_buffers_set comes before the printing.
MutArmFirst ==
  /\ handler = "print"
  /\ armed' = TRUE
  /\ \/ armed /\ printed' = rx_buffer[N - 1] /\ handler' = "give"
     \/ ~armed /\ UNCHANGED <<printed, handler>>
  /\ UNCHANGED <<mainVars, SPI_EVENT, dma>>

\* The received bytes are printed unless the first is 255.
HandlerPrint ==
  /\ handler = "print"
  /\ printed' = IF rx_buffer[0] # Blank THEN rx_buffer[N - 1] ELSE printed
  /\ handler' = "set"
  /\ UNCHANGED <<mainVars, SPI_EVENT, armed, dma>>

\* nrfx_spis_buffers_set
HandlerSet ==
  /\ handler = "set"
  /\ armed' = TRUE
  /\ handler' = "give"
  /\ UNCHANGED <<mainVars, SPI_EVENT, printed, dma>>

\* Mutant: SPI_EVENT defined with a limit of 8.
MutCountingEvent ==
  /\ handler = "give"
  /\ SPI_EVENT' = IF SPI_EVENT < 8 THEN SPI_EVENT + 1 ELSE SPI_EVENT
  /\ handler' = "idle"
  /\ UNCHANGED <<mainVars, armed, printed, dma>>

\* k_sem_give(&SPI_EVENT)
HandlerGive ==
  /\ handler = "give"
  /\ SPI_EVENT' = 1
  /\ handler' = "idle"
  /\ UNCHANGED <<mainVars, armed, printed, dma>>

Handler == HandlerPrint \/ HandlerSet \/ HandlerGive

-----------------------------------------------------------------------------
(* main, which runs while no handler does. *)

\* init_spis logs its failure; without the LED main ends.  Only a driver that
\* is initialised takes the buffers.
Boot ==
  /\ main = "boot"
  /\ \E spis, led \in BOOLEAN :
       /\ main' = IF led THEN "wait" ELSE "exited"
       /\ armed' = (spis /\ led)
  /\ UNCHANGED <<handler, SPI_EVENT, k, written, tx_buffer, printed, dma>>

\* Mutant: the wait has a time-out, and its result is not looked at.
MutTakeTimesOut ==
  /\ main = "wait" /\ handler = "idle"
  /\ SPI_EVENT' = 0
  /\ main' = "write" /\ written' = 0
  /\ UNCHANGED <<handler, armed, k, tx_buffer, printed, dma>>

\* k_sem_take(&SPI_EVENT, K_FOREVER)
MainTake ==
  /\ main = "wait" /\ SPI_EVENT > 0 /\ handler = "idle"
  /\ SPI_EVENT' = SPI_EVENT - 1
  /\ main' = "write" /\ written' = 0
  /\ UNCHANGED <<handler, armed, k, tx_buffer, printed, dma>>

MainWriteByte ==
  /\ main = "write" /\ written < N /\ handler = "idle"
  /\ tx_buffer' = [tx_buffer EXCEPT ![written] = Byte(k, written)]
  /\ written' = written + 1
  /\ UNCHANGED <<main, k, handler, SPI_EVENT, armed, printed, dma>>

\* Mutant: main clears the semaphore when it has done its round.
MutResetAfterRound ==
  /\ main = "write" /\ written = N /\ handler = "idle"
  /\ k' = (k + 1) % Width
  /\ main' = "wait" /\ SPI_EVENT' = 0
  /\ UNCHANGED <<written, tx_buffer, handler, armed, printed, dma>>

\* k++, the printing of tx_buffer, and the LED.
MainRoundDone ==
  /\ main = "write" /\ written = N /\ handler = "idle"
  /\ k' = (k + 1) % Width
  /\ main' = "wait"
  /\ UNCHANGED <<written, tx_buffer, handler, SPI_EVENT, armed, printed, dma>>

Main == MainTake \/ MainWriteByte \/ MainRoundDone

-----------------------------------------------------------------------------
Next ==
  \/ StartTransfer \/ TransferByte \/ EndTransfer
  \/ Handler
  \/ Boot \/ Main

Spec == Init /\ [][Next]_vars

\* A transfer that has begun is clocked to its end, interrupts are served and
\* main runs between them.  (The master need not start another transfer.)
\* Interrupts could come so densely that main hardly runs, but it gets its
\* turn again and again: hence strong fairness.
Fairness ==
  /\ WF_vars(TransferByte) /\ WF_vars(EndTransfer) /\ WF_vars(Handler)
  /\ WF_vars(Boot) /\ SF_vars(Main)

FairSpec == Spec /\ Fairness

-----------------------------------------------------------------------------
(* Properties. *)

\* Every variable has its type.
TypeOK ==
  /\ main \in {"boot", "exited", "wait", "write"}
  /\ handler \in {"idle", "print", "set", "give"}
  /\ SPI_EVENT \in 0 .. 1 /\ armed \in BOOLEAN /\ settled \in BOOLEAN
  /\ k \in 0 .. Width - 1 /\ written \in 0 .. N
  /\ tx_buffer \in [Index -> 0 .. Width - 1] /\ miso \in [Index -> 0 .. Width - 1]
  /\ rx_buffer \in [Index -> Frames] /\ mosi \in Frames /\ printed \in Frames
  /\ pos \in 0 .. N + 1

\* The low byte of the update that byte i, as the master read it, came from.
Update(i) == (miso[i] - i) % Width
Read == 0 .. (IF pos = Idle THEN N ELSE pos) - 1
\* tx_buffer is zero until main's first round: such bytes tell nothing.
Untouched(i) == miso[i] = 0

\* Main rewrites tx_buffer under a running transfer, so the master may read a
\* torn frame; but as the semaphore merges the rounds main owes into one, no
\* frame mixes bytes of more than three successive rounds.
TornByThreeAtMost ==
  \A i, j \in Read : \/ Untouched(i) \/ Untouched(j)
                     \/ (Update(i) - Update(j)) % Width \in {0, 1, 2, Width - 1, Width - 2}

\* A master that gives the slave time gets whole frames: a transfer that
\* starts with main asleep and nothing owed reads one round's bytes throughout.
SettledFrameWhole ==
  settled => \/ \A i \in Read : Untouched(i)
             \/ \A i, j \in Read : Update(i) = Update(j)

\* What the handler prints is what the master sent in the transfer that has
\* just ended: the peripheral does not write to rx_buffer in the meantime.  (Of
\* transfers of all N bytes: after a shorter one, which the model leaves out, the
\* handler would print the rest of an earlier one.)
PrintedAsSent ==
  [][(handler = "print" /\ handler' # "print") =>
       /\ printed' = (IF mosi = Blank THEN printed ELSE mosi)
       /\ \A i \in Index : rx_buffer[i] = mosi]_vars

\* Every transfer has a round of main's loop that begins after it, although
\* SPI_EVENT counts to one only: the last of a burst is never forgotten.
RefreshedAfterTransfer ==
  (handler = "give" /\ main # "exited") ~> (main = "write" /\ written = 0)
=============================================================================
