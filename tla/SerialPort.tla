----------------------------- MODULE SerialPort -----------------------------
(* The interrupt driven serial terminal: biosrom/bios/niletty.c (compiled    *)
(* with TTY_INTERRUPTS) over the circular buffers of biosrom/bios/IO.C.  The *)
(* one thread of the program reads and writes; ttyintr comes between any two *)
(* of its steps.  Characters are numbered in the order in which the buffers  *)
(* accept them, so that a character out of place has the wrong number.       *)
EXTENDS Integers

CONSTANTS
  CBUFSIZE, \* slots of a circular buffer, of which one stays free (256)
  MaxSent,  \* bound: characters written
  MaxHeard, \* bound: characters received
  MaxCount  \* bound: characters asked for in one call

ASSUME SerialAssumption ==
  /\ CBUFSIZE \in Nat /\ CBUFSIZE > 1
  /\ {MaxSent, MaxHeard, MaxCount} \subseteq Nat

VARIABLES
  NILE4Queue,   \* received characters, filled by the interrupt
  NILE4OQueue,  \* characters to send, emptied by the interrupt
  NILE4_UART_IER, \* is the transmit interrupt enabled? (reception always is)
  tty_caller,   \* where the program is in ttyread or ttywrite
  put,          \* number of the last character accepted for sending
  line,         \* number of the last character on the wire
  heard,        \* number of the last character accepted from the wire
  taken         \* number of the last character read

tty_vars == <<NILE4Queue, NILE4OQueue, NILE4_UART_IER, tty_caller, put, line,
              heard, taken>>

Slots == 0 .. CBUFSIZE - 1

Sending == {"full", "put", "end", "kick"}

TtyCallers == [at : Sending \cup {"rest", "read", "wrap"},
               left : Nat, nblock : BOOLEAN, heard : BOOLEAN]

Resting == [at |-> "rest", left |-> 0, nblock |-> FALSE, heard |-> FALSE]

-----------------------------------------------------------------------------
(* The circular buffer.                                                      *)

SlotAfter(i) == IF i + 1 >= CBUFSIZE THEN 0 ELSE i + 1

CIRC_EMPTY(cb) == cb.cb_in = cb.cb_out

CIRC_FLUSH(cb) == [cb EXCEPT !.cb_in = 0, !.cb_out = 0]

circ_full(cb) == SlotAfter(cb.cb_in) = cb.cb_out

(* Mutant: no test for room.                                                 *)
circ_putcOver(c, cb) ==
  [cb EXCEPT !.cb_buf[cb.cb_in] = c, !.cb_in = SlotAfter(@)]

circ_putc(c, cb) ==
  IF SlotAfter(cb.cb_in) = cb.cb_out
  THEN cb
  ELSE [cb EXCEPT !.cb_buf[cb.cb_in] = c, !.cb_in = SlotAfter(@)]

(* circ_getc takes the character and moves on, for an instant past the end   *)
(* of the buffer, and then wraps.  In ttyintr nothing comes in between.      *)
Fetched(cb) == cb.cb_buf[cb.cb_out]

SteppedOver(cb) == [cb EXCEPT !.cb_out = @ + 1]

(* Mutant: the wrap comes one slot too late.                                 *)
WrappedLate(cb) ==
  IF cb.cb_out > CBUFSIZE THEN [cb EXCEPT !.cb_out = 0] ELSE cb

Wrapped(cb) == IF cb.cb_out >= CBUFSIZE THEN [cb EXCEPT !.cb_out = 0] ELSE cb

-----------------------------------------------------------------------------
(* The program.                                                              *)

(* ttywrite, unless an exception is being processed.                         *)
ttywrite(count, nblock) ==
  /\ tty_caller.at = "rest"
  /\ count > 0 /\ put + count <= MaxSent
  /\ tty_caller' = [at |-> "full", left |-> count, nblock |-> nblock,
                    heard |-> FALSE]
  /\ UNCHANGED <<NILE4Queue, NILE4OQueue, NILE4_UART_IER, put, line, heard,
                 taken>>

(* With the buffer full the driver makes sure that it is being sent and      *)
(* tries again, or returns what it has written when it may not block.        *)
WaitForRoom ==
  /\ tty_caller.at = "full"
  /\ circ_full(NILE4OQueue)
  /\ NILE4_UART_IER' = TRUE
  /\ tty_caller' = IF tty_caller.nblock THEN Resting ELSE tty_caller
  /\ UNCHANGED <<NILE4Queue, NILE4OQueue, put, line, heard, taken>>

RoomFound ==
  /\ tty_caller.at = "full"
  /\ ~circ_full(NILE4OQueue)
  /\ tty_caller' = [tty_caller EXCEPT !.at = "put"]
  /\ UNCHANGED <<NILE4Queue, NILE4OQueue, NILE4_UART_IER, put, line, heard,
                 taken>>

PutCharacter ==
  /\ tty_caller.at = "put"
  /\ NILE4OQueue' = circ_putc(put + 1, NILE4OQueue)
  /\ put' = put + 1
  /\ tty_caller' = [tty_caller EXCEPT
                      !.left = @ - 1,
                      !.at = IF tty_caller.left = 1 THEN "end" ELSE "full"]
  /\ UNCHANGED <<NILE4Queue, NILE4_UART_IER, line, heard, taken>>

(* Mutant: transmission starts only when the buffer is full.                 *)
LookForUnsentFull ==
  /\ tty_caller.at = "end"
  /\ tty_caller' = IF ~circ_full(NILE4OQueue)
                   THEN Resting
                   ELSE [tty_caller EXCEPT !.at = "kick"]
  /\ UNCHANGED <<NILE4Queue, NILE4OQueue, NILE4_UART_IER, put, line, heard,
                 taken>>

(* When all is written the driver looks whether the buffer is empty ...      *)
LookForUnsent ==
  /\ tty_caller.at = "end"
  /\ tty_caller' = IF CIRC_EMPTY(NILE4OQueue)
                   THEN Resting
                   ELSE [tty_caller EXCEPT !.at = "kick"]
  /\ UNCHANGED <<NILE4Queue, NILE4OQueue, NILE4_UART_IER, put, line, heard,
                 taken>>

(* ... and if it was not enables the transmit interrupt.                     *)
EnableTransmit ==
  /\ tty_caller.at = "kick"
  /\ NILE4_UART_IER' = TRUE
  /\ tty_caller' = Resting
  /\ UNCHANGED <<NILE4Queue, NILE4OQueue, put, line, heard, taken>>

ttyread(count, nblock) ==
  /\ tty_caller.at = "rest"
  /\ count > 0
  /\ tty_caller' = [at |-> "read", left |-> count, nblock |-> nblock,
                    heard |-> FALSE]
  /\ UNCHANGED <<NILE4Queue, NILE4OQueue, NILE4_UART_IER, put, line, heard,
                 taken>>

(* Without a character ttyread waits, or returns when it may not block.      *)
NothingToRead ==
  /\ tty_caller.at = "read"
  /\ tty_caller.nblock
  /\ CIRC_EMPTY(NILE4Queue)
  /\ tty_caller' = Resting
  /\ UNCHANGED <<NILE4Queue, NILE4OQueue, NILE4_UART_IER, put, line, heard,
                 taken>>

GetCharacter ==
  /\ tty_caller.at = "read"
  /\ ~CIRC_EMPTY(NILE4Queue)
  /\ taken' = Fetched(NILE4Queue)
  /\ NILE4Queue' = SteppedOver(NILE4Queue)
  /\ tty_caller' = [tty_caller EXCEPT !.at = "wrap", !.heard = FALSE]
  /\ UNCHANGED <<NILE4OQueue, NILE4_UART_IER, put, line, heard>>

WrapRead ==
  /\ tty_caller.at = "wrap"
  /\ NILE4Queue' = Wrapped(NILE4Queue)
  /\ tty_caller' = IF tty_caller.left = 1
                   THEN Resting
                   ELSE [tty_caller EXCEPT !.at = "read", !.left = @ - 1]
  /\ UNCHANGED <<NILE4OQueue, NILE4_UART_IER, put, line, heard, taken>>

(* ttyopen flushes both buffers; what was in them is gone.                   *)
ttyopen ==
  /\ tty_caller.at = "rest"
  /\ NILE4Queue' = CIRC_FLUSH(NILE4Queue)
  /\ NILE4OQueue' = CIRC_FLUSH(NILE4OQueue)
  /\ NILE4_UART_IER' = FALSE
  /\ line' = put
  /\ taken' = heard
  /\ UNCHANGED <<tty_caller, put, heard>>

-----------------------------------------------------------------------------
(* ttyintr.                                                                  *)

(* The transmit holding register is empty, and there is something to send    *)
(* or nothing more.                                                          *)
TransmitInterrupt ==
  /\ NILE4_UART_IER
  /\ IF CIRC_EMPTY(NILE4OQueue)
     THEN /\ NILE4_UART_IER' = FALSE
          /\ UNCHANGED <<NILE4OQueue, line>>
     ELSE /\ line' = Fetched(NILE4OQueue)
          /\ NILE4OQueue' = Wrapped(SteppedOver(NILE4OQueue))
          /\ UNCHANGED NILE4_UART_IER
  /\ UNCHANGED <<NILE4Queue, tty_caller, put, heard, taken>>

(* A character arrives; a full buffer drops it.  The table that sets the     *)
(* UART up turns its FIFO off, so that two characters are one character time *)
(* apart: no two come between two instructions of circ_getc.                 *)
ReceiveInterrupt ==
  /\ heard < MaxHeard
  /\ ~(tty_caller.at = "wrap" /\ tty_caller.heard)
  /\ NILE4Queue' = circ_putc(heard + 1, NILE4Queue)
  /\ heard' = IF circ_full(NILE4Queue) THEN heard ELSE heard + 1
  /\ tty_caller' = IF tty_caller.at = "wrap"
                   THEN [tty_caller EXCEPT !.heard = TRUE]
                   ELSE tty_caller
  /\ UNCHANGED <<NILE4OQueue, NILE4_UART_IER, put, line, taken>>

-----------------------------------------------------------------------------

EmptyBuffer == [cb_in |-> 0, cb_out |-> 0, cb_buf |-> [i \in Slots |-> 0]]

(* After ttyinit and ttyopen.                                                *)
TtyInit ==
  /\ NILE4Queue = EmptyBuffer
  /\ NILE4OQueue = EmptyBuffer
  /\ NILE4_UART_IER = FALSE
  /\ tty_caller = Resting
  /\ put = 0 /\ line = 0 /\ heard = 0 /\ taken = 0

TtyProgram ==
  \/ WaitForRoom
  \/ RoomFound
  \/ PutCharacter
  \/ LookForUnsent
  \/ EnableTransmit
  \/ NothingToRead
  \/ GetCharacter
  \/ WrapRead

TtyNext ==
  \/ \E count \in 1 .. MaxCount, nblock \in BOOLEAN :
       ttywrite(count, nblock) \/ ttyread(count, nblock)
  \/ TtyProgram
  \/ ttyopen
  \/ TransmitInterrupt
  \/ ReceiveInterrupt

TtySpec == TtyInit /\ [][TtyNext]_tty_vars

-----------------------------------------------------------------------------
(* Properties.                                                               *)

TtyBuffers == [cb_in : Slots, cb_out : Slots, cb_buf : [Slots -> Nat]]

TtyTypeOK ==
  /\ NILE4Queue \in [cb_in : Slots, cb_out : 0 .. CBUFSIZE,
                     cb_buf : [Slots -> Nat]]
  /\ tty_caller.at # "wrap" => NILE4Queue.cb_out \in Slots
  /\ NILE4OQueue \in TtyBuffers
  /\ NILE4_UART_IER \in BOOLEAN
  /\ tty_caller \in TtyCallers
  /\ put \in Nat /\ line \in Nat /\ heard \in Nat /\ taken \in Nat

(* What goes out on the wire and what a reader gets is what was accepted, in *)
(* that order, without a gap or a repetition, however the interrupt falls:   *)
(* in the test for room, in the store of a character or between the step     *)
(* past the end of the buffer and its wrap (IO.C:236-240).  Only ttyopen     *)
(* skips characters, all there are.                                          *)
InOrder ==
  /\ line' # line => line' = line + 1 \/ (line' = put /\ ttyopen)
  /\ taken' # taken => taken' = taken + 1 \/ (taken' = heard /\ ttyopen)

NothingReordered == [][InOrder]_tty_vars

(* A writer is not left waiting and nothing it wrote stays in the buffer:    *)
(* the transmit interrupt that ttyintr turns off when it finds the buffer    *)
(* empty is turned on again by whoever fills it (niletty.c:406).             *)
SenderResumes == []<>(tty_caller.at \notin Sending /\ line = put)
=============================================================================
