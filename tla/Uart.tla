---------------------------------- MODULE Uart ----------------------------------
(***************************************************************************)
(* Serial input between the wire and serial_handler_inner                  *)
(* (kernel/src/interrupts.rs): the receive FIFO of the 16550 as            *)
(* kernel_main and kernel/src/serial.rs program it, the edge-triggered     *)
(* interrupt controller, and a handler that reads one byte per interrupt.  *)
(*                                                                         *)
(* The devices are external; they are modelled as far as the code relies   *)
(* on them.  The UART drives its line high while the FIFO holds at least   *)
(* Trigger bytes (FCR 0xC7: 14), or has held some for a while without one  *)
(* being read (the character timeout); reading a byte ends the timeout.    *)
(* The controller latches a request when the line rises and at no other    *)
(* time.                                                                   *)
(*                                                                         *)
(* A definition X_Word is definition X with a plausible bug; nothing uses  *)
(* it, it shows which property depends on X.                               *)
(***************************************************************************)
EXTENDS Naturals

CONSTANTS FifoSize,        \* 16
          Trigger,         \* 14
          Backlog,         \* how full the FIFO gets before its handler runs
          MaxBytes         \* bound on the bytes that arrive

ASSUME UartAssumption ==
    /\ FifoSize \in Nat /\ Trigger \in 1 .. FifoSize
    /\ Backlog \in 1 .. FifoSize
    /\ MaxBytes \in Nat

VARIABLES phase,           \* how far kernel_main is
          level,           \* bytes in the receive FIFO
          timeout,         \* the character timeout has run out
          irr,             \* the controller has latched a request for IRQ 4
          arrived,         \* history: bytes that arrived
          blanks           \* history: messages posted without a byte

uartVars == <<phase, level, timeout, irr, arrived, blanks>>

--------------------------------------------------------------------------------
(* IER 0x01 and MCR 0x0B let the receiver's interrupts through to the line;  *)
(* the first use of SERIAL1 has written them before kernel_main does.        *)
LineAt(n, t) == n >= Trigger \/ t
Line == LineAt(level, timeout)

(* The FIFO now holds n bytes with the timeout t: a rising line is latched   *)
(* on top of the requests `pending`.                                         *)
Receiver(n, t, pending) ==
    /\ level' = n
    /\ timeout' = t
    /\ irr' = (pending \/ (~Line /\ LineAt(n, t)))

UartInit ==
    /\ phase = "early"
    /\ level = 0
    /\ timeout = FALSE
    /\ irr = FALSE
    /\ arrived = 0
    /\ blanks = 0

(* A byte arrives.                                                           *)
Arrive ==
    /\ arrived < MaxBytes
    /\ arrived' = arrived + 1
    /\ level < Backlog
    /\ Receiver(level + 1, timeout, irr)
    /\ UNCHANGED <<phase, blanks>>

(* Nothing has arrived or been read for four character times.                *)
CharacterTimeout ==
    /\ level > 0
    /\ ~timeout
    /\ Receiver(level, TRUE, irr)
    /\ UNCHANGED <<phase, arrived, blanks>>

(* kernel::init: PICS.initialize() forgets latched requests, and a line that *)
(* is high must fall before it can make one.                                 *)
PicInitialize ==
    /\ phase = "early"
    /\ phase' = "pic"
    /\ irr' = FALSE
    /\ UNCHANGED <<level, timeout, arrived, blanks>>

(* Step 6 of kernel_main: FCR 0xC7 empties the FIFO ...                      *)
WriteFcr == Receiver(0, FALSE, irr)

EnableUart ==
    /\ phase = "pic"
    /\ phase' = "uart"
    /\ WriteFcr
    /\ UNCHANGED <<arrived, blanks>>

(* ... then IRQ 4 is unmasked, and step 7 enables interrupts.                *)
Unmask_OthersOnly == phase = "uart" /\ UNCHANGED uartVars
Unmask ==
    /\ phase = "uart"
    /\ phase' = "live"
    /\ UNCHANGED <<level, timeout, irr, arrived, blanks>>

(* The receive FIFO after n reads of port 0x3F8: a read of an empty FIFO     *)
(* takes nothing and yields 0.                                               *)
Left(n) == IF level > n THEN level - n ELSE 0

(* serial_handler_inner: one read of port 0x3F8, without a look at the line  *)
(* status register, and a message with whatever it yielded; taking the       *)
(* interrupt has cleared the request.                                        *)
ReadData_Skipped == Receiver(level, timeout, FALSE) /\ UNCHANGED blanks
ReadData_Twice ==
    /\ Receiver(Left(2), FALSE, FALSE)
    /\ blanks' = blanks + 2 - (level - Left(2))
ReadData ==
    /\ Receiver(Left(1), FALSE, FALSE)
    /\ blanks' = blanks + 1 - (level - Left(1))

SerialIrq ==
    /\ phase = "live"
    /\ irr
    /\ ReadData
    /\ UNCHANGED <<phase, arrived>>

UartNext ==
    \/ Arrive
    \/ CharacterTimeout
    \/ PicInitialize \/ EnableUart \/ Unmask
    \/ SerialIrq

(* The boot goes on, a pending interrupt is served in the end (no handler    *)
(* and no syscall runs for ever) and the UART measures time.                 *)
UartFairness ==
    /\ WF_uartVars(PicInitialize \/ EnableUart \/ Unmask)
    /\ WF_uartVars(SerialIrq)
    /\ WF_uartVars(CharacterTimeout)

UartSpec == UartInit /\ [][UartNext]_uartVars /\ UartFairness

--------------------------------------------------------------------------------
(* Type invariant of the devices.                                            *)
UartTypeOK ==
    /\ phase \in {"early", "pic", "uart", "live"}
    /\ level \in 0 .. FifoSize
    /\ timeout \in BOOLEAN
    /\ irr \in BOOLEAN
    /\ arrived \in 0 .. MaxBytes
    /\ blanks \in Nat

(* Once kernel_main has programmed the UART a high line always has its       *)
(* request latched: a line that stays high without one, because the handler  *)
(* left too much in the FIFO or because the controller was reset under it,   *)
(* never interrupts again.                                                   *)
HighLineIsPending == phase \in {"uart", "live"} /\ Line => irr

(* Every message the serial handler posts holds a byte that was typed, but   *)
(* for one: a request latched between the reset of the controller and that   *)
(* of the FIFO interrupts although its bytes are gone, and the unconditional *)
(* read then posts a 0.  Once interrupts are enabled no request is raised    *)
(* that its byte does not wait for.                                          *)
OneBlankAtMost ==
    /\ blanks <= 1
    /\ blanks = 1 /\ irr => level > 0

(* Serial input triggers IRQ 4 (IPC.md) until nothing is left in the FIFO.   *)
InputIsTaken == (level > 0) ~> (level = 0)
================================================================================
