------------------------------- MODULE UartProofs -------------------------------
(***************************************************************************)
(* Theorems about Uart, for every FIFO size, trigger level and amount of   *)
(* input.                                                                  *)
(***************************************************************************)
EXTENDS Uart, TLAPS

(* A byte is accepted only below Backlog, and no step but Arrive adds one.   *)
BacklogBounded == level \in 0 .. Backlog

(* The devices start empty and idle.                                         *)
LEMMA UartTypeInit == UartInit => UartTypeOK /\ BacklogBounded
<1> SUFFICES ASSUME UartInit PROVE UartTypeOK /\ BacklogBounded
  OBVIOUS
<1>1. phase \in {"early", "pic", "uart", "live"} /\ timeout \in BOOLEAN /\ irr \in BOOLEAN
  BY Zenon DEF UartInit
<1>2. /\ level \in 0 .. FifoSize /\ level \in 0 .. Backlog
      /\ arrived \in 0 .. MaxBytes /\ blanks \in Nat
  BY UartAssumption, SMT DEF UartInit
<1> QED
  BY <1>1, <1>2, Zenon DEF UartTypeOK, BacklogBounded

(* The flags that a change of the FIFO leaves.                               *)
LEMMA ReceiverFlags ==
    ASSUME NEW n, NEW t \in BOOLEAN, NEW pending \in BOOLEAN, Receiver(n, t, pending)
    PROVE  level' = n /\ timeout' \in BOOLEAN /\ irr' \in BOOLEAN
  BY Zenon DEF Receiver

(* Every step of the devices and of the driver keeps the types.              *)
LEMMA UartTypeStep ==
    ASSUME UartTypeOK, BacklogBounded, [UartNext]_uartVars
    PROVE  UartTypeOK' /\ BacklogBounded'
<1> USE UartAssumption DEF UartTypeOK, BacklogBounded
<1>1. CASE Arrive
  BY <1>1 DEF Arrive, Receiver, Line, LineAt
<1>2. CASE CharacterTimeout
  BY <1>2 DEF CharacterTimeout, Receiver, Line, LineAt
<1>3. CASE PicInitialize
  BY <1>3 DEF PicInitialize
<1>4. CASE EnableUart
  <2>1. level' = 0 /\ timeout' \in BOOLEAN /\ irr' \in BOOLEAN
    BY <1>4, ReceiverFlags, Zenon DEF EnableUart, WriteFcr
  <2> QED
    BY <1>4, <2>1 DEF EnableUart
<1>5. CASE Unmask
  BY <1>5 DEF Unmask
<1>6. CASE SerialIrq
  <2> DEFINE n == Left(1)
  <2>1. Receiver(n, FALSE, FALSE) /\ blanks' = blanks + 1 - (level - n)
    BY <1>6 DEF SerialIrq, ReadData
  <2>2. n \in 0 .. Backlog /\ level - n \in 0 .. 1
    BY DEF Left
  <2> HIDE DEF n
  <2>3. level' = n /\ timeout' \in BOOLEAN /\ irr' \in BOOLEAN
    BY <2>1, ReceiverFlags, Zenon
  <2>4. blanks' \in Nat
    BY <2>1, <2>2
  <2> QED
    BY <1>6, <2>2, <2>3, <2>4 DEF SerialIrq
<1>7. CASE UNCHANGED uartVars
  BY <1>7 DEF uartVars
<1> QED
  BY <1>1, <1>2, <1>3, <1>4, <1>5, <1>6, <1>7 DEF UartNext

(* The handler does not run, and posts nothing, before interrupts are on.    *)
BlanksComeLive == blanks > 0 => phase = "live"

(* A request is raised by bytes in the FIFO, and only a read, which follows  *)
(* on taking the request, takes one of them away: the one request without a  *)
(* byte is one that was there when step 6 of kernel_main emptied the FIFO.   *)
LEMMA BlankStep ==
    ASSUME UartTypeOK, BlanksComeLive, OneBlankAtMost, [UartNext]_uartVars
    PROVE  BlanksComeLive' /\ OneBlankAtMost'
<1> USE UartAssumption DEF UartTypeOK, BlanksComeLive, OneBlankAtMost
<1>1. CASE Arrive
  BY <1>1 DEF Arrive, Receiver
<1>2. CASE CharacterTimeout
  BY <1>2 DEF CharacterTimeout, Receiver
<1>3. CASE PicInitialize
  BY <1>3 DEF PicInitialize
<1>4. CASE EnableUart
  BY <1>4 DEF EnableUart
<1>5. CASE Unmask
  BY <1>5 DEF Unmask
<1>6. CASE SerialIrq
  <2>1. /\ phase = "live" /\ phase' = phase /\ irr
        /\ Receiver(Left(1), FALSE, FALSE) /\ blanks' = blanks + 1 - (level - Left(1))
    BY <1>6 DEF SerialIrq, ReadData
  <2>2. ~irr'
    <3>1. LineAt(Left(1), FALSE) => Line
      <4>1. Left(1) >= Trigger => level >= Trigger
        BY DEF Left
      <4> QED
        BY <4>1, Zenon DEF Line, LineAt
    <3> QED
      BY <2>1, <3>1, Zenon DEF Receiver
  <2>3. blanks' <= 1
    <3>1. CASE level > 0
      BY <2>1, <3>1 DEF Left
    <3>2. CASE level = 0
      BY <2>1, <3>2 DEF Left
    <3> QED
      BY <3>1, <3>2
  <2> QED
    BY <2>1, <2>2, <2>3
<1>7. CASE UNCHANGED uartVars
  BY <1>7 DEF uartVars
<1> QED
  BY <1>1, <1>2, <1>3, <1>4, <1>5, <1>6, <1>7 DEF UartNext

(* The unconditional read of serial_handler_inner posts at most one message  *)
(* for which no byte was typed, however full the FIFO gets and whenever      *)
(* bytes arrive during the boot.                                             *)
THEOREM OneBlankMessage == UartSpec => []OneBlankAtMost
<1> DEFINE Inv == UartTypeOK /\ BacklogBounded /\ BlanksComeLive /\ OneBlankAtMost
<1>1. UartInit => Inv
  BY UartTypeInit DEF UartInit, BlanksComeLive, OneBlankAtMost
<1>2. Inv /\ [UartNext]_uartVars => Inv'
  BY UartTypeStep, BlankStep
<1> QED
  BY <1>1, <1>2, PTL DEF UartSpec

(* When at most Trigger bytes gather before the handler runs, every step     *)
(* that leaves the line high leaves its request latched: the read of one     *)
(* byte takes the FIFO below the trigger level, and emptying the FIFO takes  *)
(* a line down whose request the controller's reset had dropped.             *)
LEMMA LineStep ==
    ASSUME Backlog <= Trigger,
           UartTypeOK, BacklogBounded, HighLineIsPending, [UartNext]_uartVars
    PROVE  HighLineIsPending'
<1> USE UartAssumption DEF UartTypeOK, BacklogBounded, HighLineIsPending, Line, LineAt
<1>1. CASE Arrive
  BY <1>1 DEF Arrive, Receiver
<1>2. CASE CharacterTimeout
  BY <1>2 DEF CharacterTimeout, Receiver
<1>3. CASE PicInitialize
  BY <1>3 DEF PicInitialize
<1>4. CASE EnableUart
  BY <1>4 DEF EnableUart, WriteFcr, Receiver
<1>5. CASE Unmask
  BY <1>5 DEF Unmask
<1>6. CASE SerialIrq
  BY <1>6 DEF SerialIrq, ReadData, Receiver, Left
<1>7. CASE UNCHANGED uartVars
  BY <1>7 DEF uartVars
<1> QED
  BY <1>1, <1>2, <1>3, <1>4, <1>5, <1>6, <1>7 DEF UartNext

(* With a prompt handler no high line is ever left without a request, for    *)
(* any trigger level: serial input cannot die.  UartBacklog shows that the   *)
(* assumption is needed.                                                     *)
THEOREM PromptLineIsPending ==
    ASSUME Backlog <= Trigger
    PROVE  UartSpec => []HighLineIsPending
<1> DEFINE Inv == UartTypeOK /\ BacklogBounded /\ HighLineIsPending
<1>1. UartInit => Inv
  BY UartTypeInit DEF UartInit, HighLineIsPending
<1>2. Inv /\ [UartNext]_uartVars => Inv'
  BY UartTypeStep, LineStep
<1> QED
  BY <1>1, <1>2, PTL DEF UartSpec
================================================================================
